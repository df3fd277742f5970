# whmcs-modd-container: a TLA+ verification project

The repository runs customer web applications as containers on one host. A Go
controller (`src/go-service`) owns the services of that host; WHMCS modules in
PHP (`src/whmcs-plugin`) call its HTTP API. This directory holds the TLA+ models
of the controller and of the one part of the WHMCS modules that keeps state, the
TLC configurations that check them, and the proofs that TLAPS checks about them.

Contents: [1 the system](#1-the-system) · [2 the model](#2-the-model) ·
[3 the runs](#3-the-runs) · [4 the proofs](#4-the-proofs) ·
[5 what the model found](#5-what-the-model-found) ·
[6 what is not modelled](#6-what-is-not-modelled) · [7 plan](#7-plan)

## 1 The system

Every service has one record (`<services_dir>/<id>.toml`), two container slots
(blue and green), one Caddy route, one ZFS dataset, one host account and one
certificate. `service.Manager` answers the API calls and drives all of these.

| component | source (`src/go-service/...`) | state it keeps | operations |
|---|---|---|---|
| Manager, lifecycle | `internal/service/manager.go` | `mu`, `healthSequence`, `healthAttempts`; everything else is in the record | `Provision` (with `reconcile`, `deployDomains`), `Upgrade`, `Suspend`, `Resume`, `Terminate`, `Delete`, the goroutines `finishHealth`, `finishRouting`, `finishDelete`, and `RecoverInterrupted` |
| DNS synchronisation | same, 1449–1826 | `dnsPending`, `dnsActive`, `dnsWake`, `DNSStatus` of the record | `queueDNS`, `enqueueDNS`, `runDNSWorker`, `syncDNS`, `prepareDNSForRouting`, `cleanupOldDNSAsync` |
| Bulk upgrades | same, 756–1046 | the persisted job, `bulkUpgradeWake` | `QueueBulkUpgrade`, `runNextBulkUpgrade`, `waitForBulkUpgrade`, `finishBulkUpgradeItem` |
| Certificate worker | same, 2168–2278; `internal/certificate` | files below the service's dataset | `issueIdentity`, renewal of everything that is due |
| Status and monitor | same | none | read-only snapshots of record, Docker, Caddy and ZFS |
| State repository | `internal/state` | record, tombstone and bulk-job files | `Put`, `Get`, `List`, `PutTombstone`, `DeleteLive`, `PutBulkUpgrade`; every write is temp file + rename |
| Docker adapter | `internal/docker` | containers, images | `StartSlot`, `RemoveSlot`, `StopAll`, `RemoveAll`, `HasVersion`, `Pull` |
| Caddy adapter | `internal/caddy` | two files per service; the configuration Caddy has loaded | `Active`, `Suspended`, `Remove`, `Status`; replace, validate, reload, or restore |
| ZFS adapter | `internal/zfs` | datasets and mountpoints | `Create`, `Destroy`, `Exists`, `Used` |
| Isolation | `internal/isolation` | host accounts, file owners | `EnsureAccount`, `RemoveAccount`, `ChownTree` |
| Health check | `internal/healthcheck` | none | `Check`: a bounded number of probes of a slot's socket |
| API | `internal/api` | the status of the one image pull | routes to the Manager; `pullImage`; the monitor websocket |
| Notification, config, metrics, start-up | `internal/notify`, `config`, `metrics`, `cmd/controller` | none | output and start-up; `main` runs `RecoverInterrupted` before it listens |
| WHMCS server module | `src/whmcs-plugin/modules/servers` | per service, the columns `matomo_id`, `matomo_attempt`, `matomo_last_error` | forwards WHMCS calls to the API; `moddhosting_matomo_id` creates or recovers a Matomo site first; the service's page saves the columns |
| WHMCS addon, Matomo import | `src/whmcs-plugin` | none of their own | administration pages; a one-off SQL migration |

**How they interact.** An API call and the goroutine it leaves behind are one
thread of control. It takes `Manager.mu` only to read and write the record, and
releases it around every external call (Docker, Caddy, ZFS, the file system);
in between it keeps a *copy* of the record, which it later writes back whole.
What keeps two threads apart is not the lock but the record's `phase`: a busy
phase makes the other calls answer 409 — except `waiting_for_health`, which
`Upgrade`, `Suspend` and `Terminate` may take over while the old attempt's
health check is still running.

The DNS worker and the clean-ups of old names own no phase. They meet the
operations in the record's `dns_status` and hostname, which the worker compares
under the lock, and in the DNS itself, which nothing locks. The WHMCS module is
a set of PHP requests that share a database row and talk to a Matomo that may
carry out a request long after its sender has given up; a database lock (`GET_LOCK`)
keeps them apart.

**What is hard.** Stale copies; a verdict of an abandoned health check; calls
that look at the record, wait, and look again; a failure or a restart of the
controller between an external effect and the record that tells of it; a retry
that starts from whatever the failure left; busy phases nobody will end.

**What makes it correct.**

- *Lifecycle*: one writer per record and no lost write; `running` means served
  by a checked container of the recorded version, `stopped` means quiet; an
  upgrade keeps the old deployment serving; traffic goes only to checked
  containers; the dataset goes last; every operation ends.
- *DNS*: `in_sync` is said only of the record's present name, and is true; what
  is queued is decided; a name in use is not cleaned up (it may be: section 5).
- *Matomo*: a service gets one site at most, whatever is lost or late; a site
  once asked for is not forgotten; the saved ID still reaches the controller;
  the status is about the site in the row.
- *Bulk upgrades*: no queued item is lost, one item at a time, an interrupted
  item is retried, three failures cancel the rest, the job ends.
- *Caddy*: a change that was answered stays in its file and loaded, one that was
  refused leaves nothing behind, and one service's error leaves the others alone.
- *Repository*: a reader sees the old or the new content.

## 2 The model

| module | what it is |
|---|---|
| `Lifecycle.tla` | the lifecycle of one service: Manager, record, containers, route, dataset |
| `ServiceRecord.tla` | what a service's record promises to its readers, as operators on an abstract record: who may take it over from where, and what may become of it then |
| `ServiceLife.tla` | the abstract specification: one service that goes where `ServiceRecord` lets it |
| `LifecycleRecord.tla` | the refinement mapping: `Lifecycle` implements `ServiceLife` (`KeepsPromise`) |
| `MCLifecycle.tla` | instances for TLC: the calls, services at rest, thread symmetry |
| `BulkUpgrade.tla` | bulk upgrades: the job file, the queueing call, the worker, shutdown and restart, over the services as `ServiceRecord` promises them |
| `MCBulkUpgrade.tla` | instances for TLC: the requests |
| `DnsSync.tla` | DNS: the API, the worker and its queue, the operations that use them, the clean-up of old hostnames, restart |
| `MCDnsSync.tla` | instances for TLC: who calls what, services at rest |
| `Matomo.tla` | the Matomo site of one service: the row, the lock, the requests, the administrator's saves, a Matomo that may be late |
| `MCMatomo.tla` | instance for TLC |
| `CaddyRoutes.tla` | the Caddy adapter: the files of several services in one directory, the validations and reloads that all of them share, the roll-backs |
| `MCCaddyRoutes.tla` | instance for TLC |
| `Lifecycle_proofs.tla` | types, `OneWriter`, `DestroyIsLast` |
| `LifecycleRecord_proofs.tla` | what a record and its copies say at each label; the refinement, `KeepsPromise` |
| `LifecycleOwner_proofs.tla` | health attempts, `BusyHasOwner` |
| `LifecycleServing_proofs.tla` | record, route and containers together: `RunningIsServed`, `StoppedIsQuiet`, `RoutedByName`, `RunsItsVersion`, `UpgradeKeepsServing`, `SwitchedToChecked` |
| `BulkUpgrade_proofs.tla` | what merging a request keeps, `OneAtATime`, `CancelledByThird`, `RequestsKept` |
| `DnsSync_proofs.tla` | types, `InSyncIsTrue` |
| `Matomo_proofs.tla` | types and the four safety invariants of `Matomo` |
| `CaddyRoutes_proofs.tla` | types and the three safety invariants of `CaddyRoutes` |

`Lifecycle` and `BulkUpgrade` meet in `ServiceRecord`: the first is shown to
implement it, the second takes it as what other calls may do to a service.
`DnsSync` has the operations of `Lifecycle` in a coarser form, reduced to what
moves the hostname and `dns_status`. `CaddyRoutes` is what lies behind the one
step `Lifecycle` takes for a call of Caddy; from `Lifecycle` it takes that a
service has one such call in flight at most (`OneWriter`). `Matomo` runs on
another machine: all the controller sees of it is an ID in a request.

### Variables and code: `Lifecycle`

| variable | code |
|---|---|
| `rec` | the live record: state, phase, operation, live and target slot, version and target version, hostname and target hostname; `NoRec` when there is no file |
| `tomb` | phase of the tombstone file |
| `health` | `Manager.healthSequence` and `healthAttempts[id]` (0: no entry) |
| `ctr` | per slot: absent, stopped or running, the version it was made from, and whether the application in it has answered a health check since it was started |
| `route` | none, a proxy to a slot, or the suspension page, and the hostname |
| `disk` | whether the dataset and its mountpoint directory exist |
| `th` | per thread: where it is, the request, its copy `svc` of the record (the Go variable `service`), its health attempt, the verdict |
| `requests`, `faults` | what is left of the two bounds |

A step is one critical section under `Manager.mu`, or one external call made
without it. The labels of `pc` are named for what comes next: `lookup`, `image`,
`claim`, `storage`, `start`, `putWaiting`, `health`, `verdict`, `route`, `drain`,
`putRunning`, ... Every external call may fail, by the kinds in `Faults`:

- `docker`, `caddy`, `zfs`, `host` (accounts, sockets, owners), `cache` (slot
  directories): an error. After one of a Docker call that starts or stops
  containers, or of ZFS, the effect may have happened in part;
- `kill`: a removal of containers errs, or reaches its deadline, after it has
  killed or removed some of them (`HalfRemove`). The removal is forced, so
  Docker kills the container first (`docker.go:216`, `:308`);
- `image`: the image is not there;
- `repo`: a record or tombstone is not written;
- `crash`: the controller dies and `RecoverInterrupted` runs. It may strike
  between any two steps, and within the two steps that make two lasting changes:
  a hostname change, between Caddy and the record (`ApplyDomains`), and the end of
  a delete, between the tombstone and the removal of the record (`Bury`).

The last thing a model of this code needs is that Docker keeps containers
whatever happens to the controller: `Restart` leaves `ctr`, `route` and `disk`
alone.

### Variables and code: `BulkUpgrade`

| variable | code |
|---|---|
| `job` | `<state_dir>/bulk-upgrade.toml`: status, items (service, version, confirm_downgrade, status) and failure count |
| `woken` | whether the channel `wake` of the worker's round is closed (`wakeBulkUpgradeLocked` closes it and makes a new one) |
| `worker` | where `runBulkUpgradeWorker` is, the `index` of its item, and whether `upgradeErr` is set |
| `service` | per service, its record as `ServiceRecord` has it |
| `cause` | of a failed service, what `last_error` says: `failed` (on its own), `cancelled` (exactly `context canceled`), `restarted` (the restart text), `cut off` (the error of a call that the shutdown cancelled) |
| `stopping` | `Manager.Context` is cancelled |
| `left` | what is left of the bounds |

The labels of `worker.pc`: `fetch` (take the wake channel), `next` (look at the
job), `asleep`, `gone`; and with an item in hand `call`, `starting` (inside
`Upgrade`), `waiting` (`waitForBulkUpgrade`), `finish`. `Recover`, `Take`,
`Complete` and `NothingToDo` are the ways through one critical section of
`runNextBulkUpgrade`; each write of the job may fail (`Puts`).

### Variables and code: `DnsSync`

| variable | code |
|---|---|
| `rec` | per service, the record: state, phase, operation, live slot, hostname, target hostname, `dns_status` |
| `zone` | per domain, what its apex record and its `www` alias hold: nothing, somebody else's value, ours |
| `call` | per client (a thread, or the worker `Syncer`), where its pass of `callDNSAPI` is and which repairs are to do |
| `queue`, `active`, `wake` | `dnsPending`, `dnsActive`, the channel `dnsWake`, which has room for one |
| `worker` | `runDNSWorker` with `syncDNS`: waiting, taking, synchronising with its number of tries, writing, clearing |
| `thread` | the calls and the goroutines they leave: the hostname change of `deployDomains`, a deployment with `finishHealth`, `changeState` with `finishRouting`, and `enqueueDNS` in two steps, since its send comes after the unlock |
| `cleanups` | goroutines of `cleanupOldDNSAsync`, each with its next request |
| `moved` | history: the domains some service has moved away from |
| `left` | what is left of the bounds, and the kinds of trouble there were |

A step is one request to the DNS API, one critical section under `Manager.mu`,
or the other external calls of an operation up to its next write. Any request to
the API may fail, for good (403, 404) or with an error that is retried, and a
repair that failed may have been made or not. A clean-up deletes in one request what
it has read in another.

### Variables and code: `Matomo`

| variable | code |
|---|---|
| `row` | the columns `matomo_id`, `matomo_attempt`, `matomo_last_error` of the service |
| `sites` | in Matomo, the group of each site: its creation key, this service's own group `whmcs-<id>`, another one, or no site |
| `asked` | `addSite` requests that were sent and that Matomo has yet to carry out |
| `lock` | the holder of `GET_LOCK` |
| `th` | per PHP request, where `moddhosting_matomo_id` is, its `$id` and `$savedId`, and whether the row was read and the ID written without an error |
| `used`, `cleared` | history: the keys drawn, and those of them drawn before the last save that changed the row |
| `left` | what is left of the bounds |

A step is one SQL statement, one request to Matomo or one save. A statement that
fails may have taken effect; a request whose answer is lost may never arrive, or
be carried out at any later time; a PHP process may die at any step, which
releases the lock.

### Variables and code: `CaddyRoutes`

| variable | code |
|---|---|
| `file`, `map` | per service, what `<id>.caddy` and `<id>.map` hold: a proxy or the suspension page, and the hostnames; `NoSite` when there is no file (or an empty one) |
| `loaded` | per service, its site in the configuration Caddy runs |
| `reloads` | the reload commands that have read the directory and have yet to load it: the number of the read, and what it saw |
| `strays` | per service, the reload commands its calls have given up (deadline, a dying controller) that go on, and have yet to read |
| `call` | per service, where its `Active`, `Suspended` or `Remove` is in `replace`, `apply` and `restoreFiles`; the site asked for, the contents read before (`old`), whether the roll-back has an `apply` to make, and the number of the reload it waits for; or how the last call ended |
| `reads`, `newest` | history: how often the directory was read for a reload, and the latest such read that was loaded |
| `answered` | history: the site of the last call that returned without an error |
| `troubles`, `left` | history: the kinds of trouble there were; what is left of the bounds |

A step is one file replaced (`replaceFile`: rename, or remove), one validation run,
or, in the roll-back, the emptying of the files and their writing: `os.WriteFile`
truncates first, and another service's reload may come in between. A validation
and a reload read *all* files of the directory; that is how the calls of
different services meet, for nothing locks it. A reload is an external command
(`docker exec ... caddy reload`, `config.example.toml:28`) and two steps of its
own: it reads the directory and refuses what is not valid (`Reads`), and Caddy
loads what it has read (`Loads`). Nothing keeps two reloads in order: the one
that read first may load last, which the history calls `overtaken`. A call whose
deadline ends the client of `docker exec`, or whose controller dies, leaves the
command running, and it may still read or load at any later time (`StrayReads`,
`StrayLoads`). `Valid` is what Caddy refuses
that the controller does not look at: two sites with one hostname.

### The refinement

`Seen` maps the record to `ServiceLife`: `Stage` groups the phases into *begun*
(nobody else may begin anything), *waiting* (some calls may) and *ending*; a
service with a tombstone is gone, whatever else lies under its ID — without that
the finding of `provision_checks` would break the promise. Slots, route,
containers and threads are hidden. `KeepsPromise` is `ServiceLife`'s
specification under this mapping. It is what the code cannot break by
overlapping calls, faults and restarts: a takeover only at rest or while
waiting, a deployment that ends running in the version it was begun with and
only after that wait, a failure that keeps what a retry needs.

### Abstractions

- `Lifecycle` has one service. Services share only `Manager.mu`, which is never
  held across a wait here, and Caddy's directory, which `CaddyRoutes` is about.
- Main domain, staging domain and public address are one value, `dom`; what is
  done to one is done to the others.
- Package, Matomo id, display names, timestamps and error texts are left out. A
  changed Matomo id forces a redeployment, and acts as `force`.
- In `Lifecycle` DNS is disabled, as it is when no endpoint is configured. With
  DNS the worker writes `dns_status` only, into a record it reads under the lock;
  `DnsSync` has it enabled.
- In `Lifecycle` the route's files and the loaded configuration are one value: a
  replacement is loaded or undone. `CaddyRoutes` tells when that is so.
- In `CaddyRoutes` a validation, or the reading half of a reload, reads the
  directory at one moment; the slot and the socket of a proxy are left out, and
  so is the text of the main Caddyfile, which imports the directory.
- A refused request (400, 404, 409) changes nothing and is a step not taken; a
  call whose first check passes and whose second fails goes through both.
- `BulkUpgrade` takes `Upgrade` in two steps, up to the claim and up to its
  return; the deadline of an item may pass at any time; a version or service ID
  that `QueueBulkUpgrade` answers with 400 is not sent. Services start at rest
  and active; another call may take one over at any time it is allowed to.
- `cause` is reset when an operation begins. The code keeps `last_error` until
  the next success or failure, but reads it only in phase `failed`, which sets it.
- Writes of service records do not fail in `BulkUpgrade`; those of the job do.
- `DnsSync`: one public IPv4 address and no AAAA records; a value that is not
  ours is `other`, whatever it is. A deployment waiting for its health check is
  not taken over by another call; `Lifecycle` has that, and there the record
  changes hands, not what is written about DNS. Images, containers, routes,
  staging domains and deletes are left out: they touch neither the hostname nor
  `dns_status`. The worker has been started (`StartDNSWorker` is called once).
- `Matomo`: one service, since the lock, the row and the keys are per service.
  The site a key creates is called by that key. Sites of older versions of the
  module carry the key in their name rather than in their group; the two are not
  told apart. Display names, URLs and the controller's own copy of the ID are
  left out. `updateSite` of a late request is not modelled as late: done then, it
  names the site it would have named anyway.

## 3 The runs

`bulk_*` are runs of `MCBulkUpgrade`, `dns_*` of `MCDnsSync`, `caddy_shared` of
`MCCaddyRoutes`, `matomo_sites` of `MCMatomo`, all others of `MCLifecycle`.

| run | spec | checks | outcome |
|---|---|---|---|
| `serving` | `RestSpec` | `RunningIsServed`, `RunsItsVersion`, `StoppedIsQuiet`, `RoutedByName`, `UpgradeKeepsServing`, `SwitchedToChecked` | hold |
| `life` | `Spec` | `TypeOK`, `OneWriter`, `DestroyIsLast`, `KeepsPromise` | hold |
| `progress` | `RestFairSpec` | `BusyHasOwner`, `RunningIsServed`, `StoppedIsQuiet`, `OperationsEnd`, `DeletesEnd` | hold |
| `resume_traffic` | `RestSpec` | `OnlyCheckedGetsTraffic` | violated |
| `upgrade_outage` | `RestSpec` | `UpgradeKeepsServing` | violated |
| `provision_checks` | `RestSpec` | `ProvisionChecksHold` | violated |
| `bulk_queue` | `RestSpec` | `OneAtATime`, `CancelledByThird`, `RequestsKept`, `JobsEnd` | hold |
| `bulk_interrupted` | `RestSpec` | `InterruptedIsRetried` | violated |
| `dns_updates` | `MCSpec` | `TypeOK`, `InSyncIsTrue`, `QueuedIsDecided` | hold |
| `dns_moved_back` | `MCSpec` | `SettledIsTrue` | violated |
| `caddy_shared` | `Spec` | `TypeOK`, `AnsweredIsLoaded`, `QuietIsValid`, `QuietIsLoaded` | hold |
| `matomo_sites` | `Spec` | `TypeOK`, `AtMostOneSite`, `NoneForgotten`, `ReturnsTheSaved`, `OkIsSynced`, `Converges` | hold |

**`serving`** starts from a service at rest (running, suspended or terminated)
and lets three calls overlap: redeployments with another hostname or version,
upgrades and downgrades, suspend, resume, terminate. Two calls to Docker, Caddy,
the host or the image store may fail. Two hostnames, two versions.
`RoutedByName` is about the hostname alone: Caddy is changed before the record
is, by deployments that may be overtaken and hostname changes that may fail, and
the two must agree whenever the service rests.
**`life`** starts from nothing: four calls, three at a time, from the first
`Provision` to `Delete`, and one fault of any kind. **`progress`** needs
liveness, so it has no symmetry and two threads. It starts from a service at rest
or from nothing, has two hostnames, and its one fault may be a crash, within a
hostname change too, or a removal that kills and errs.

**`bulk_queue`** lets two requests arrive: both services to version 2, and the
first service back to version 1, in either order or the same one twice, at any
moment of the worker's life. One trouble comes in between: another call takes a
service over, an operation fails, or the controller is told to stop, or dies,
and starts again. One write of the job may fail. `OneAtATime` is about the
worker's index against the file it shares with requests and with its own
earlier life; `CancelledByThird` keeps the persisted failure count equal to the
failed items through merges, restarts and failed writes; `RequestsKept` compares
each job with the next; `JobsEnd` includes the wake-up that must not be lost.
**`bulk_interrupted`** has SIGTERM come while `Upgrade` is under way: once
`stopping` is set no upgrade begins, since `HasVersion` fails under the cancelled
context before anything is claimed (`manager.go:1072`).

**`dns_updates`** has a service `s1` that runs or is new, and a service `s2` that
serves the second of two domains. Two calls (any on `s1`, reconnects on `s2`) run
beside the worker, which tries an update twice. Two API requests fail, at any
place and in either way, and one other thing goes wrong: an external call or a
deadline, a write of a record, or a restart. `InSyncIsTrue` compares the record,
written by three different writers, with the DNS. It leaves out the domains some
service has moved away from, because a clean-up may be under way there; what
that leaves open is the run `dns_moved_back`. `QueuedIsDecided` is where a
wake-up lost between `enqueueDNS` and the worker's `select`, or an update
dropped by a worker that takes one at a time, would show.

**`caddy_shared`** starts from any valid directory of two services that share
two hostnames. Three calls are made, by both services at once or in turn, and
one thing goes wrong: a file that is not replaced, a command that fails or is
given up, a roll-back that cannot write or whose second `apply` fails, a dying
controller. Every call reads what the other has half done: an invalid file of
one makes the validation of the other fail, a reload loads a change that is then
undone, a roll-back empties a file that another call's reload has just read. And
every reload may be loaded late, by a call that waits for it or for nobody.
`AnsweredIsLoaded` says that none of this touches a change once answered: its
file never, and what Caddy runs only if reloads are loaded out of order.
`QuietIsValid` and `QuietIsLoaded` say what is left when all calls have
returned. Each names the troubles under which it is not so, and each of those is
needed:

| excluded | because then |
|---|---|
| `restore` | a roll-back that cannot write leaves a file empty, or the refused site in it |
| `crash` | nothing at start-up looks at Caddy: files that were replaced stay, never loaded, or never validated |
| `contested` | one of two overlapping calls has taken a hostname that the roll-back of the other gives back: the directory is invalid, and every later change of any service is refused until one of the two is changed |
| `map` (`QuietIsLoaded`) | a map that cannot be written makes `replace` restore the site without an `apply`; another service's reload may have loaded it meanwhile |
| `overtaken` (`QuietIsLoaded`, and what `AnsweredIsLoaded` says of Caddy) | a reload that read before a change, or that read one since undone, is loaded after a later read: Caddy no longer runs what was answered, or runs what was refused. No failure is needed for that, only two calls at once |
| `again` (`QuietIsLoaded`) | the second `apply` fails, as it will when the context's deadline made the first one fail; its error is dropped (`caddy.go:102`) |

**`matomo_sites`** lets two requests at a time go on for ever, Deploys and
Unsuspends, with two saves by an administrator and three failures in between.
`AtMostOneSite` and `NoneForgotten` are what the attempt key is for;
`ReturnsTheSaved` and `OkIsSynced` are about the row against what the request
holds and against Matomo, over saves that come between two requests. `Converges`
says that the key does not become a dead end, except where the code wants an
administrator: a key no site bears.

**Why these bounds.** The states the calls meet differ by phase, operation, the
slot that is live and what is left in the other one; one completed operation
produces each of the resting states and one failed one each of the failed ones,
so two calls reach every pair *(what was left behind, the retry)* and a third
puts an overlapping call beside the retry. Two versions make up- and downgrade,
two hostnames a rename. A health attempt only competes with the attempts of
overlapping calls. Threads are interchangeable, hence the symmetry; it is
dropped where liveness is checked. `MaxRequests` bounds the calls of a
behaviour and `MaxFaults` its failures; nothing else is bounded.

For the bulk worker, two requests of at most two items give a merge with an item
queued, running or done, and a request after the end of a job. One trouble is
enough for three failed items, which is the limit: a service another call has
taken over refuses its two items, and the third runs into its deadline.
`MaxRequests`, `MaxTroubles` and `MaxWrites`
bound the requests, the troubles and the failed writes of a behaviour.

For DNS, two calls are an update and what overtakes it: another update of the same
service, a rename there and back, a deployment beside a hostname change, the
second service's update behind the first one's. Two failing requests exhaust the
two tries of an update, or fail a deployment's check and the retry it queues.
`MaxCalls`, `MaxRefusals`, `MaxTroubles` bound calls, failing requests and other
trouble, and `Attempts` stands for the three
tries that `dnsBackoffs` sets. One service with
three calls and one failing request (5.1 million states) shows nothing new.

For Caddy, two services are the one that is changed and one whose hostname it
may ask for and whose reloads come in between; three calls are a change, the
other service's, and a retry or a further change beside either. `MaxCalls` and
`MaxFaults` bound calls and troubles; reads and loads are not bounded but by the
calls (2.7 million states). A third service adds another reader of the same
kind; the proofs are for any number of services, calls and troubles.

For Matomo, three failures are enough for a lost creation, a failed recovery and a
failed write of the ID, and two saves for clearing the row and setting it again;
the keys are more than saves and failures together, so that a fresh one is
always left, and requests are not bounded.

**Which faults, and why not all everywhere.** Some properties are false under
some faults, by what the code does:

| property | false with | why |
|---|---|---|
| `UpgradeKeepsServing`, `SwitchedToChecked` | `crash`, `kill`, `cache` | the defect of `upgrade_outage`: the old container is gone or dead, the record still names it. A restart, a removal that kills and errs, and a slot directory that cannot be removed each come between the two |
| `RoutedByName` | `crash` | a crash between Caddy and the record of a hostname change leaves the old name in the record, and the phase is at rest, so nothing at start-up looks at it |
| `RoutedByName` | `repo` with `caddy` | a hostname change that cannot be recorded, and whose undoing fails, leaves Caddy with the new name; the code reports it and can do no more |
| `RunsItsVersion` | `crash`, from an empty host | the defect of `provision_checks`: a late `Provision` keeps a running container, whatever it is |
| `RunningIsServed` | `docker`, from an empty host, with four calls | the same defect: a late `Provision` claims a suspended service and restarts blue; its health check fails; `Resume` brings up green, and removing blue, which is best effort, fails: both run |
| `BusyHasOwner`, `OperationsEnd` | `repo` | a record or tombstone that cannot be written leaves a busy phase to nobody (section 5) |

`progress` therefore checks `RunningIsServed` and `StoppedIsQuiet` again, with
crashes, `kill`, `cache` and `zfs` failures and from an empty host too, where
`serving` leaves them out.

**Fairness.** `Fairness` is weak fairness of `Work(t)` for each thread, that is:
a thread whose call has arrived goes on. The code justifies it: the goroutines
`finishHealth`, `finishRouting` and `finishDelete` run under `operationContext`,
which has a timeout; what comes before, in the call itself, runs under the
request's context, which has none in the controller and is cancelled when the
client gives up (125 seconds, `ApiClient.php:17` and `:49`); `Health.Check`
makes a fixed number of attempts, `Manager.mu` is held only for file operations
(and, in `ApplyDomains`, for one Caddy reload) and always released. The bulk
worker's call of `Upgrade` has no such end before the health check, and is not
one of these threads; it is `BulkUpgrade`'s. No call is ever assumed to arrive,
and no fault to stay away.

In `BulkUpgrade` it is weak fairness of the worker's own steps (`Rounds`): the
goroutine goes on, and the 15 minutes of an item end `waitForBulkUpgrade`
(`manager.go:972`) whatever the service does. Nothing is assumed of the
services, and nothing of `Upgrade`: the worker calls it with `backgroundContext`
(`:845`, `:936`), which has no deadline, and neither Docker's client
(`docker.go:51`) nor the commands of Caddy have one. That each such call returns
is therefore a premise of `JobsEnd`, `CallsReturn`. `JobsEnd` lets a job stay
when the controller is being stopped, or when a write of the job failed: the
code then waits for another request or a restart.

In `DnsSync` it is weak fairness of the worker and of each thread's `Work`:
every request to the API has a time-out, and goroutines are scheduled. No call,
clean-up or fault is assumed. In `Matomo` it is weak fairness of each PHP
request (one to Matomo ends after 20 seconds, the wait for the lock after 30)
and of `MatomoCreates`: a request that has arrived is carried out. That the
service is deployed again is not assumed but a premise of `Converges`.

Deadlock checking is off in all runs but `matomo_sites`: when the calls are used
up and all are finished, nothing is left to do.

## 4 The proofs

What is proved holds for every value of the constants: any set of threads,
versions, hostnames, services, keys and requests, any number of calls and
faults. It rests on the assumption of each module about its constants:
`ConstantsAssumption` (`Lifecycle`: versions are positive naturals, requests are
well formed, the bounds are naturals), `RequestsAssumption` (`BulkUpgrade`: what
`QueueBulkUpgrade` does not answer with 400), `MatomoAssumption` (keys are
distinct from each other's group names, sites and threads, and never run out),
`CaddyAssumption` (no call asks for an empty set of hostnames), `DnsAssumption`
(the absent domain is no domain). Where a property is false under some fault
(section 3), the theorem says so as a hypothesis:

| hypothesis | of | why |
|---|---|---|
| `"repo" \notin Faults` | `BusyHasOwnerHolds` | a record that cannot be written leaves its phase to nobody |
| `RouteKept`: no `crash`, and not both `caddy` and `repo` | `RoutedByNameHolds` | no crash comes between Caddy and the record of a hostname change, and one that cannot be recorded can be undone |
| `NoOutage`: none of `crash`, `kill`, `cache` | `UpgradeKeepsServingHolds`, `SwitchedToCheckedHolds` | the defect of `upgrade_outage` |
| `ProvisionChecksHold` | `LifecycleServing_proofs`, from an empty host | the defect of `provision_checks`: behaviours in which a late `Provision` claims what it has not checked are left out |

From a service at rest (`Settled`: no call under way, running or stopped as the
record says; the starting states of `serving` are among them)
`RunningIsServed`, `StoppedIsQuiet`, `RunsItsVersion` and `UpgradeKeepsServing`
need no `ProvisionChecksHold`: as long as there is no tombstone no `Provision`
gets beyond its lookup (`VersionInv`), and with one they say nothing.
`SwitchedToChecked` does speak of a service with a tombstone, and is proved where
no `Provision` claims one.

**`TypesCorrect`: `Spec => []TypeOK`.** `TypeOK` is not inductive: whether
`AfterRoute[s.op]` or `TargetState`-shaped operations make a legal label or
state depends on what the thread's copy says at that label. `TypeInv` adds, for
each thread, what the copy is known to hold at its label (`LocalOK`: a target
slot and a deploying operation between `isolate` and `putRunning`; `suspended`
or `terminated` between `stop` and `putStopped`; and so on), and for the record
that `waiting_for_health` comes with a target and a deploying operation
(`WaitingOK`, which `HealthVerdict` reads when it takes the record anew).

**`OneWriterHolds`: `Spec => []OneWriter`.** With `TypeInv`, `OneWriter` is
inductive: its three parts support each other. A step of the holder keeps
`CopyIsCurrent` (it writes its copy back, lemma `Written`, or releases, lemma
`Released`); a step of any other thread cannot claim, because the holder's phase
is busy and not `waiting_for_health` (`Kept`); a new claim is made only when
nobody holds. The condition `tomb = "none"` is needed, and the finding of
`provision_checks` shows why: a `Provision` that slipped past the tombstone may
run beside `finishDelete`.

**`DestroyIsLastHolds`: `Spec => DestroyIsLast`.** `DeleteInv` follows a delete
through its labels: from `unserve` on both containers are gone, from `destroy`
on the route too, and nobody else holds the record, by `OneWriter`.

**`LifecycleKeepsPromise`: `Spec => KeepsPromise`**, the refinement. `Init` maps to
`ServiceLife`'s, and every step to one of its steps or to a stutter, by a lemma
for each action. Most steps leave `Seen` alone; those that write the record write
back a copy taken some labels ago, and are steps of `ServiceLife` only if that
copy still says what the record says. That is `OneWriter`, with `RecordInv`
(`RecordIsWellFormed`): which state, phase, operation and versions a record may
have together (`WellFormed`), that a copy at a label says the same of its
operation (`StageOK`), and that whoever is about to record a failure records it
in the state the record had (`FailureOK`). With a tombstone the service is gone
for its readers, and `DeleteInv` is what lets the steps below it stutter.

**`BusyHasOwnerHolds`: `Spec => []BusyHasOwner`.** Inductive together with
`TypeInv`, `OneWriter`, `RecordInv` and `AttemptInv` (`AttemptsAreCurrent`). The
difficult phase is `waiting_for_health`: its owner is the thread with the
current attempt, and calls may take over. `AttemptInv` says that a number is
given out once, that it stays current from the claim to the verdict unless
another is taken, and that who waits with the current number has the record as
its copy. So a verdict that arrives late is recognised, and one that counts has
somebody behind it.

**`RunningIsServedHolds`, `StoppedIsQuietHolds`, `RestIsServed`,
`RoutedByNameHolds`.** The first three hold whatever fails: with crashes, within
a hostname change too, and with removals that kill and err; they say which slot
serves and that nothing else runs. The hostname is the fourth's, under
`RouteKept`. `ServedInv` ties record, route and containers together.
`RecordServed`: which slots may be up under each phase and operation, when
nobody is at work on them (`SlotsOK`). `ThreadServed`: what a thread at a label
has made of them: from the switch of Caddy on the target serves and is proxied,
before `putRunning` the other slot is down, after the containers were stopped
none is up, and the container a thread awaits the check of runs. A step of the
holder moves along these; a step of anybody else leaves the slots alone because
the holder's phase refuses it (`OneWriter`), and a takeover drops the attempt,
so the old thread's promises lapse (`AttemptInv`). `VersionInv` adds that a
deployment makes its container anew, so its version is the one asked for.

**`UpgradeKeepsServingHolds`, `SwitchedToCheckedHolds`.** `UpgradeInv` follows
an upgrade: as long as the record says so the route leads to a slot that serves,
and until `draining` the live slot serves as well, also for whoever is about to
record a failure. Without `NoOutage` it is false from the removal of the old
container (`drain`) to `putRunning`. `TombInv`, for a service with a tombstone:
nobody holds its record. A switch of Caddy is then a switch to a container
`ServedInv` or `UpgradeInv` knows to serve (lemma `SwitchServes`).

**`OneAtATimeHolds`, `CancelledByThirdHolds`, `RequestsKeptHolds`.** `JobInv`:
the job's type, at most one running item, which is the worker's while it has one
in hand, and `CountsOK`: `CancelledByThird`, and that a running job has no
cancelled item. (Without the last, completing would not give
`CancelledByThird`.) Lemma `JobStep` shows for each action that it keeps
`JobInv` and moves the items as `RequestsKept` allows, over `WithStatusSets`,
`CancelRestSets` and `HavingAfter`, which say how a status written into the file
changes the sets of items. For `Queue` that needs what merging a request of any
length does: `MergeItemKeeps` for one service, `MergeKeepsItems` for all, by
induction over the request. The provers cannot use the library's induction
theorem, so the induction is by the least counterexample: the well-foundedness
of `<` gives a least number of merged services at which the claim fails
(`LeastOf`), and it fails one before. The same way lemma `MergesExist` shows
that the recursive function `Merge` is built on exists.

**`TypesCorrect` of `Matomo_proofs`, `OneSite`, `NoSiteForgotten`,
`SavedIsReturned`, `StatusIsTrue`:** the types and the four safety invariants of
`Matomo`, for any number of requests, keys, saves and failures. The inductive
invariant `IInv` has two halves. `ThreadsOK`: exactly the holder of the lock is
at a label under it, and `LocalOK` says what its label implies: at `add` the row
has a key that no site bears and that was not sent, at `save` the ID is that key
and its site exists, at `note` the site in the row is the service's own, and
unless in doubt the `$savedId` is the row's. `RowOK`: at most one key is
pending, none while there is an ID; every site bears its key or the service's
group; `NoneForgotten`; `OkIsSynced`. Neither half stands alone: that a site is
created at most once needs the key to be in the row from before the request
until the ID is there, and the row to change only under the lock.
`AtMostOneSite` then follows from `NoneForgotten`: of two sites one would have
to be the row's ID and the other bear the row's key, and `KeysOK` allows the row
only one of the two.

**`TypesCorrect` and `InSync` of `DnsSync_proofs`: `Spec => []TypeOK`, `Spec =>
[]InSyncIsTrue`**, from `DnsAssumption` (the absent domain is no domain, the
bounds are naturals), for any services, domains, tries and calls. `in_sync` is
written by three: the worker, a hostname change, a deployment. `IInv` says of
each, from the answer of the API on, that the domain it is about to say it of is
`Fine`: right in the DNS, or one somebody has moved away from. For the worker
that is the name in `active`, for a deployment the domain its copy will route.
Behind it is `CallOK`, which follows a pass over the API: what it has seen is
right and is not on its list of repairs stays right, because only clean-ups take
anything away (`CleanupsOK`: of domains in `moved` alone). Lemma `ThreadStep`
carries all that over a step of somebody else.

**`TypesCorrect`, `AnsweredStaysLoaded`, `QuietDirectoryIsValid`,
`QuietRoutesAreLoaded` of `CaddyRoutes_proofs`**, for any number of services,
hostnames, overlapping calls, reloads and troubles. `IInv` has five parts.
`CallInv` says what a call's files are at each of its labels, that what it would
give back is the last good answer, and that a good answer stays in its file.
`ApartInv` is why no lock is needed for validity: two files that have a hostname
in common mean that one of them is `Unsettled`, a change no validation has
accepted yet; and what a roll-back gives back was in a valid directory and is
nobody else's, unless the name was contested. `NumberInv`: reads have numbers,
and a call waits for a reload of its own. `LoadedInv` follows a change through
its reload: no read since the one made for it has missed it (`SeenFrom`), so
that, unless an older read is loaded, it stays loaded once it is, whichever
later one Caddy takes. `ReadInv`: as long as Caddy and the files differ, or a
reload under way may make them differ, somebody will still read the directory
(`WillRead`) or waits for a reload that has read it as it is. When the reload of
a roll-back is refused because the directory is invalid, that is still so: by
`ApartInv` there is an unsettled change of another service, whose own roll-back
reloads (lemmas `InvalidWillRead`, `ReadRefused`). Lemma `ReloadKinds` sorts the
steps of a service by what they do to the reloads (nothing, a read, a load, the
end of a call), and each part is carried over a step of a service, of a stray
reload and over a crash by a lemma of its own.

**What stays with TLC**: liveness (`OperationsEnd`, `DeletesEnd`, `JobsEnd`,
`QueuedIsDecided`, `Converges`), which these provers do not do. Every invariant
and every action property that a passing run checks is also proved. The
hypotheses about faults are needed: with those faults allowed (`repo`; for
`RoutedByName`, `crash`, or `caddy` and `repo`; for the two about upgrades, `crash`,
`kill` or `cache`) TLC finds the property violated. Whether
`SwitchedToChecked` needs `ProvisionChecksHold` from a service at rest is open;
TLC finds nothing against it with four calls and one failing Docker call.

## 5 What the model found

Each finding is a run whose property quotes the documentation.

1. `resume_traffic` — a resume that follows an interrupted resume starts its
   container behind a route that already points there, and it gets traffic
   before any health check (`container-runtime.md:290` says never).
2. `provision_checks` — `Provision` reads the tombstone before it takes the lock
   and never again; a `Delete` that ends in between leaves a record beside its
   tombstone (`container-runtime.md:94`, `:340`). With three calls the same
   property fails at the second look at the record, which takes any idle record
   with the same hostname and version for a failed provisioning
   (`container-runtime.md:136`): a suspended service becomes active without a
   resume.
3. `upgrade_outage` — after a restart between the removal of the old container
   and the write of `live_deploy`, a repeated upgrade moves traffic from the
   healthy new container to the removed one (`README.md:63`). A removal that
   kills the old container and returns an error (`docker.go:216`), or a slot
   directory that cannot be removed, is enough: put `"kill"` or `"cache"` in
   place of `"crash"` in the cfg.
4. `bulk_interrupted` — an upgrade that SIGTERM cuts off after it has claimed
   the service is recorded with the error of the call that was cut off; the
   restarted worker takes that for a failed upgrade and counts it towards the
   three that cancel the queue, where the documentation has it retried
   (`container-runtime.md:361`).
5. `dns_moved_back` — a hostname is changed and changed back while the clean-up
   of the first change is under way. The second change finds the records right,
   the clean-up deletes them (`manager.go:1805`; `README.md:246-248`), and
   `dns_status` stays `in_sync` with nothing to repair it. The same property
   also fails without a rename: a reconnect is dropped when its update equals
   the active one, which may already be decided (`manager.go:1512`), and a
   restart forgets the queue; either leaves `pending` with no work under way,
   where `openapi.yaml:225` has a synchronisation running.

Seen while modelling, without a run of their own:

- A record or tombstone that cannot be written leaves a busy phase without an
  owner until the controller restarts (`manager.go:739`, `:1407`), where
  `container-runtime.md:344` has every failed operation record `failed`. Add
  `"repo"` to `Faults` of `progress` to see it.
- `container-runtime.md:216-217` has a refused change restored and loaded again.
  The second `apply` runs under the same context, so a deadline that ended the
  first one ends it too; and a map file that cannot be written restores without
  any `apply`. Either leaves Caddy with a change that was answered with an
  error. Take `"again"` or `"map"` out of `QuietIsLoaded` to see it.
- A crash between Caddy and the record of a hostname change (`manager.go:470`,
  `:478`) leaves a service that runs, or is suspended, under the new hostname
  with the old one in its record. Its phase is at rest, so `RecoverInterrupted`
  passes it by. Add `"crash"` to `Faults` of `serving`, and `RoutedByName`
  fails.
- Reloads are not kept in order (`caddy.go:147`): of two overlapping calls the
  one whose reload read the directory first may be loaded last, and Caddy no
  longer runs the change the other has answered, until the next reload. Take
  `"overtaken"` out of `AnsweredIsLoaded` to see it.
- The bulk worker calls `Upgrade` without a deadline (`manager.go:936`): a
  Docker or Caddy command that hangs before the health check keeps the queue
  from going on. Drop `CallsReturn` from `JobsEnd` to see it.
- `Remove` of a route without files answers at once, although Caddy may still
  run the route when an earlier call failed in that way.
- A Deploy that cannot get the Matomo lock in 30 seconds, or cannot read the
  row, sends `matomo_id` 0, where `whmcs-plugin/README.md` has an assigned ID
  still reach the controller (`ReturnsTheSaved` excludes both).
- A service page opened before a Deploy and saved after it clears the ID that
  was saved in between (`moddhosting.php:256`).
- A consequence of `provision_checks`: from an empty host, with four calls and
  one failing Docker call, `RunningIsServed` is false (the table of section 3).
  A late `Provision` claims a suspended service and starts it in blue, its check
  fails, and the `Resume` that follows brings up green while the best-effort
  removal of blue fails. It came up in the proof of `RunningIsServedHolds`,
  which has `ProvisionChecksHold` as a hypothesis for it.

## 6 What is not modelled

- Certificates: planned below. The pull of images: one critical section admits
  one pull at a time, and the rest is Docker's. Status and monitor reads, the
  rest of the WHMCS modules: read-only, or plain I/O that forwards a call.
- Notifications, configuration, metrics: no state, or no behaviour after
  start-up.
- Authorisation, JSON, TOML, templates: formatting and I/O.
- What a container does: it may answer a health check or not, at any time.
- Crashes inside an external call, except between the files and commands of a
  Caddy call (`CaddyRoutes`); `Lifecycle` has them inside the two steps that change
  two things.
- Containers that stop, or are removed, behind the controller's back.

## 7 Plan

Done: `Lifecycle` with its first proofs, `ServiceLife` implemented by it,
`BulkUpgrade` over `ServiceRecord`, `DnsSync`, `CaddyRoutes` and `Matomo`, and the
proofs of all their safety properties. In this order:

1. Proofs: that a `Lifecycle` whose `Provision` looked at the tombstone under the
   lock has `ProvisionChecksHold`, so that the theorems need it no longer; what
   a settled `Caddy` call of `CaddyRoutes` promises as the one step of `Lifecycle`.
2. Certificate renewal.
