----------------------------- MODULE Lifecycle -----------------------------
(***************************************************************************)
(* The lifecycle of one WHMCS service as the controller's Manager drives   *)
(* it (go-service/internal/service/manager.go), with the resources it      *)
(* drives: the state repository, the blue and green containers, the Caddy  *)
(* route and the ZFS dataset.                                              *)
(*                                                                         *)
(* A thread is one API call together with the goroutine it leaves behind   *)
(* (finishHealth, finishRouting, finishDelete).  A step of a thread is one *)
(* critical section under Manager.mu or one external call made without it; *)
(* the value of the Go variable "service" between two critical sections is *)
(* the thread's svc, a copy of the record that the thread later writes     *)
(* back whole.  A request the code answers without touching anything (400, *)
(* 404, 409, a record that cannot be written, or 200 for work already done)*)
(* is a step that is not taken.                                            *)
(*                                                                         *)
(* Hostnames, the staging name and the public address are one value, dom;  *)
(* packages, Matomo ids, display names and timestamps are left out: a      *)
(* changed Matomo id acts as "force" does.  DNS is disabled here.          *)
(***************************************************************************)
EXTENDS Naturals

CONSTANTS
  Threads,      \* API calls (and their goroutines) that may be in flight
  Versions,     \* image tags, as numbers ordered by CompareVersions
  Domains,      \* hostnames a service may be given
  NoDomain,     \* the empty string in a domain field
  Requests,     \* the calls the API may receive
  Faults,       \* the kinds of external call that may fail
  MaxRequests,  \* bound: calls in one behaviour
  MaxFaults     \* bound: failures in one behaviour

Slots == {"blue", "green"}

(* "kill" is a removal of a container that errs after it has killed it.    *)
FaultKinds ==
  {"docker", "kill", "caddy", "zfs", "host", "cache", "image", "repo", "crash"}

(* PUT /v1/services/{id} is "provision"; a field a call does not have is   *)
(* 0, NoDomain or FALSE.                                                   *)
RequestKinds ==
  {"provision", "upgrade", "suspend", "resume", "terminate", "delete"}

RequestType ==
  [kind : RequestKinds, ver : Versions \union {0},
   dom : Domains \union {NoDomain}, force : BOOLEAN, confirm : BOOLEAN]

ASSUME ConstantsAssumption ==
  /\ Versions \subseteq Nat \ {0}
  /\ NoDomain \notin Domains
  /\ Requests \subseteq RequestType
  /\ \A r \in Requests : r.kind \in {"provision", "upgrade"} => r.ver \in Versions
  /\ \A r \in Requests : r.kind = "provision" => r.dom \in Domains
  /\ Faults \subseteq FaultKinds
  /\ MaxRequests \in Nat
  /\ MaxFaults \in Nat

VARIABLES
  rec,      \* the live record <services_dir>/<id>.toml, NoRec when absent
  tomb,     \* phase of the tombstone file, "none" when absent
  health,   \* Manager.healthSequence and healthAttempts[id] (0: no entry)
  ctr,      \* per slot: the container, its image version, and whether the
            \* application in it has answered a health check since it started
  route,    \* the service's Caddy files, as loaded
  disk,     \* the ZFS dataset, and the directory it is mounted on
  th,       \* per thread: program counter and Go locals
  requests, \* calls left
  faults    \* failures left

vars == <<rec, tomb, health, ctr, route, disk, th, requests, faults>>
host == <<ctr, route, disk>>

-----------------------------------------------------------------------------
(* Types *)

States == {"active", "suspended", "terminated"}

Phases == {"provisioning", "starting", "waiting_for_health", "routing",
           "draining", "running", "stopping", "stopped", "deleting", "failed"}

Operations ==
  {"", "provision", "upgrade", "resume", "suspended", "terminated", "delete"}

RecType ==
  [state : States \union {"absent"}, phase : Phases \union {"none"},
   op : Operations, live : Slots, tgt : Slots \union {""},
   ver : Versions \union {0}, tver : Versions \union {0},
   dom : Domains \union {NoDomain}, tdom : Domains \union {NoDomain}]

NoRec ==
  [state |-> "absent", phase |-> "none", op |-> "", live |-> "blue",
   tgt |-> "", ver |-> 0, tver |-> 0, dom |-> NoDomain, tdom |-> NoDomain]

NoReq ==
  [kind |-> "delete", ver |-> 0, dom |-> NoDomain,
   force |-> FALSE, confirm |-> FALSE]

NoCtr == [up |-> "absent", ver |-> 0, ok |-> FALSE]

CtrType ==
  [up : {"absent", "stopped", "running"}, ver : Versions \union {0}, ok : BOOLEAN]

NoRoute == [mode |-> "none", slot |-> "", dom |-> NoDomain]
Proxy(s, d) == [mode |-> "proxy", slot |-> s, dom |-> d]
Page(d) == [mode |-> "page", slot |-> "", dom |-> d]

RouteType ==
  [mode : {"none", "proxy", "page"}, slot : Slots \union {""},
   dom : Domains \union {NoDomain}]

DiskType == [dataset : BOOLEAN, dir : BOOLEAN]

(* Between these labels a thread has claimed the record by a busy phase    *)
(* other than waiting_for_health, and writes back its copy of it.          *)
HoldingLabels ==
  {"storage", "isolate", "restore", "removeTarget", "start", "putWaiting",
   "route", "removeOld", "putDraining", "drain", "putRunning",
   "stop", "putTarget", "settle", "unroute", "putStopped",
   "wipe", "unserve", "destroy", "unmount", "bury", "failing"}

Labels == HoldingLabels \union
  {"idle", "lookup", "image", "claim", "reconcile", "upgrade", "upgradeImage",
   "upgradeClaim", "redeployImage", "redeployClaim", "resume", "domains",
   "applyDomains", "health", "verdict", "finishDelete", "buried", "unburied"}

Idle ==
  [pc |-> "idle", req |-> NoReq, svc |-> NoRec, att |-> 0, passed |-> FALSE]

ThreadType ==
  [pc : Labels, req : RequestType, svc : RecType, att : Nat, passed : BOOLEAN]

(* The variables hold values of the types the code's structs give them.    *)
TypeOK ==
  /\ rec \in RecType
  /\ tomb \in {"none", "deleting", "failed", "deleted"}
  /\ health \in [seq : Nat, cur : Nat]
  /\ ctr \in [Slots -> CtrType]
  /\ route \in RouteType
  /\ disk \in DiskType
  /\ th \in [Threads -> ThreadType]
  /\ requests \in Nat
  /\ faults \in Nat

Init ==
  /\ rec = NoRec
  /\ tomb = "none"
  /\ health = [seq |-> 0, cur |-> 0]
  /\ ctr = [s \in Slots |-> NoCtr]
  /\ route = NoRoute
  /\ disk = [dataset |-> FALSE, dir |-> FALSE]
  /\ th = [t \in Threads |-> Idle]
  /\ requests = MaxRequests
  /\ faults = MaxFaults

-----------------------------------------------------------------------------
(* Predicates of the record, and the moves of a thread *)

Busy == {"provisioning", "starting", "waiting_for_health", "routing",
         "draining", "stopping", "deleting"}

(* What a new claim may take over: a phase that is not busy, or a          *)
(* deployment still waiting for its health check.                          *)
ReplaceableStarting(phase) ==  \* seeded defect: "starting" can be taken over
  phase \notin Busy \/ phase \in {"waiting_for_health", "starting"}
Replaceable(phase) == phase \notin Busy \/ phase = "waiting_for_health"

ReplaceableActivation(s) ==
  s.phase \in {"waiting_for_health", "failed"} /\ s.op \in {"provision", "resume"}

Opposite(s) == IF s = "blue" THEN "green" ELSE "blue"

At(t, label) == th[t].pc = label
Go(t, label) == th' = [th EXCEPT ![t].pc = label]
GoWith(t, label, s) == th' = [th EXCEPT ![t].pc = label, ![t].svc = s]
Done(t) == th' = [th EXCEPT ![t] = Idle]

NoFault == faults' = faults
Fault(kind) == kind \in Faults /\ faults > 0 /\ faults' = faults - 1

(* A removal is forced: Docker kills the container and then removes it. One*)
(* that errs, or reaches its deadline, may have done either.               *)
Killed(c) == IF c.up = "running" THEN [c EXCEPT !.up = "stopped", !.ok = FALSE] ELSE c

HalfRemove(slots) ==
  \E dead, gone \in SUBSET slots :
    ctr' = [s \in Slots |-> IF s \in gone THEN NoCtr
                            ELSE IF s \in dead THEN Killed(ctr[s]) ELSE ctr[s]]

(* An external call returns an error: the thread goes on to failSync.      *)
Fails(t, kind) == Fault(kind) /\ Go(t, "failing")

(* A call arrives on an idle thread.                                       *)
Arrives(t, r) == At(t, "idle") /\ requests > 0 /\ requests' = requests - 1

Claims(t, label, r, s, attempt) ==
  /\ rec' = s
  /\ th' = [th EXCEPT ![t] = [pc |-> label, req |-> r, svc |-> s,
                              att |-> attempt, passed |-> FALSE]]

(* nextHealthAttempt: sequence numbers are never used again.               *)
NextHealthAttempt == health' = [seq |-> health.seq + 1, cur |-> health.seq + 1]

(* Repo.Put of the thread's copy, or its error path.                       *)
Puts(s) == NoFault /\ rec' = s
PutFails == Fault("repo") /\ UNCHANGED rec

-----------------------------------------------------------------------------
(* Provision: PUT /v1/services/{id} *)

(* The tombstone is read before Manager.mu is taken.                       *)
Provision(t) ==
  /\ tomb = "none"
  /\ \E r \in Requests :
       /\ r.kind = "provision"
       /\ Arrives(t, r)
       /\ th' = [th EXCEPT ![t].pc = "lookup", ![t].req = r]
  /\ UNCHANGED <<rec, tomb, health, host, faults>>

(* A failed provisioning that is asked for again unchanged.                *)
SameFailedProvision(s, r) ==
  /\ s.phase = "failed" /\ s.op = "provision"
  /\ s.dom = r.dom /\ s.ver = r.ver /\ s.tver = r.ver
  /\ ~r.force

ProvisionLookup(t) ==
  /\ At(t, "lookup")
  /\ Go(t, IF rec = NoRec \/ SameFailedProvision(rec, th[t].req)
             THEN "image" ELSE "reconcile")
  /\ UNCHANGED <<rec, tomb, health, host, requests, faults>>

(* Docker.HasVersion, in Provision, upgrade and reconcile.                 *)
ClaimLabel ==
  [image |-> "claim", upgradeImage |-> "upgradeClaim",
   redeployImage |-> "redeployClaim"]

HasVersion(t) ==
  /\ th[t].pc \in DOMAIN ClaimLabel
  /\ \/ NoFault /\ Go(t, ClaimLabel[th[t].pc])
     \/ Fault("image") /\ Done(t)
  /\ UNCHANGED <<rec, tomb, health, host, requests>>

FreshRecordNoLive(r) ==  \* seeded defect: no live slot in a new record
  [state |-> "active", phase |-> "provisioning", op |-> "provision",
   live |-> "", tgt |-> "blue", ver |-> r.ver, tver |-> r.ver,
   dom |-> r.dom, tdom |-> NoDomain]

FreshRecord(r) ==
  [state |-> "active", phase |-> "provisioning", op |-> "provision",
   live |-> "blue", tgt |-> "blue", ver |-> r.ver, tver |-> r.ver,
   dom |-> r.dom, tdom |-> NoDomain]

(* The second look at the record asks less than the first: any idle record *)
(* with this hostname and version, not only a failed provisioning.         *)
ProvisionRetries(s, r) ==
  /\ s.dom = r.dom /\ s.ver = r.ver
  /\ s.phase \notin Busy \union {"running"}
  /\ s.phase = "failed" => s.op = "provision"

ProvisionClaim(t) ==
  LET r == th[t].req IN
  /\ At(t, "claim")
  /\ \/ /\ rec = NoRec
        /\ NoFault /\ Claims(t, "storage", r, FreshRecord(r), 0)
     \/ /\ rec # NoRec /\ ProvisionRetries(rec, r)
        /\ NoFault
        /\ Claims(t, "storage", r,
                  [rec EXCEPT !.phase = "provisioning", !.op = "provision",
                              !.tgt = "blue", !.tver = r.ver], 0)
     \/ /\ rec # NoRec /\ ~ProvisionRetries(rec, r)
        /\ Done(t) /\ NoFault /\ UNCHANGED rec
     \/ PutFails /\ Done(t)
  /\ UNCHANGED <<tomb, health, host, requests>>

(* The dataset, the skeleton, the slot directories, the identity and the   *)
(* host account; any of these calls may fail, all counted as "zfs".        *)
PrepareStorage(t) ==
  /\ At(t, "storage")
  /\ \/ NoFault /\ disk' = [dataset |-> TRUE, dir |-> TRUE] /\ Go(t, "start")
     \/ /\ Fails(t, "zfs")
        /\ disk' \in {disk, [dataset |-> TRUE, dir |-> TRUE]}
  /\ UNCHANGED <<rec, tomb, health, ctr, route, requests>>

-----------------------------------------------------------------------------
(* Starting a slot and waiting for its health check: the common tail of    *)
(* Provision, upgrade and Resume *)

(* A running container of the slot is kept and a stopped one started again,*)
(* whatever image it was made from.                                        *)
StartSlot(t) ==
  LET s == th[t].svc.tgt
      new == IF ctr[s].up = "absent" THEN th[t].svc.tver ELSE ctr[s].ver
  IN
  /\ At(t, "start")
  /\ \/ /\ NoFault
        /\ ctr' = IF ctr[s].up = "running" THEN ctr
                  ELSE [ctr EXCEPT ![s] = [up |-> "running", ver |-> new, ok |-> FALSE]]
        /\ Go(t, "putWaiting")
     \/ /\ Fails(t, "docker")
        /\ \/ UNCHANGED ctr
           \/ /\ ctr[s].up = "absent"
              /\ ctr' = [ctr EXCEPT ![s] = [up |-> "stopped", ver |-> new, ok |-> FALSE]]
  /\ UNCHANGED <<rec, tomb, health, route, disk, requests>>

(* Provision takes its health attempt here, the others when they claim.    *)
PutWaiting(t) ==
  LET s == [th[t].svc EXCEPT !.phase = "waiting_for_health"]
      fresh == th[t].att = 0
  IN
  /\ At(t, "putWaiting")
  /\ \/ /\ Puts(s)
        /\ IF fresh THEN NextHealthAttempt ELSE UNCHANGED health
        /\ th' = [th EXCEPT ![t].pc = "health", ![t].svc = s,
                            ![t].att = IF fresh THEN health.seq + 1 ELSE @]
     \/ PutFails /\ Go(t, "failing") /\ UNCHANGED health
  /\ UNCHANGED <<tomb, host, requests>>

(* Health.Check asks whatever answers on the slot's socket.                *)
CheckHealth(t) ==
  LET s == th[t].svc.tgt IN
  /\ At(t, "health")
  /\ \/ /\ ctr[s].up = "running"
        /\ ctr' = [ctr EXCEPT ![s].ok = TRUE]
        /\ th' = [th EXCEPT ![t].pc = "verdict", ![t].passed = TRUE]
     \/ Go(t, "verdict") /\ UNCHANGED ctr
  /\ UNCHANGED <<rec, tomb, health, route, disk, requests, faults>>

(* finishHealth, under the lock: the verdict counts only for the attempt   *)
(* that is still current.                                                  *)
AnyAttempt(t) == health.cur # 0  \* seeded defect: some attempt is under way
CurrentAttempt(t) == health.cur = th[t].att

ForgetAnyAttempt(t) == health' = [health EXCEPT !.cur = 0]  \* seeded defect
ForgetAttempt(t) ==
  health' = IF CurrentAttempt(t) THEN [health EXCEPT !.cur = 0] ELSE health

VerdictApplies(t) ==
  CurrentAttempt(t) /\ rec.op = th[t].svc.op /\ rec.phase = "waiting_for_health"

HealthVerdict(t) ==
  /\ At(t, "verdict")
  /\ ForgetAttempt(t)
  /\ \/ ~VerdictApplies(t) /\ Done(t) /\ NoFault /\ UNCHANGED rec
     \/ /\ VerdictApplies(t) /\ ~th[t].passed
        /\ Done(t)
        /\ Puts([rec EXCEPT !.phase = "failed"]) \/ PutFails
     \/ /\ VerdictApplies(t) /\ th[t].passed
        /\ \/ /\ Puts([rec EXCEPT !.phase = "routing"])
              /\ GoWith(t, "route", [rec EXCEPT !.phase = "routing"])
           \/ PutFails /\ Done(t)
  /\ UNCHANGED <<tomb, host, requests>>

(* Caddy.Active for the target: files replaced, validated and reloaded, or *)
(* restored.                                                               *)
RoutingDomain(s) == IF s.tdom # NoDomain THEN s.tdom ELSE s.dom

AfterRoute == [provision |-> "putRunning", resume |-> "removeOld",
               upgrade |-> "putDraining"]

RouteTarget(t) ==
  LET s == th[t].svc IN
  /\ At(t, "route")
  /\ \/ /\ NoFault
        /\ route' = Proxy(s.tgt, RoutingDomain(s))
        /\ Go(t, AfterRoute[s.op])
     \/ Fails(t, "caddy") /\ UNCHANGED route
  /\ UNCHANGED <<rec, tomb, health, ctr, disk, requests>>

RemoveNewSlot(t) ==  \* seeded defect: the cleanup after the slots are swapped
  /\ At(t, "removeOld") /\ Go(t, "putRunning") /\ NoFault
  /\ ctr' = [ctr EXCEPT ![th[t].svc.tgt] = NoCtr]
  /\ UNCHANGED <<rec, tomb, health, route, disk, requests>>

(* A resume removes the previous slot as best it can.                      *)
RemovePreviousSlot(t) ==
  /\ At(t, "removeOld")
  /\ Go(t, "putRunning")
  /\ \/ NoFault /\ ctr' = [ctr EXCEPT ![th[t].svc.live] = NoCtr]
     \/ Fault("docker") /\ UNCHANGED ctr
     \/ Fault("kill") /\ HalfRemove({th[t].svc.live})
  /\ UNCHANGED <<rec, tomb, health, route, disk, requests>>

(* putDeferred: when the record cannot be written the goroutine returns.   *)
PutDraining(t) ==
  LET s == [th[t].svc EXCEPT !.phase = "draining", !.tdom = NoDomain,
                             !.dom = RoutingDomain(th[t].svc)]
  IN
  /\ At(t, "putDraining")
  /\ \/ Puts(s) /\ GoWith(t, "drain", s)
     \/ PutFails /\ Done(t)
  /\ UNCHANGED <<tomb, health, host, requests>>

(* Wait, then remove the old container and its directories.                *)
DrainOldDeploy(t) ==
  LET gone == [ctr EXCEPT ![th[t].svc.live] = NoCtr] IN
  /\ At(t, "drain")
  /\ \/ NoFault /\ ctr' = gone /\ Go(t, "putRunning")
     \/ Fails(t, "docker") /\ UNCHANGED ctr
     \/ Fails(t, "kill") /\ HalfRemove({th[t].svc.live})
     \/ Fails(t, "cache") /\ ctr' = gone
  /\ UNCHANGED <<rec, tomb, health, route, disk, requests>>

PutRunning(t) ==
  LET s == th[t].svc
      live == [s EXCEPT !.state = IF s.op = "upgrade" THEN @ ELSE "active",
                        !.phase = "running", !.op = "", !.live = s.tgt, !.tgt = "",
                        !.ver = IF s.tver # 0 THEN s.tver ELSE @, !.tver = 0,
                        !.dom = RoutingDomain(s), !.tdom = NoDomain]
  IN
  /\ At(t, "putRunning")
  /\ Done(t)
  /\ Puts(live) \/ PutFails
  /\ UNCHANGED <<tomb, health, host, requests>>

(* failSync: the thread's copy, marked failed.                             *)
RecordFailure(t) ==
  /\ At(t, "failing")
  /\ Done(t)
  /\ Puts([th[t].svc EXCEPT !.phase = "failed"]) \/ PutFails
  /\ UNCHANGED <<tomb, health, host, requests>>

-----------------------------------------------------------------------------
(* Upgrade: POST .../upgrade, and the redeployments that end in it *)

(* validateUpgrade, without its "nothing to do" answer.                    *)
UpgradeAllowed(s, r) ==
  /\ s.state = "active" \/ ReplaceableActivation(s)
  /\ s.phase = "failed" => s.op = "upgrade" \/ ReplaceableActivation(s)
  /\ Replaceable(s.phase)
  /\ s.ver <= r.ver \/ r.confirm
  /\ \/ r.ver # s.ver \/ r.force
     \/ s.phase \in {"waiting_for_health", "failed"}

Upgrade(t) ==
  /\ \E r \in Requests :
       /\ r.kind = "upgrade"
       /\ Arrives(t, r)
       /\ UpgradeAllowed(rec, r)
       /\ th' = [th EXCEPT ![t].pc = "upgradeImage", ![t].req = r]
  /\ UNCHANGED <<rec, tomb, health, host, faults>>

(* The same first check, when Provision or Resume calls upgrade.           *)
UpgradeFromCall(t) ==
  /\ At(t, "upgrade")
  /\ IF UpgradeAllowed(rec, th[t].req) THEN Go(t, "upgradeImage") ELSE Done(t)
  /\ UNCHANGED <<rec, tomb, health, host, requests, faults>>

(* A replaced activation keeps its operation, and the hostname it was      *)
(* given when the replacement names none.                                  *)
UpgradeRecord(s, r) ==
  LET pending == ReplaceableActivation(s)
      op == IF pending THEN s.op ELSE "upgrade"
      kept == IF pending \/ s.phase = "waiting_for_health" THEN s.tdom ELSE NoDomain
  IN [s EXCEPT !.phase = "starting", !.op = op,
               !.tgt = IF op = "provision" THEN s.live ELSE Opposite(s.live),
               !.tver = r.ver,
               !.tdom = IF r.dom # NoDomain THEN r.dom ELSE kept]

UpgradeClaim(t) ==
  LET r == th[t].req IN
  /\ At(t, "upgradeClaim")
  /\ \/ /\ UpgradeAllowed(rec, r)
        /\ NoFault /\ NextHealthAttempt
        /\ Claims(t, "isolate", r, UpgradeRecord(rec, r), health.seq + 1)
     \/ /\ ~UpgradeAllowed(rec, r)
        /\ Done(t) /\ NoFault /\ UNCHANGED <<rec, health>>
     \/ PutFails /\ Done(t) /\ UNCHANGED health
  /\ UNCHANGED <<tomb, host, requests>>

(* ensureIsolation walks the service's mountpoint and fails without it.    *)
EnsureIsolation(t) ==
  /\ At(t, "isolate")
  /\ \/ /\ disk.dir /\ NoFault
        /\ Go(t, IF th[t].svc.op = "upgrade" THEN "restore" ELSE "removeTarget")
     \/ ~disk.dir /\ Go(t, "failing") /\ NoFault
     \/ Fails(t, "host")
  /\ UNCHANGED <<rec, tomb, health, host, requests>>

TrustRoute(t) ==  \* seeded defect: the live route is taken for granted
  /\ At(t, "restore") /\ Go(t, "removeTarget")
  /\ UNCHANGED <<rec, tomb, health, host, requests, faults>>

(* An upgrade first makes Caddy proxy to the recorded live slot, unless its*)
(* files say that it does.                                                 *)
RestoreLiveRoute(t) ==
  LET s == th[t].svc
      proxied == route.mode = "proxy" /\ route.slot = s.live
  IN
  /\ At(t, "restore")
  /\ \/ /\ NoFault /\ Go(t, "removeTarget")
        /\ route' = IF proxied THEN route ELSE Proxy(s.live, s.dom)
     \/ Fails(t, "caddy") /\ UNCHANGED route
  /\ UNCHANGED <<rec, tomb, health, ctr, disk, requests>>

KeepTarget(t) ==  \* seeded defect: RemoveSlot is not called
  /\ At(t, "removeTarget") /\ Go(t, "start")
  /\ UNCHANGED <<rec, tomb, health, host, requests, faults>>

(* RemoveSlot and prepareSlot of the target, in upgrade and Resume.        *)
RemoveTarget(t) ==
  LET gone == [ctr EXCEPT ![th[t].svc.tgt] = NoCtr] IN
  /\ At(t, "removeTarget")
  /\ \/ NoFault /\ ctr' = gone /\ Go(t, "start")
     \/ Fails(t, "docker") /\ UNCHANGED ctr
     \/ Fails(t, "kill") /\ HalfRemove({th[t].svc.tgt})
     \/ Fails(t, "cache") /\ ctr' = gone
  /\ UNCHANGED <<rec, tomb, health, route, disk, requests>>

-----------------------------------------------------------------------------
(* reconcile: Provision of a service that exists *)

Renames(s) ==
  \/ s.state = "suspended" /\ s.phase = "stopped"
  \/ s.state = "active" /\ s.phase = "running"

Reconcile(t) ==
  LET r == th[t].req
      redeploys == \/ ReplaceableActivation(rec)
                   \/ /\ rec.state = "active"
                      /\ \/ rec.ver # r.ver \/ r.force
                         \/ rec.phase = "failed" /\ rec.op = "upgrade"
      retained == rec.state = "terminated" /\ rec.phase = "stopped"
  IN
  /\ At(t, "reconcile")
  /\ \/ redeploys /\ Go(t, "upgrade")
     \/ ~redeploys /\ Renames(rec) /\ Go(t, "domains")
     \/ ~redeploys /\ retained /\ Go(t, "redeployImage")
     \/ ~redeploys /\ ~Renames(rec) /\ ~retained /\ Done(t)
  /\ UNCHANGED <<rec, tomb, health, host, requests, faults>>

(* A terminated service takes the new hostname and version, then resumes.  *)
RedeployTerminated(t) ==
  LET r == th[t].req IN
  /\ At(t, "redeployClaim")
  /\ \/ /\ rec.state = "terminated" /\ rec.phase = "stopped"
        /\ Puts([rec EXCEPT !.dom = r.dom, !.ver = r.ver])
        /\ Go(t, "resume")
     \/ /\ ~(rec.state = "terminated" /\ rec.phase = "stopped")
        /\ Done(t) /\ NoFault /\ UNCHANGED rec
     \/ PutFails /\ Done(t)
  /\ UNCHANGED <<tomb, health, host, requests>>

(* deployDomains: the record is read, and read again with the lock taken   *)
(* for good.                                                               *)
DeployDomains(t) ==
  /\ At(t, "domains")
  /\ IF Renames(rec) THEN GoWith(t, "applyDomains", rec) ELSE Done(t)
  /\ UNCHANGED <<rec, tomb, health, host, requests, faults>>

UnchangedSince(s) ==
  /\ rec.state = s.state /\ rec.phase = s.phase
  /\ rec.live = s.live /\ rec.dom = s.dom

(* The route under the hostname the call of the thread has.                *)
RenamedRoute(t) ==
  LET d == th[t].req.dom IN
  IF rec.dom = d THEN route
  ELSE IF rec.state = "suspended" THEN Page(d) ELSE Proxy(rec.live, d)

RecordBeforeCaddy(t) ==  \* seeded defect: a Caddy error leaves the record changed
  /\ At(t, "applyDomains") /\ Done(t) /\ UnchangedSince(th[t].svc)
  /\ rec' = [rec EXCEPT !.dom = th[t].req.dom]
  /\ \/ NoFault /\ route' = RenamedRoute(t)
     \/ Fault("caddy") /\ UNCHANGED route
  /\ UNCHANGED <<tomb, health, ctr, disk, requests>>

(* Caddy is changed, then the record; when the record cannot be written    *)
(* the old route is put back, which may fail too.  Manager.mu is held from *)
(* the look at the record to the end, so only a crash (Restart) can come   *)
(* between the two.                                                        *)
ApplyDomains(t) ==
  LET d == th[t].req.dom
      new == RenamedRoute(t)
  IN
  /\ At(t, "applyDomains")
  /\ Done(t)
  /\ \/ ~UnchangedSince(th[t].svc) /\ NoFault /\ UNCHANGED <<rec, route>>
     \/ /\ UnchangedSince(th[t].svc)
        /\ \/ route' = new /\ Puts([rec EXCEPT !.dom = d])
           \/ rec.dom # d /\ Fault("caddy") /\ UNCHANGED <<rec, route>>
           \/ PutFails /\ route' \in {route} \union (IF "caddy" \in Faults THEN {new} ELSE {})
  /\ UNCHANGED <<tomb, health, ctr, disk, requests>>

-----------------------------------------------------------------------------
(* Resume, Suspend and Terminate *)

Resumable(s) == s.state \in {"suspended", "terminated"} /\ s.phase \notin Busy

ResumeClaim(t, r) ==
  /\ Resumable(rec)
  /\ NextHealthAttempt
  /\ Claims(t, "isolate", r,
            [rec EXCEPT !.phase = "starting", !.op = "resume",
                        !.tgt = Opposite(rec.live), !.tver = rec.ver,
                        !.tdom = NoDomain], health.seq + 1)

(* A running service with another Matomo id is redeployed as it is.        *)
ResumeRedeploys(t, r) ==
  /\ r.force /\ rec.state = "active" /\ rec.phase = "running"
  /\ th' = [th EXCEPT ![t].pc = "upgrade",
                      ![t].req = [r EXCEPT !.kind = "upgrade", !.ver = rec.ver]]
  /\ UNCHANGED <<rec, health>>

Resume(t) ==
  /\ \E r \in Requests :
       /\ r.kind = "resume"
       /\ Arrives(t, r)
       /\ ResumeClaim(t, r) \/ ResumeRedeploys(t, r)
  /\ UNCHANGED <<tomb, host, faults>>

ResumeFromCall(t) ==
  /\ At(t, "resume")
  /\ \/ ResumeClaim(t, th[t].req) /\ NoFault
     \/ ~Resumable(rec) /\ Done(t) /\ NoFault /\ UNCHANGED <<rec, health>>
     \/ PutFails /\ Done(t) /\ UNCHANGED health
  /\ UNCHANGED <<tomb, host, requests>>

TargetState == [suspend |-> "suspended", terminate |-> "terminated"]

StateChangeAnytime(s, target) ==  \* seeded defect: no phase is refused
  s # NoRec /\ ~(s.state = target /\ s.phase = "stopped")

(* Suspend also abandons the resume of a terminated service.               *)
StateChangeAllowed(s, target) ==
  /\ s # NoRec
  /\ ~(s.state = target /\ s.phase = "stopped")
  /\ Replaceable(s.phase)
  /\ target = "suspended" =>
       \/ s.state \in {"active", "suspended"}
       \/ s.op = "resume" /\ s.phase = "waiting_for_health"

ChangeState(t) ==
  /\ \E r \in Requests :
       /\ r.kind \in {"suspend", "terminate"}
       /\ Arrives(t, r)
       /\ StateChangeAllowed(rec, TargetState[r.kind])
       /\ Claims(t, "stop", r, [rec EXCEPT !.phase = "stopping", !.tdom = NoDomain,
                                           !.op = TargetState[r.kind]], 0)
  /\ health' = [health EXCEPT !.cur = 0]
  /\ UNCHANGED <<tomb, host, faults>>

(* StopAll stops what runs, RemoveAll removes everything; interrupted,     *)
(* either has dealt with some of the slots.                                *)
Stopped(c, op) == IF op # "suspended" THEN NoCtr ELSE Killed(c)

StopSlots(slots, op) ==
  ctr' = [s \in Slots |-> IF s \in slots THEN Stopped(ctr[s], op) ELSE ctr[s]]

StopLiveContainer(t) ==  \* seeded defect: the other slot is forgotten
  LET s == th[t].svc IN
  /\ At(t, "stop") /\ NoFault /\ StopSlots({s.live}, s.op) /\ Go(t, "putTarget")
  /\ UNCHANGED <<rec, tomb, health, route, disk, requests>>

StopContainers(t) ==
  LET op == th[t].svc.op IN
  /\ At(t, "stop")
  /\ \/ NoFault /\ StopSlots(Slots, op) /\ Go(t, "putTarget")
     \/ Fails(t, "docker") /\ \E slots \in SUBSET Slots : StopSlots(slots, op)
     \/ op = "terminated" /\ Fails(t, "kill") /\ HalfRemove(Slots)
     \/ op = "terminated" /\ Fails(t, "cache") /\ StopSlots(Slots, op)
  /\ UNCHANGED <<rec, tomb, health, route, disk, requests>>

(* The new state is set in the thread's copy before it is written.         *)
PutTargetState(t) ==
  LET s == [th[t].svc EXCEPT !.state = th[t].svc.op, !.phase = "routing"] IN
  /\ At(t, "putTarget")
  /\ \/ Puts(s) /\ GoWith(t, "settle", s)
     \/ PutFails /\ GoWith(t, "failing", s)
  /\ UNCHANGED <<tomb, health, host, requests>>

(* deferredService: finishRouting reads the record anew.                   *)
FinishRouting(t) ==
  /\ At(t, "settle")
  /\ IF rec.op = th[t].svc.op /\ rec.phase \in Busy
       THEN GoWith(t, "unroute", rec) ELSE Done(t)
  /\ UNCHANGED <<rec, tomb, health, host, requests, faults>>

UnrouteOnce(t) ==  \* seeded defect: a Caddy error ends the goroutine
  /\ At(t, "unroute")
  /\ \/ NoFault /\ Go(t, "putStopped") /\ route' = Page(th[t].svc.dom)
     \/ Fault("caddy") /\ Done(t) /\ UNCHANGED route
  /\ UNCHANGED <<rec, tomb, health, ctr, disk, requests>>

Unroute(t) ==
  LET s == th[t].svc IN
  /\ At(t, "unroute")
  /\ \/ /\ NoFault /\ Go(t, "putStopped")
        /\ route' = IF s.op = "suspended" THEN Page(s.dom) ELSE NoRoute
     \/ Fails(t, "caddy") /\ UNCHANGED route
  /\ UNCHANGED <<rec, tomb, health, ctr, disk, requests>>

PutStopped(t) ==
  /\ At(t, "putStopped")
  /\ Done(t)
  /\ \/ Puts([th[t].svc EXCEPT !.phase = "stopped", !.op = "", !.tgt = "",
                               !.tver = 0, !.tdom = NoDomain])
     \/ PutFails
  /\ UNCHANGED <<tomb, health, host, requests>>

-----------------------------------------------------------------------------
(* Delete: DELETE /v1/services/{id} *)

DeletableBusy(s) == s.state = "terminated"  \* seeded defect: busy or not
Deletable(s) == s.state = "terminated" /\ s.phase \notin Busy

(* A finished tombstone only has a left-over live record removed, and a    *)
(* failed one has its last step tried again.                               *)
Delete(t) ==
  /\ \E r \in Requests :
       /\ r.kind = "delete"
       /\ Arrives(t, r)
       /\ \/ /\ tomb = "none" /\ Deletable(rec)
             /\ Claims(t, "wipe", r, [rec EXCEPT !.phase = "deleting", !.op = "delete"], 0)
             /\ UNCHANGED tomb
          \/ /\ tomb = "failed" /\ tomb' = "deleting"
             /\ Go(t, "finishDelete") /\ UNCHANGED rec
          \/ /\ tomb = "deleted" /\ rec # NoRec
             /\ rec' = NoRec /\ UNCHANGED <<tomb, th>>
  /\ UNCHANGED <<health, host, faults>>

RemoveContainers(t) ==
  /\ At(t, "wipe")
  /\ \/ NoFault /\ StopSlots(Slots, "delete") /\ Go(t, "unserve")
     \/ Fails(t, "docker") /\ \E slots \in SUBSET Slots : StopSlots(slots, "delete")
     \/ Fails(t, "kill") /\ HalfRemove(Slots)
     \/ Fails(t, "cache") /\ StopSlots(Slots, "delete")
  /\ UNCHANGED <<rec, tomb, health, route, disk, requests>>

(* Caddy.Remove, then the sockets and the host account.                    *)
RemoveRoute(t) ==
  /\ At(t, "unserve")
  /\ \/ NoFault /\ route' = NoRoute /\ Go(t, "destroy")
     \/ Fails(t, "caddy") /\ UNCHANGED route
     \/ Fails(t, "host") /\ route' = NoRoute
  /\ UNCHANGED <<rec, tomb, health, ctr, disk, requests>>

(* zfs destroy may or may not take the empty mountpoint with it.           *)
DestroyDataset(t) ==
  /\ At(t, "destroy")
  /\ \/ /\ NoFault /\ Go(t, "unmount")
        /\ \E dir \in {FALSE, disk.dir} : disk' = [dataset |-> FALSE, dir |-> dir]
     \/ Fails(t, "zfs") /\ UNCHANGED disk
  /\ UNCHANGED <<rec, tomb, health, ctr, route, requests>>

RemoveMountpoint(t) ==
  /\ At(t, "unmount")
  /\ \/ NoFault /\ disk' = [disk EXCEPT !.dir = FALSE] /\ Go(t, "bury")
     \/ disk.dir /\ Fails(t, "host") /\ UNCHANGED disk
  /\ UNCHANGED <<rec, tomb, health, ctr, route, requests>>

(* PutTombstone, then DeleteLive: an error of either is only returned.     *)
Bury(t) ==
  /\ At(t, "bury")
  /\ \/ NoFault /\ tomb' = "deleting" /\ rec' = NoRec /\ Go(t, "finishDelete")
     \/ PutFails /\ Done(t) /\ tomb' \in {tomb, "deleting"}
  /\ UNCHANGED <<health, host, requests>>

FinishDeleteOnce(t) ==  \* seeded defect: a Caddy error ends the goroutine
  /\ At(t, "finishDelete")
  /\ \/ NoFault /\ route' = NoRoute /\ Go(t, "buried")
     \/ Fault("caddy") /\ Done(t) /\ UNCHANGED route
  /\ UNCHANGED <<rec, tomb, health, ctr, disk, requests>>

FinishDelete(t) ==
  /\ At(t, "finishDelete")
  /\ \/ NoFault /\ route' = NoRoute /\ Go(t, "buried")
     \/ Fault("caddy") /\ Go(t, "unburied") /\ UNCHANGED route
  /\ UNCHANGED <<rec, tomb, health, ctr, disk, requests>>

PutTombstone(t) ==
  /\ th[t].pc \in {"buried", "unburied"}
  /\ Done(t)
  /\ \/ NoFault /\ tomb' = IF At(t, "buried") THEN "deleted" ELSE "failed"
     \/ Fault("repo") /\ UNCHANGED tomb
  /\ UNCHANGED <<rec, health, host, requests>>

-----------------------------------------------------------------------------
(* The controller dies and starts again: goroutines and health attempts    *)
(* are gone, RecoverInterrupted marks what was under way, and only then    *)
(* does the API listen.  Two steps make two changes that last, and may have*)
(* made the first of them: ApplyDomains that of Caddy, Bury the tombstone. *)
Interrupted(s) == IF s.phase \in Busy THEN [s EXCEPT !.phase = "failed"] ELSE s

Restart ==
  /\ Fault("crash")
  /\ \E t \in Threads : ~At(t, "idle")
  /\ rec' = Interrupted(rec)
  /\ \/ tomb' = IF tomb = "deleting" THEN "failed" ELSE tomb
     \/ tomb' = "failed" /\ \E t \in Threads : At(t, "bury")
  /\ \/ UNCHANGED route
     \/ \E t \in Threads :
          At(t, "applyDomains") /\ UnchangedSince(th[t].svc) /\ route' = RenamedRoute(t)
  /\ health' = [seq |-> 0, cur |-> 0]
  /\ th' = [t \in Threads |-> Idle]
  /\ UNCHANGED <<ctr, disk, requests>>

(* The steps a thread takes on its own once its call has arrived.          *)
Work(t) ==
  \/ ProvisionLookup(t) \/ HasVersion(t) \/ ProvisionClaim(t) \/ PrepareStorage(t)
  \/ StartSlot(t) \/ PutWaiting(t) \/ CheckHealth(t) \/ HealthVerdict(t)
  \/ RouteTarget(t) \/ RemovePreviousSlot(t) \/ PutDraining(t) \/ DrainOldDeploy(t)
  \/ PutRunning(t) \/ RecordFailure(t)
  \/ UpgradeFromCall(t) \/ UpgradeClaim(t) \/ EnsureIsolation(t)
  \/ RestoreLiveRoute(t) \/ RemoveTarget(t)
  \/ Reconcile(t) \/ RedeployTerminated(t) \/ DeployDomains(t) \/ ApplyDomains(t)
  \/ ResumeFromCall(t)
  \/ StopContainers(t) \/ PutTargetState(t) \/ FinishRouting(t) \/ Unroute(t)
  \/ PutStopped(t)
  \/ RemoveContainers(t) \/ RemoveRoute(t) \/ DestroyDataset(t)
  \/ RemoveMountpoint(t) \/ Bury(t) \/ FinishDelete(t) \/ PutTombstone(t)

Call(t) ==
  Provision(t) \/ Upgrade(t) \/ Resume(t) \/ ChangeState(t) \/ Delete(t)

Next == (\E t \in Threads : Call(t) \/ Work(t)) \/ Restart

Spec == Init /\ [][Next]_vars

(* Every thread goes on: Manager.mu is always released, Health.Check has a *)
(* fixed number of attempts, goroutines run under operationContext, which  *)
(* has a timeout, and what comes before them under the context of the HTTP *)
(* request, which ends when the module that sent it gives up waiting.      *)
Fairness == \A t \in Threads : WF_vars(Work(t))

FairSpec == Spec /\ Fairness

-----------------------------------------------------------------------------
(* Properties *)

Holding(t) == th[t].pc \in HoldingLabels

(* Nothing the thread took its copy of has been written since; while it    *)
(* records a failure only its own state and phase may differ.              *)
CopyIsCurrent(t) ==
  LET s == th[t].svc IN
  IF At(t, "failing")
    THEN rec = [s EXCEPT !.state = rec.state, !.phase = rec.phase]
    ELSE rec = s

(* The handlers release Manager.mu around every external call and later    *)
(* write their copy of the record back whole (manager.go:287-329,          *)
(* 1119-1180, 628-656).  As long as the service has no tombstone, at most  *)
(* one thread is doing so, the record says so by a busy phase nobody may   *)
(* take over, and the copy is what the record holds: no write is lost.     *)
OneWriter ==
  tomb = "none" =>
    \A t \in Threads : Holding(t) =>
      /\ rec.phase \in Busy \ {"waiting_for_health"}
      /\ CopyIsCurrent(t)
      /\ \A u \in Threads : Holding(u) => u = t

(* A record in a busy phase has somebody who will take it out of that      *)
(* phase: the thread that holds it, or the health check of the current     *)
(* attempt (finishHealth drops every other verdict, manager.go:1219).      *)
BusyHasOwner ==
  tomb = "none" /\ rec.phase \in Busy =>
    \E t \in Threads :
      \/ Holding(t)
      \/ /\ rec.phase = "waiting_for_health"
         /\ th[t].pc \in {"health", "verdict"}
         /\ th[t].att = health.cur /\ th[t].svc.op = rec.op

Serves(s) == ctr[s].up = "running" /\ ctr[s].ok

(* "running" means served: Caddy proxies to the live slot, whose container *)
(* has passed its check, and the other slot is not running.                *)
RunningIsServed ==
  tomb = "none" /\ rec.phase = "running" =>
    /\ rec.state = "active"
    /\ route.mode = "proxy" /\ route.slot = rec.live
    /\ Serves(rec.live)
    /\ ctr[Opposite(rec.live)].up # "running"

(* The version in the record of a running service is the one its container *)
(* was made from (container-runtime.md:247), although StartSlot keeps the  *)
(* container it finds (docker.go:233-240).                                 *)
RunsItsVersion ==
  tomb = "none" /\ rec.phase = "running" => ctr[rec.live].ver = rec.ver

(* "stopped" means quiet: a suspended service has its page and nothing     *)
(* running, a terminated one neither route nor containers.                 *)
StoppedIsQuiet ==
  tomb = "none" /\ rec.phase = "stopped" =>
    \/ /\ rec.state = "suspended"
       /\ route.mode = "page"
       /\ \A s \in Slots : ctr[s].up # "running"
    \/ /\ rec.state = "terminated"
       /\ route = NoRoute
       /\ \A s \in Slots : ctr[s] = NoCtr

(* A service at rest is reached under the hostname its record has: Caddy is*)
(* changed before the record (manager.go:470-478), by deployments that may *)
(* be overtaken and by hostname changes that may fail.                     *)
RoutedByName ==
  tomb = "none" /\ rec.phase \in {"running", "stopped"} /\ route # NoRoute =>
    route.dom = rec.dom

(* README.md:63: "an active service keeps its current live deployment      *)
(* during an upgrade", in each of its phases and after it has failed.      *)
UpgradeKeepsServing ==
  tomb = "none" /\ rec.op = "upgrade" =>
    route.mode = "proxy" /\ Serves(route.slot)

(* container-runtime.md:141: every slot passes the health gate "before     *)
(* receiving traffic": whenever Caddy is made to proxy somewhere new, the  *)
(* container there runs and has passed a check since it was started.       *)
SwitchedToChecked ==
  [][route' # route /\ route'.mode = "proxy" => Serves(route'.slot)]_vars

(* container-runtime.md:290: an application "never receives traffic merely *)
(* because Docker started it": what runs behind the route has passed a     *)
(* health check since it was started.                                      *)
OnlyCheckedGetsTraffic ==
  route.mode = "proxy" /\ ctr[route.slot].up = "running" => ctr[route.slot].ok

(* Customer data is destroyed only for a terminated service that is being  *)
(* deleted, when nothing of it runs any more and nothing is routed to it.  *)
DestroyIsLast ==
  [][disk.dataset /\ ~disk'.dataset =>
       /\ rec.state = "terminated" /\ rec.phase = "deleting"
       /\ \A s \in Slots : ctr[s] = NoCtr
       /\ route = NoRoute]_vars

(* What Provision refuses when it is called it also refuses when it claims *)
(* the record: a tombstone "continues to block reprovisioning under that   *)
(* ID" (container-runtime.md:340), and only a failed provisioning with the *)
(* same hostname and version is retried (:136, "A different domain or      *)
(* version is not treated as a provision retry").                          *)
ProvisionChecksHold ==
  [][rec.phase # "provisioning" /\ rec'.phase = "provisioning" =>
       /\ tomb = "none"
       /\ \/ rec = NoRec
          \/ /\ rec.phase = "failed" /\ rec.op = "provision"
             /\ rec'.tver = rec.tver /\ rec'.dom = rec.dom]_vars

(* No phase of the record, and no phase of the tombstone, is for ever busy.*)
OperationsEnd == (rec.phase \in Busy) ~> (rec.phase \notin Busy)
DeletesEnd == (tomb = "deleting") ~> (tomb \in {"deleted", "failed"})

=============================================================================
