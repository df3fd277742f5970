------------------------------ MODULE DnsSync ------------------------------
(***************************************************************************)
(* How the controller keeps the DNS records of a service's main domain     *)
(* (go-service/internal/service/manager.go): the WHMCS DNS API, which      *)
(* keeps an apex A record and a www alias per domain; the worker and its   *)
(* queue; the operations that prepare DNS before they route or queue an    *)
(* update; and the clean-up of a domain a service has moved away from.     *)
(*                                                                         *)
(* A step is one API request, one critical section under Manager.mu, or    *)
(* the other external calls of an operation up to its next write.          *)
(* Operations are Lifecycle's, reduced to what moves domain and dns_status;*)
(* a deployment waiting for its health check is not taken over here.       *)
(* There is one public IPv4 address, and DNS is enabled.                   *)
(***************************************************************************)
EXTENDS Naturals, FiniteSets

CONSTANTS
  Services,    \* ids
  Names,       \* main domains
  NoName,      \* no domain
  Attempts,    \* len(dnsBackoffs)
  Calls,       \* per service, the calls made: "deploy", "rename", "stop", "reconnect"
  MaxCalls,    \* bound: calls in one behaviour
  MaxRefusals, \* bound: API requests that fail
  MaxTroubles  \* bound: other kinds of trouble in one behaviour, each once

ASSUME DnsAssumption ==
  /\ NoName \notin Names
  /\ Attempts \in Nat \ {0}
  /\ MaxCalls \in Nat

(* Docker, Caddy or the host fails, or a deadline passes; a record cannot  *)
(* be written; the controller restarts.                                    *)
TroubleKinds == {"outside", "write", "restart"}

VARIABLES
  rec,      \* per service, its record
  zone,     \* per domain, what the DNS holds
  call,     \* per client, its pass over the API (callDNSAPI)
  queue,    \* dnsPending: per service, the domain to synchronise
  active,   \* dnsActive
  wake,     \* dnsWake, a channel with room for one
  worker,   \* runDNSWorker
  thread,   \* requests and deferred goroutines
  cleanups, \* goroutines of cleanupOldDNSAsync
  moved,    \* history: the domains some service has moved away from
  left      \* what is left of the bounds

dns == <<zone, call>>
work == <<queue, active, wake>>
vars == <<rec, zone, call, queue, active, wake, worker, thread, cleanups, moved, left>>

-----------------------------------------------------------------------------
(* Data *)

(* The n-th last call and the goroutines it starts are thread n.           *)
Threads == 1 .. MaxCalls
Syncer == 0  \* the worker's requests
Clients == Threads \union {Syncer}
Values == {"none", "other", "ours"}
ZoneType == [apex : Values, www : Values]
Right == [apex |-> "ours", www |-> "ours"]

AtRest == {"running", "stopped", "failed"}
RecType ==
  [state : {"absent", "active", "suspended", "terminated"},
   phase : AtRest \union {"absent", "starting", "waiting", "routing", "draining", "stopping"},
   op : {"", "provision", "upgrade", "resume", "suspended", "terminated"},
   live : {"blue", "green"}, dom : Names \union {NoName},
   tdom : Names \union {NoName}, status : {"", "pending", "in_sync", "error"}]

NoRec == [state |-> "absent", phase |-> "absent", op |-> "", live |-> "blue",
          dom |-> NoName, tdom |-> NoName, status |-> ""]
Serving(n) == [NoRec EXCEPT !.state = "active", !.phase = "running", !.dom = n,
                            !.status = "in_sync"]
Stopped(n) == [Serving(n) EXCEPT !.state = "suspended", !.phase = "stopped"]

Update == [s : Services, name : Names]
NoUpdate == [name |-> NoName]
NoCall == [name |-> NoName, at |-> "idle", todo |-> {}]
Idle == [pc |-> "idle"]
Waiting == [pc |-> "wait", tries |-> 0, answer |-> "ok"]

Init ==
  /\ rec \in [Services -> {NoRec} \union {Serving(n) : n \in Names}
                              \union {Stopped(n) : n \in Names}]
  /\ \A s, x \in Services : rec[s].dom = rec[x].dom /\ rec[s] # NoRec => s = x
  /\ zone = [n \in Names |->
       IF \E s \in Services : rec[s].dom = n THEN Right
       ELSE [apex |-> "other", www |-> "none"]]
  /\ call = [c \in Clients |-> NoCall]
  /\ queue = [s \in Services |-> NoName]
  /\ active = NoUpdate
  /\ wake = FALSE
  /\ worker = Waiting
  /\ thread = [t \in Threads |-> Idle]
  /\ cleanups = {}
  /\ moved = {}
  /\ left = [calls |-> MaxCalls, api |-> MaxRefusals, had |-> {}]

Spend(what) == left[what] > 0 /\ left' = [left EXCEPT ![what] = @ - 1]
Trouble(kind) ==
  /\ kind \notin left.had
  /\ Cardinality(left.had) < MaxTroubles
  /\ left' = [left EXCEPT !.had = @ \union {kind}]
At(t, label) == thread[t].pc = label
Copy(t) == thread[t].copy
Of(t) == thread[t].s
Go(t, label) == thread' = [thread EXCEPT ![t].pc = label]
GoWith(t, label, r) == thread' = [thread EXCEPT ![t].pc = label, ![t].copy = r]
Returns(t) == thread' = [thread EXCEPT ![t] = Idle]
Puts(s, r) == rec' = [rec EXCEPT ![s] = r]

-----------------------------------------------------------------------------
(* callDNSAPI: two reads, then the repairs they call for *)

Asks(c, n) == call' = [call EXCEPT ![c] = [NoCall EXCEPT !.name = n, !.at = "apex"]]
Answered(c) == call[c].at \in {"ok", "transient", "permanent"}
Drops(c) == call' = [call EXCEPT ![c] = NoCall]

LookApex(c) ==
  /\ call[c].at = "apex"
  /\ call' = [call EXCEPT ![c].at = "www",
       ![c].todo = IF zone[call[c].name].apex = "ours" THEN {} ELSE {"apex"}]
  /\ UNCHANGED zone

LookWww(c) ==
  LET todo == call[c].todo \union IF zone[call[c].name].www = "ours" THEN {} ELSE {"www"}
  IN /\ call[c].at = "www"
     /\ call' = [call EXCEPT ![c].todo = todo,
                             ![c].at = IF todo = {} THEN "ok" ELSE "repair"]
     /\ UNCHANGED zone

(* The apex goes first.                                                    *)
Next1(todo) == IF "apex" \in todo THEN "apex" ELSE "www"
Repaired(c) ==
  IF "apex" \in call[c].todo THEN [zone EXCEPT ![call[c].name].apex = "ours"]
                             ELSE [zone EXCEPT ![call[c].name].www = "ours"]

Repair(c) ==
  LET rest == call[c].todo \ {Next1(call[c].todo)}
  IN /\ call[c].at = "repair"
     /\ zone' = Repaired(c)
     /\ call' = [call EXCEPT ![c].todo = rest,
                             ![c].at = IF rest = {} THEN "ok" ELSE "repair"]

(* A timeout or 5xx; or 403 and 404, which permanentDNSError never tries   *)
(* again.  A repair takes several requests: all that matter may be done.   *)
RequestFails(c) ==
  /\ call[c].at \in {"apex", "www", "repair"}
  /\ Spend("api")
  /\ \E kind \in {"transient", "permanent"} :
       call' = [call EXCEPT ![c].at = kind, ![c].todo = {}]
  /\ \/ UNCHANGED zone
     \/ call[c].at = "repair" /\ zone' = Repaired(c)

CallDNSAPI(c) ==
  /\ \/ (LookApex(c) \/ LookWww(c) \/ Repair(c)) /\ UNCHANGED left
     \/ RequestFails(c)
  /\ UNCHANGED <<rec, queue, active, wake, worker, thread, cleanups, moved>>

-----------------------------------------------------------------------------
(* The worker: StartDNSWorker has run *)

Awake ==
  /\ worker.pc = "wait"
  /\ wake
  /\ wake' = FALSE
  /\ worker' = [worker EXCEPT !.pc = "take"]
  /\ UNCHANGED <<rec, dns, queue, active, thread, cleanups, moved, left>>

Take ==
  /\ worker.pc = "take"
  /\ \/ \E s \in Services :
          /\ queue[s] # NoName
          /\ active' = [s |-> s, name |-> queue[s]]
          /\ queue' = [queue EXCEPT ![s] = NoName]
          /\ Asks(Syncer, queue[s])
          /\ worker' = [Waiting EXCEPT !.pc = "sync", !.tries = 1]
     \/ /\ \A s \in Services : queue[s] = NoName
        /\ active' = NoUpdate
        /\ worker' = Waiting
        /\ UNCHANGED <<queue, call>>
  /\ UNCHANGED <<rec, zone, wake, thread, cleanups, moved, left>>

(* syncDNS: up to Attempts passes.                                         *)
SyncAnswered ==
  LET answer == call[Syncer].at IN
  /\ worker.pc = "sync"
  /\ Answered(Syncer)
  /\ IF answer = "transient" /\ worker.tries < Attempts
       THEN worker' = [worker EXCEPT !.tries = @ + 1] /\ Asks(Syncer, active.name)
       ELSE worker' = [worker EXCEPT !.pc = "write", !.answer = answer] /\ Drops(Syncer)
  /\ UNCHANGED <<rec, zone, queue, active, wake, thread, cleanups, moved, left>>

StillWantedAnyName ==  \* seeded defect: the domain is not compared
  worker.answer = "ok" \/ rec[active.s].status = "pending"

StillWanted ==
  /\ rec[active.s].dom = active.name
  /\ worker.answer = "ok" \/ rec[active.s].status = "pending"

(* The end of syncDNS; a write that fails is only logged.                  *)
WriteStatus ==
  /\ worker.pc = "write"
  /\ worker' = [worker EXCEPT !.pc = "clear"]
  /\ \/ /\ IF StillWanted
             THEN Puts(active.s, [rec[active.s] EXCEPT
                    !.status = IF worker.answer = "ok" THEN "in_sync" ELSE "error"])
             ELSE UNCHANGED rec
        /\ UNCHANGED left
     \/ Trouble("write") /\ StillWanted /\ UNCHANGED rec
  /\ UNCHANGED <<dns, work, thread, cleanups, moved>>

ClearAndWait ==  \* seeded defect: one update for each wake-up
  /\ worker.pc = "clear"
  /\ active' = NoUpdate
  /\ worker' = Waiting
  /\ UNCHANGED <<rec, dns, queue, wake, thread, cleanups, moved, left>>

Clear ==
  /\ worker.pc = "clear"
  /\ active' = NoUpdate
  /\ worker' = [Waiting EXCEPT !.pc = "take"]
  /\ UNCHANGED <<rec, dns, queue, wake, thread, cleanups, moved, left>>

Worker == CallDNSAPI(Syncer) \/ Awake \/ Take \/ SyncAnswered \/ WriteStatus \/ Clear

-----------------------------------------------------------------------------
(* Queueing an update *)

(* queueDNS, first half: Resume and Upgrade find nothing to do, or         *)
(* POST /dns/reconnect.                                                    *)
QueueDNS(t, s) ==
  /\ Spend("calls")
  /\ rec[s] # NoRec
  /\ Puts(s, [rec[s] EXCEPT !.status = "pending"])
  /\ thread' = [thread EXCEPT ![t] =
       [pc |-> "enqueue", s |-> s, name |-> rec[s].dom, old |-> NoName]]
  /\ UNCHANGED <<dns, work, worker, cleanups, moved>>

(* cleanupOldDNSAsync *)
CleanUp(t, old) ==
  cleanups' = cleanups \union
    {[name |-> n, at |-> "apex", tries |-> 1, by |-> t] : n \in {old} \ {NoName}}

(* enqueueDNS: an update equal to the one under way is dropped.            *)
Enqueue(t) ==
  LET update == [s |-> Of(t), name |-> thread[t].name] IN
  /\ At(t, "enqueue")
  /\ IF active = update
       THEN Returns(t) /\ CleanUp(t, thread[t].old) /\ UNCHANGED queue
       ELSE /\ queue' = [queue EXCEPT ![Of(t)] = thread[t].name]
            /\ Go(t, "signal") /\ UNCHANGED cleanups
  /\ UNCHANGED <<rec, dns, active, wake, worker, moved, left>>

(* The send to dnsWake, after the unlock.                                  *)
Signal(t) ==
  /\ At(t, "signal")
  /\ wake' = TRUE
  /\ Returns(t)
  /\ CleanUp(t, thread[t].old)
  /\ UNCHANGED <<rec, dns, queue, active, worker, moved, left>>

(* An operation that is over enqueues the update it could not make.        *)
EnqueueOrReturn(t, retry, name, old) ==
  IF retry
    THEN thread' = [thread EXCEPT ![t] =
           [pc |-> "enqueue", s |-> Of(t), name |-> name, old |-> old]]
    ELSE Returns(t)

-----------------------------------------------------------------------------
(* Calls *)

Begins(t, s, r) ==
  /\ Spend("calls")
  /\ thread' = [thread EXCEPT ![t] = [pc |-> r.phase, s |-> s, copy |-> r]]
  /\ UNCHANGED <<dns, work, worker, cleanups, moved>>

Claims(t, s, r) == Begins(t, s, r) /\ Puts(s, r)

Starting(r, op, n) == [r EXCEPT !.phase = "starting", !.op = op, !.tdom = n]
Replaceable(r) == r.phase = "failed" /\ r.op \in {"provision", "resume"}

Provision(t, s) ==
  \E n \in Names :
    \/ /\ rec[s] = NoRec
       /\ Claims(t, s, Starting([Serving(n) EXCEPT !.status = "pending"], "provision", NoName))
    \/ /\ rec[s].phase = "failed" /\ rec[s].op = "provision"
       /\ rec[s].dom = n
       /\ Claims(t, s, Starting(rec[s], "provision", rec[s].tdom))

(* By POST upgrade, without a domain, or by PUT, with one.                 *)
Upgrade(t, s) ==
  \E n \in Names \union {NoName} :
    /\ rec[s].state = "active" \/ Replaceable(rec[s])
    /\ rec[s].phase = "running" \/ (rec[s].phase = "failed" /\ rec[s].op = "upgrade")
         \/ Replaceable(rec[s])
    /\ Claims(t, s, Starting(rec[s], IF Replaceable(rec[s]) THEN rec[s].op ELSE "upgrade",
                             IF Replaceable(rec[s]) /\ n = NoName THEN rec[s].tdom ELSE n))

Resume(t, s) ==
  /\ rec[s].state \in {"suspended", "terminated"}
  /\ rec[s].phase \in AtRest
  /\ Claims(t, s, Starting(rec[s], "resume", NoName))

(* PUT of a terminated service gives it its new domain before it resumes.  *)
RedeployTerminated(s) ==
  \E n \in Names :
    /\ rec[s].state = "terminated" /\ rec[s].phase = "stopped"
    /\ Puts(s, [rec[s] EXCEPT !.dom = n])
    /\ Spend("calls")
    /\ UNCHANGED <<dns, work, worker, thread, cleanups, moved>>

(* Suspend and Terminate.                                                  *)
ChangeState(t, s) ==
  \E target \in {"suspended", "terminated"} :
    /\ rec[s].phase \in AtRest
    /\ ~(rec[s].state = target /\ rec[s].phase = "stopped")
    /\ target = "suspended" => rec[s].state # "terminated"
    /\ Claims(t, s, [rec[s] EXCEPT !.phase = "stopping", !.op = target, !.tdom = NoName])

(* deployDomains, up to its second look at the record.                     *)
MayRename(r) ==
  \/ r.state = "suspended" /\ r.phase = "stopped"
  \/ r.state = "active" /\ r.phase = "running"

DeployDomains(t, s) ==
  \E n \in Names :
    /\ MayRename(rec[s])
    /\ Spend("calls")
    /\ thread' = [thread EXCEPT ![t] =
         [pc |-> "rename", s |-> s, copy |-> rec[s], name |-> n]]
    /\ Asks(t, n)
    /\ UNCHANGED <<rec, zone, work, worker, cleanups, moved>>

Call(t, s) ==
  /\ t = left.calls
  /\ \/ /\ "deploy" \in Calls[s]
        /\ Provision(t, s) \/ Upgrade(t, s) \/ Resume(t, s) \/ RedeployTerminated(s)
     \/ "stop" \in Calls[s] /\ ChangeState(t, s)
     \/ "rename" \in Calls[s] /\ DeployDomains(t, s)
     \/ "reconnect" \in Calls[s] /\ QueueDNS(t, s)

-----------------------------------------------------------------------------
(* deployDomains, its second half *)

Result(c) == CASE call[c].at = "ok"        -> "in_sync"
               [] call[c].at = "transient" -> "pending"
               [] call[c].at = "permanent" -> "error"

UnchangedSince(r, before) ==
  <<r.state, r.phase, r.live, r.dom>> = <<before.state, before.phase, before.live, before.dom>>

(* Caddy takes the new domain, or the call ends here.                      *)
ApplyDomains(t) ==
  LET s == Of(t)
      name == thread[t].name
      old == IF Copy(t).dom = name THEN NoName ELSE Copy(t).dom IN
  /\ At(t, "rename")
  /\ Answered(t)
  /\ UnchangedSince(rec[s], Copy(t))
  /\ Puts(s, [rec[s] EXCEPT !.dom = name, !.status = Result(t)])
  /\ moved' = moved \union ({old} \ {NoName})
  /\ EnqueueOrReturn(t, call[t].at = "transient", name, NoName)
  /\ CleanUp(t, old)
  /\ Drops(t)
  /\ UNCHANGED <<zone, work, worker, left>>

(* The deadline passes while DNS is prepared, the record has changed,      *)
(* Caddy refuses, or the record cannot be written and Caddy is put back.   *)
RenameFails(t) ==
  /\ At(t, "rename")
  /\ \/ Trouble("outside")
     \/ Answered(t) /\ Trouble("write")
     \/ Answered(t) /\ ~UnchangedSince(rec[Of(t)], Copy(t)) /\ UNCHANGED left
  /\ Returns(t)
  /\ Drops(t)
  /\ UNCHANGED <<rec, zone, work, worker, cleanups, moved>>

-----------------------------------------------------------------------------
(* A deployment: Provision, Upgrade or Resume up to its health check, then *)
(* finishHealth                                                            *)

PutWaiting(t) ==
  /\ At(t, "starting")
  /\ Puts(Of(t), [Copy(t) EXCEPT !.phase = "waiting"])
  /\ Go(t, "waiting")
  /\ UNCHANGED <<dns, work, worker, cleanups, moved, left>>

RoutingDomain(r) == IF r.tdom = NoName THEN r.dom ELSE r.tdom

HealthVerdict(t) ==
  LET s == Of(t)
      routing == [rec[s] EXCEPT !.phase = "routing", !.status = "pending"] IN
  /\ At(t, "waiting")
  /\ \/ /\ Puts(s, routing)
        /\ GoWith(t, "prepare", routing)
        /\ Asks(t, RoutingDomain(routing))
        /\ UNCHANGED left
     \/ /\ Trouble("outside")
        /\ Puts(s, [rec[s] EXCEPT !.phase = "failed"])
        /\ Returns(t)
        /\ UNCHANGED call
  /\ UNCHANGED <<zone, work, worker, cleanups, moved>>

PrepareDNS(t) ==
  LET r == [Copy(t) EXCEPT !.status = Result(t)] IN
  /\ At(t, "prepare")
  /\ Answered(t)
  /\ Puts(Of(t), r)
  /\ GoWith(t, "route", r)
  /\ UNCHANGED <<dns, work, worker, cleanups, moved, left>>

RenamedBlindly(r) ==  \* seeded defect: also when no domain was given
  [r EXCEPT !.dom = r.tdom, !.tdom = NoName]
Renamed(r) == [r EXCEPT !.dom = RoutingDomain(r), !.tdom = NoName]

(* Caddy has switched; the record keeps the old domain until the next      *)
(* write, which an upgrade makes before it drains the old container.       *)
Route(t) ==
  LET old == IF RoutingDomain(Copy(t)) = Copy(t).dom THEN NoName ELSE Copy(t).dom
      r == [Renamed(Copy(t)) EXCEPT !.phase = "draining"] IN
  /\ At(t, "route")
  /\ thread' = [thread EXCEPT ![t] =
       [pc |-> "finish", s |-> Of(t), copy |-> r, old |-> old]]
  /\ IF r.op = "upgrade"
       THEN Puts(Of(t), r) /\ moved' = moved \union ({old} \ {NoName})
       ELSE UNCHANGED <<rec, moved>>
  /\ UNCHANGED <<dns, work, worker, cleanups, left>>

Opposite(slot) == IF slot = "blue" THEN "green" ELSE "blue"

PutRunning(t) ==
  LET r == Copy(t)
      retry == call[t].at = "transient" IN
  /\ At(t, "finish")
  /\ Puts(Of(t), [r EXCEPT !.state = "active", !.phase = "running", !.op = "",
                           !.live = IF r.op = "provision" THEN @ ELSE Opposite(@)])
  /\ moved' = moved \union ({thread[t].old} \ {NoName})
  /\ EnqueueOrReturn(t, retry, r.dom, thread[t].old)
  /\ IF retry THEN UNCHANGED cleanups ELSE CleanUp(t, thread[t].old)
  /\ Drops(t)
  /\ UNCHANGED <<zone, work, worker, left>>

-----------------------------------------------------------------------------
(* changeState after its claim, and finishRouting *)

PutTargetState(t) ==
  /\ At(t, "stopping")
  /\ Puts(Of(t), [Copy(t) EXCEPT !.state = Copy(t).op, !.phase = "routing"])
  /\ Go(t, "unroute")
  /\ UNCHANGED <<dns, work, worker, cleanups, moved, left>>

Unroute(t) ==
  /\ At(t, "unroute")
  /\ GoWith(t, "stopped", rec[Of(t)])
  /\ UNCHANGED <<rec, dns, work, worker, cleanups, moved, left>>

PutStopped(t) ==
  /\ At(t, "stopped")
  /\ Puts(Of(t), [Copy(t) EXCEPT !.phase = "stopped", !.op = ""])
  /\ Returns(t)
  /\ UNCHANGED <<dns, work, worker, cleanups, moved, left>>

-----------------------------------------------------------------------------
(* What goes wrong with an operation *)

(* failSync, failDeferred: Docker, Caddy or the host fails, or the deadline*)
(* passes while DNS is prepared; the whole copy is written back.  Suspend  *)
(* and Terminate may have changed the state of their copy by then.         *)
Fails(t) ==
  /\ thread[t].pc \in {"starting", "prepare", "route", "finish", "stopping", "stopped"}
  /\ At(t, "finish") => Copy(t).op = "upgrade"
  /\ Trouble("outside")
  /\ \E state \in {Copy(t).state} \union {x \in {Copy(t).op} : At(t, "stopping")} :
       Puts(Of(t), [Copy(t) EXCEPT !.state = state, !.phase = "failed"])
  /\ Returns(t)
  /\ Drops(t)
  /\ UNCHANGED <<zone, work, worker, cleanups, moved>>

(* A write of finishHealth or finishRouting fails: the goroutine ends and  *)
(* leaves the record as it is.                                             *)
WriteFails(t) ==
  /\ \/ thread[t].pc \in {"waiting", "finish", "stopped"}
     \/ At(t, "prepare") /\ Answered(t)
     \/ At(t, "route") /\ Copy(t).op = "upgrade"
  /\ Trouble("write")
  /\ Returns(t)
  /\ Drops(t)
  /\ UNCHANGED <<rec, zone, work, worker, cleanups, moved>>

Work(t) ==
  \/ CallDNSAPI(t)
  \/ Enqueue(t) \/ Signal(t) \/ ApplyDomains(t) \/ RenameFails(t)
  \/ PutWaiting(t) \/ HealthVerdict(t) \/ PrepareDNS(t) \/ Route(t) \/ PutRunning(t)
  \/ PutTargetState(t) \/ Unroute(t) \/ PutStopped(t)
  \/ Fails(t) \/ WriteFails(t)

-----------------------------------------------------------------------------
(* cleanupOldDNS: reads, and deletes what it has read *)

Becomes(c, at) == cleanups' = (cleanups \ {c}) \union {[c EXCEPT !.at = at]}
Ends(c) == cleanups' = cleanups \ {c}

CleanUpStep(c) ==
  \/ /\ c.at = "apex"
     /\ Becomes(c, IF zone[c.name].apex = "ours" THEN "delete apex" ELSE "www")
     /\ UNCHANGED zone
  \/ /\ c.at = "delete apex"
     /\ zone' = [zone EXCEPT ![c.name].apex = "none"]
     /\ Becomes(c, "www")
  \/ /\ c.at = "www"
     /\ IF zone[c.name].www = "none" THEN Ends(c) ELSE Becomes(c, "delete www")
     /\ UNCHANGED zone
  \/ /\ c.at = "delete www"
     /\ zone' = [zone EXCEPT ![c.name].www = "none"]
     /\ Ends(c)

(* A transient failure is tried again once, a permanent one is not.        *)
CleanUpFails(c) ==
  \/ Ends(c)
  \/ /\ c.tries = 1
     /\ cleanups' = (cleanups \ {c}) \union {[c EXCEPT !.at = "apex", !.tries = 2]}

CleanUpOldDNS ==
  /\ \E c \in cleanups :
       \/ CleanUpStep(c) /\ UNCHANGED left
       \/ CleanUpFails(c) /\ Spend("api") /\ UNCHANGED zone
  /\ UNCHANGED <<rec, call, work, worker, thread, moved>>

-----------------------------------------------------------------------------
(* The controller stops and starts again: what it had in memory is gone,   *)
(* and RecoverInterrupted fails what was under way.                        *)
Restart ==
  /\ Trouble("restart")
  /\ rec' = [s \in Services |->
       IF rec[s].phase \in AtRest \/ rec[s] = NoRec THEN rec[s]
       ELSE [rec[s] EXCEPT !.phase = "failed"]]
  /\ call' = [c \in Clients |-> NoCall]
  /\ queue' = [s \in Services |-> NoName]
  /\ active' = NoUpdate
  /\ wake' = FALSE
  /\ worker' = Waiting
  /\ thread' = [t \in Threads |-> Idle]
  /\ cleanups' = {}
  /\ UNCHANGED <<zone, moved>>

Next ==
  \/ Worker
  \/ \E t \in Threads : Work(t) \/ \E s \in Services : Call(t, s)
  \/ CleanUpOldDNS
  \/ Restart

(* Goroutines are scheduled, and every request to the API has a time-out.  *)
Fairness ==
  /\ WF_vars(Worker)
  /\ \A t \in Threads : WF_vars(Work(t))

Spec == Init /\ [][Next]_vars /\ Fairness

-----------------------------------------------------------------------------
(* Properties *)

TypeOK ==
  /\ rec \in [Services -> RecType]
  /\ \A s \in Services : rec[s].dom = NoName <=> rec[s] = NoRec
  /\ zone \in [Names -> ZoneType]
  /\ queue \in [Services -> Names \union {NoName}]
  /\ active \in {NoUpdate} \union Update
  /\ wake \in BOOLEAN
  /\ moved \in SUBSET Names
  /\ \A c \in cleanups : c.name \in Names

(* A running service that says in_sync has both its records in the DNS:    *)
(* whoever wrote in_sync, the worker after its retries or a deployment or  *)
(* hostname change that meanwhile changed the domain, had synchronised     *)
(* this domain, and nothing has taken the records away since.  Only a      *)
(* domain some service once moved away from may still be cleaned up.       *)
InSyncIsTrue ==
  \A s \in Services :
    rec[s].phase = "running" /\ rec[s].status = "in_sync" /\ rec[s].dom \notin moved
      => zone[rec[s].dom] = Right

(* What is queued for the domain of a pending service is taken by the      *)
(* worker, no wake-up being lost, and decided, unless the domain changes,  *)
(* an update for another domain takes its place, the controller restarts   *)
(* or the answer cannot be written.                                        *)
QueuedIsDecided ==
  \A s \in Services : \A n \in Names :
    (queue[s] = n /\ rec[s].dom = n /\ rec[s].status = "pending")
      ~> \/ rec[s].status # "pending" \/ rec[s].dom # n
         \/ queue[s] \notin {n, NoName}
         \/ left.had \intersect {"restart", "write"} # {}

(* When nothing is going on for a running service (no call, no update      *)
(* queued or under way, no clean-up), its dns_status is the truth: not     *)
(* "pending", which the WHMCS page shows as work under way, and not        *)
(* "in_sync" without the records.                                          *)
Settled(s) ==
  /\ \A t \in Threads : At(t, "idle")
  /\ queue[s] = NoName
  /\ active = NoUpdate \/ active.s # s \/ worker.pc = "clear"
  /\ cleanups = {}

SettledIsTrue ==
  \A s \in Services :
    Settled(s) /\ rec[s].phase = "running" =>
      /\ rec[s].status # "pending"
      /\ rec[s].status = "in_sync" => zone[rec[s].dom] = Right

=============================================================================
