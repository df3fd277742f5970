---------------------------- MODULE BulkUpgrade ----------------------------
(***************************************************************************)
(* Bulk upgrades (go-service/internal/service/manager.go:756-1046): a job  *)
(* in a file, which QueueBulkUpgrade fills and one worker goroutine works  *)
(* off, item by item, through Manager.Upgrade.  The services' records move *)
(* as ServiceRecord promises, on behalf of the worker and of other calls.  *)
(*                                                                         *)
(* A step is one critical section under Manager.mu, or a look at a record. *)
(* Upgrade is one step until it has claimed the record and one until it    *)
(* returns; it has no deadline, so it may never return.  The 15 minutes of *)
(* the wait for its outcome may be over at any time.                       *)
(***************************************************************************)
EXTENDS ServiceRecord, Naturals, Sequences, FiniteSetsExt, Functions

CONSTANTS
  Services,    \* ids
  Requests,    \* bulk requests: ids, in order, version and confirm_downgrade
  MaxRequests, \* bound: bulk requests in one behaviour
  Troubles,    \* what may get in the way: see TroubleKinds
  MaxTroubles, \* bound: troubles in one behaviour
  MaxWrites    \* bound: writes of the job that fail

(* What QueueBulkUpgrade does not answer with 400.                         *)
ASSUME RequestsAssumption ==
  \A r \in Requests :
    /\ r.ids \in Seq(Services) /\ r.ids # <<>> /\ IsInjective(r.ids)
    /\ r.ver \in Versions
    /\ r.confirm \in BOOLEAN

FailureLimit == 3

(* Other calls take services over, operations fail, the controller dies.   *)
TroubleKinds == {"call", "failure", "stop"}

VARIABLES
  job,      \* <state_dir>/bulk-upgrade.toml
  woken,    \* the wake channel the worker took before its round is closed
  worker,   \* where the worker goroutine is, with its copy of the item
  service,  \* per service, its record
  cause,    \* per service that has failed, what last_error says of it
  stopping, \* Manager.Context is cancelled: SIGTERM has arrived
  left      \* what is left of the bounds

vars == <<job, woken, worker, service, cause, stopping, left>>

NoJob == [status |-> "none", items |-> <<>>, failures |-> 0]
AtRest(v) ==
  [state |-> "active", phase |-> "running", op |-> "", ver |-> v, tver |-> 0]

Between(label) == [pc |-> label, index |-> 0, failed |-> FALSE]

Init ==
  /\ job = NoJob
  /\ woken = FALSE
  /\ worker = Between("fetch")
  /\ service \in [Services -> {AtRest(v) : v \in Versions}]
  /\ cause = [i \in Services |-> "none"]
  /\ stopping = FALSE
  /\ left = [requests |-> MaxRequests, troubles |-> MaxTroubles, writes |-> MaxWrites]

Spend(what) == left[what] > 0 /\ left' = [left EXCEPT ![what] = @ - 1]
Trouble(kind) == kind \in Troubles /\ Spend("troubles")
At(label) == worker.pc = label
Go(label) == worker' = [worker EXCEPT !.pc = label]
Ends(label) == worker' = Between(label)
Item == job.items[worker.index]

(* Another operation begins on a service.                                  *)
Begins(id, s) ==
  /\ service' = [service EXCEPT ![id] = s]
  /\ cause' = [cause EXCEPT ![id] = "none"]

-----------------------------------------------------------------------------
(* QueueBulkUpgrade: POST /v1/bulk-upgrades *)

MergeAnyItem(items, r, id) ==  \* seeded defect: the running item is retargeted
  LET same == {i \in DOMAIN items :
                 items[i].id = id /\ items[i].status \in {"queued", "running"}}
  IN IF same = {}
       THEN Append(items, [id |-> id, ver |-> r.ver, confirm |-> r.confirm,
                           status |-> "queued"])
       ELSE [items EXCEPT ![Min(same)].ver = r.ver]

(* A service still queued is given the new version; one that is running or *)
(* done is queued again.                                                   *)
MergeItem(items, r, id) ==
  LET same == {i \in DOMAIN items : items[i].id = id /\ items[i].status = "queued"}
      item == [id |-> id, ver |-> r.ver, confirm |-> r.confirm, status |-> "queued"]
  IN IF same = {} THEN Append(items, item)
     ELSE [items EXCEPT ![Min(same)] = item]

Merge(items, r) ==
  LET merged[n \in 0 .. Len(r.ids)] ==
        IF n = 0 THEN items ELSE MergeItem(merged[n - 1], r, r.ids[n])
  IN merged[Len(r.ids)]

Queueable(s, r) == s.state = "active" /\ (r.ver >= s.ver \/ r.confirm)

Queue ==
  \E r \in Requests :
    /\ Spend("requests")
    /\ \A k \in DOMAIN r.ids : Queueable(service[r.ids[k]], r)
    /\ job' = [status |-> "running",
               items |-> Merge(IF job.status = "running" THEN job.items ELSE <<>>, r),
               failures |-> IF job.status = "running" THEN job.failures ELSE 0]
    /\ woken' = TRUE
    /\ UNCHANGED <<worker, service, cause, stopping>>

-----------------------------------------------------------------------------
(* The worker *)

FetchWakeLate ==  \* seeded defect: it may also be taken after the look at the job
  /\ worker.pc \in {"fetch", "asleep"}
  /\ woken' = FALSE
  /\ Go(IF At("fetch") THEN "next" ELSE "asleep")
  /\ UNCHANGED <<job, service, cause, stopping, left>>

(* runBulkUpgradeWorker takes the wake channel before it looks at the job. *)
FetchWake ==
  /\ At("fetch")
  /\ woken' = FALSE
  /\ Go("next")
  /\ UNCHANGED <<job, service, cause, stopping, left>>

(* runNextBulkUpgrade returned false.                                      *)
Sleeps == Ends("asleep") /\ UNCHANGED woken

Wake ==
  /\ At("asleep")
  /\ woken
  /\ Go("fetch")
  /\ UNCHANGED <<job, woken, service, cause, stopping, left>>

Leave ==
  /\ At("asleep")
  /\ stopping
  /\ Go("gone")
  /\ UNCHANGED <<job, woken, service, cause, stopping, left>>

(* PutBulkUpgrade, or its error: the worker gives up until it is woken.    *)
Puts(j, label) ==
  \/ /\ job' = j
     /\ IF label = "asleep" THEN Sleeps ELSE Ends(label) /\ UNCHANGED woken
     /\ UNCHANGED left
  \/ Spend("writes") /\ Sleeps /\ UNCHANGED job

WithStatus(j, i, status) == [j EXCEPT !.items[i].status = status]

(* finishBulkUpgradeItem                                                   *)
Succeed(i) == WithStatus(job, i, "succeeded")

CancelRest(j) ==
  [j EXCEPT !.status = "cancelled",
            !.items = [k \in DOMAIN @ |->
              IF @[k].status = "queued" THEN [@[k] EXCEPT !.status = "cancelled"]
              ELSE @[k]]]

FailOnceMore(i) ==  \* seeded defect: the fourth failure cancels
  LET failed == [WithStatus(job, i, "failed") EXCEPT !.failures = @ + 1] IN
  IF failed.failures <= FailureLimit THEN failed ELSE CancelRest(failed)

Fail(i) ==
  LET failed == [WithStatus(job, i, "failed") EXCEPT !.failures = @ + 1] IN
  IF failed.failures < FailureLimit THEN failed ELSE CancelRest(failed)

AfterItem(j) == IF j.status = "cancelled" THEN "asleep" ELSE "next"

Having(status) == {i \in DOMAIN job.items : job.items[i].status = status}

(* An item that is still marked running: the controller restarted, or the  *)
(* worker could not write its outcome.                                     *)
Recover ==
  LET i == Min(Having("running"))
      s == service[job.items[i].id]
      done == s.phase = "running" /\ s.ver = job.items[i].ver
      failed == s.phase = "failed" /\ cause[job.items[i].id] \notin {"restarted", "cancelled"}
  IN
  /\ At("next") /\ job.status = "running" /\ Having("running") # {}
  /\ \/ done /\ Puts(Succeed(i), "next")
     \/ failed /\ Puts(Fail(i), AfterItem(Fail(i)))
     \/ ~done /\ ~failed /\ Puts(WithStatus(job, i, "queued"), "next")
  /\ UNCHANGED <<service, cause, stopping>>

TakeRegardless ==  \* seeded defect: an item found running is passed over
  /\ At("next") /\ job.status = "running" /\ Having("queued") # {}
  /\ job' = WithStatus(job, Min(Having("queued")), "running")
  /\ worker' = [pc |-> "call", index |-> Min(Having("queued")), failed |-> FALSE]
  /\ UNCHANGED <<woken, service, cause, stopping, left>>

Take ==
  LET i == Min(Having("queued")) IN
  /\ At("next") /\ job.status = "running"
  /\ Having("running") = {} /\ Having("queued") # {}
  /\ \/ /\ job' = WithStatus(job, i, "running")
        /\ worker' = [pc |-> "call", index |-> i, failed |-> FALSE]
        /\ UNCHANGED <<woken, left>>
     \/ Spend("writes") /\ Sleeps /\ UNCHANGED job
  /\ UNCHANGED <<service, cause, stopping>>

Complete ==
  /\ At("next") /\ job.status = "running"
  /\ Having("running") = {} /\ Having("queued") = {}
  /\ Puts([job EXCEPT !.status = "completed"], "asleep")
  /\ UNCHANGED <<service, cause, stopping>>

NothingToDo ==
  /\ At("next") /\ job.status # "running"
  /\ Sleeps
  /\ UNCHANGED <<job, service, cause, stopping, left>>

-----------------------------------------------------------------------------
(* Upgrade of the item's service, and waitForBulkUpgrade *)

Returns(failed) == worker' = [worker EXCEPT !.pc = "finish", !.failed = failed]

Allowed(s, item) == MayUpgrade(s) /\ (item.ver >= s.ver \/ item.confirm)
Already(s, item) == s.phase = "running" /\ s.state = "active" /\ s.ver = item.ver

(* Refused, nothing to do, or begun.  The image may have gone meanwhile, or*)
(* a write fails; a context that is cancelled by then ends the call at     *)
(* HasVersion (manager.go:1072), before it claims the record.              *)
CallUpgrade ==
  LET id == Item.id
      s == service[id]
  IN
  /\ At("call")
  /\ \/ /\ ~Already(s, Item) /\ Allowed(s, Item) /\ ~stopping
        /\ Begins(id, Upgraded(s, Item.ver))
        /\ Go("starting") /\ UNCHANGED left
     \/ /\ Already(s, Item)
        /\ Go("waiting") /\ UNCHANGED <<service, cause, left>>
     \/ /\ ~Already(s, Item) /\ (~Allowed(s, Item) \/ stopping)
        /\ Returns(TRUE) /\ UNCHANGED <<service, cause, left>>
     \/ /\ Trouble("failure")
        /\ Returns(TRUE) /\ UNCHANGED <<service, cause>>
  /\ UNCHANGED <<job, woken, stopping>>

(* What failSync writes when the context is cancelled is the error of the  *)
(* call that was cut off, which is seldom just context.Canceled.           *)
Causes == IF stopping THEN {"failed", "cancelled", "cut off"} ELSE {"failed"}

FailsWith(id, s) ==
  /\ service' = [service EXCEPT ![id] = s]
  /\ \E c \in Causes : cause' = [cause EXCEPT ![id] = c]

(* The rest of Upgrade, up to waiting_for_health.                          *)
UpgradeReturns ==
  LET id == Item.id IN
  /\ At("starting")
  /\ \/ /\ Go("waiting")
        /\ service' = [service EXCEPT ![id].phase = "waiting"]
        /\ UNCHANGED <<cause, left>>
     \/ /\ Returns(TRUE)
        /\ FailsWith(id, [service[id] EXCEPT !.phase = "failed"])
        /\ IF stopping THEN UNCHANGED left ELSE Trouble("failure")
  /\ UNCHANGED <<job, woken, stopping>>

UnderWay(s) == s.phase \in {"begun", "waiting", "ending"}

(* One look at the record; nothing happens while it tells neither success  *)
(* nor failure and there is time left.                                     *)
Poll ==
  LET s == service[Item.id] IN
  /\ At("waiting")
  /\ \/ s.phase = "running" /\ Returns(s.ver # Item.ver)
     \/ s.phase \in {"failed", "absent"} /\ Returns(TRUE)
     \/ /\ UnderWay(s) \/ s.phase = "stopped"
        /\ Returns(TRUE)  \* the deadline, or SIGTERM
  /\ UNCHANGED <<job, woken, service, cause, stopping, left>>

(* A worker that has been told to stop leaves the item as it is.           *)
Finish ==
  /\ At("finish")
  /\ IF stopping \/ Item.status # "running"
       THEN Sleeps /\ UNCHANGED <<job, left>>
       ELSE LET j == IF worker.failed THEN Fail(worker.index) ELSE Succeed(worker.index)
            IN Puts(j, AfterItem(j))
  /\ UNCHANGED <<service, cause, stopping>>

(* What the worker does itself, and the call of Upgrade it waits for.      *)
Rounds ==
  \/ FetchWake \/ Wake \/ Leave \/ Recover \/ Take \/ Complete \/ NothingToDo
  \/ Poll \/ Finish

Worker == Rounds \/ CallUpgrade \/ UpgradeReturns

-----------------------------------------------------------------------------
(* The services, and the controller process *)

InUpgrade(i) == At("starting") /\ Item.id = i

(* Another call takes the service over.                                    *)
OtherCall(i) ==
  /\ Trouble("call")
  /\ \E s \in Claims(service[i]) \union Retargets(service[i]) :
       Begins(i, s)
  /\ UNCHANGED <<job, woken, worker, stopping>>

GoesOn(i) ==
  /\ ~InUpgrade(i)
  /\ \E s \in Continues(service[i]) \union Succeeds(service[i]) :
       service' = [service EXCEPT ![i] = s]
  /\ UNCHANGED <<job, woken, worker, cause, stopping, left>>

GoesWrong(i) ==
  /\ ~InUpgrade(i)
  /\ \E s \in Fails(service[i]) : FailsWith(i, s)
  /\ IF stopping THEN UNCHANGED left ELSE Trouble("failure")
  /\ UNCHANGED <<job, woken, worker, stopping>>

(* SIGTERM: the background context is cancelled, the process goes on for a *)
(* moment.                                                                 *)
Stop ==
  /\ ~stopping /\ stopping' = TRUE
  /\ "stop" \in Troubles /\ left.troubles > 0
  /\ UNCHANGED <<job, woken, worker, service, cause, left>>

(* The process ends, stopped or not, and starts again: RecoverInterrupted, *)
(* then StartBulkUpgradeWorker.                                            *)
Restart ==
  /\ Trouble("stop")
  /\ stopping' = FALSE
  /\ service' = [i \in Services |->
       IF UnderWay(service[i]) THEN [service[i] EXCEPT !.phase = "failed"] ELSE service[i]]
  /\ cause' = [i \in Services |-> IF UnderWay(service[i]) THEN "restarted" ELSE cause[i]]
  /\ woken' = FALSE
  /\ Ends("fetch")
  /\ UNCHANGED job

Next ==
  \/ Queue \/ Worker
  \/ \E i \in Services : OtherCall(i) \/ GoesOn(i) \/ GoesWrong(i)
  \/ Stop \/ Restart

(* The worker goes on with its own steps: Manager.mu is always released,   *)
(* and 15 minutes end the wait for an outcome (manager.go:972).  Nothing is*)
(* assumed of Upgrade itself: the worker passes it backgroundContext, which*)
(* has no deadline (845, 936), and Docker's client has none (docker.go:51).*)
Fairness == WF_vars(Rounds)

Spec == Init /\ [][Next]_vars /\ Fairness

-----------------------------------------------------------------------------
(* Properties *)

Busy == worker.pc \in {"call", "starting", "waiting", "finish"}

(* One item at a time, and the one the worker is at: its index stays right *)
(* while requests are merged into the file, restarts included              *)
(* (manager.go:944-956, container-runtime.md:357-358).                         *)
OneAtATime ==
  /\ Cardinality(Having("running")) <= 1
  /\ Busy => job.status = "running" /\ Having("running") = {worker.index}

(* The third failure, and nothing else, cancels what is left; a completed  *)
(* job has left nothing undone (manager.go:1005-1024).                     *)
CancelledByThird ==
  /\ job.failures = Cardinality(Having("failed"))
  /\ job.status = "running" => job.failures < FailureLimit
  /\ job.status = "cancelled" => job.failures = FailureLimit
  /\ job.status \in {"completed", "cancelled"} =>
       Having("queued") = {} /\ Having("running") = {}
  /\ job.status = "completed" => Having("cancelled") = {}

Moves ==
  {<<"queued", "running">>, <<"queued", "cancelled">>, <<"running", "queued">>,
   <<"running", "succeeded">>, <<"running", "failed">>}

(* While a job runs, nothing that was asked for is lost: items stay where  *)
(* they are, outcomes stay what they are, and an item that has been begun  *)
(* keeps its version (mergeBulkUpgradeItems, manager.go:1026-1040).        *)
RequestsKept ==
  [][job.status = "running" =>
       \A k \in DOMAIN job.items :
         /\ k \in DOMAIN job'.items
         /\ LET a == job.items[k]
                b == job'.items[k]
            IN /\ a.id = b.id
               /\ a.status # "queued" => a.ver = b.ver
               /\ a.status = b.status \/ <<a.status, b.status>> \in Moves]_vars

(* container-runtime.md:361: after a restart the worker "retries the       *)
(* interrupted item": what it finds still marked running it charges with a *)
(* failure only if that upgrade failed on its own.                         *)
InterruptedIsRetried ==
  [][\A k \in Having("running") :
       At("next") /\ k \in DOMAIN job'.items /\ job'.items[k].status = "failed" =>
         /\ cause[job.items[k].id] = "failed"
         /\ service[job.items[k].id].tver = job.items[k].ver]_vars

(* No call of Upgrade the worker makes goes on forever.                    *)
CallsReturn == []<>(worker.pc \notin {"call", "starting"})

(* A job that is under way ends, or is stopped with the controller, unless *)
(* the worker could not write it, or a call of Upgrade it has made never   *)
(* returns: the code sets none of them a deadline (manager.go:936).        *)
JobsEnd ==
  CallsReturn =>
    (job.status = "running" ~>
       job.status # "running" \/ stopping \/ left.writes < MaxWrites)

=============================================================================
