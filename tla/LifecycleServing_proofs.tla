----------------------- MODULE LifecycleServing_proofs -----------------------
(* What "running" and "stopped" promise of the containers and of the       *)
(* route, for any number of threads, calls, failures and crashes:          *)
(* RunningIsServed and StoppedIsQuiet of Lifecycle; and, where a hostname  *)
(* change is not cut off, RoutedByName.                                    *)
EXTENDS LifecycleOwner_proofs

NotRunning(s) == ctr[s].up # "running"

(* What the record says of the slots, whatever its phase: the recorded live*)
(* container of a service that is not active does not run, and the target  *)
(* of a deployment is the other slot, but for a first deployment.          *)
SlotsOK ==
  /\ rec.state # "active" => NotRunning(rec.live)
  /\ rec.op = "provision" =>
       /\ rec.state = "active" /\ rec.live = "blue" /\ rec.tgt = "blue"
       /\ NotRunning("green")
  /\ rec.op = "resume" => rec.state # "active"
  /\ rec.op \in {"upgrade", "resume"} => rec.tgt = Opposite(rec.live)

(* No crash comes between Caddy and the record of a hostname change, and   *)
(* one whose record cannot be written can be undone.                       *)
RouteKept == "crash" \notin Faults /\ ~({"caddy", "repo"} \subseteq Faults)

RecordServed ==
  /\ rec = NoRec => route = NoRoute /\ \A s \in Slots : ctr[s] = NoCtr
  /\ rec.phase \in {"running", "stopped"} => rec.op = ""
  /\ SlotsOK
  /\ RunningIsServed
  /\ StoppedIsQuiet
  /\ RouteKept => RoutedByName

SwitchedLabels == {"removeOld", "putDraining", "drain", "putRunning"}
QuietedLabels == {"putTarget", "settle", "unroute", "putStopped"}

(* What a thread at a label has made of the containers and of the route.   *)
ThreadServed(t) ==
  LET s == th[t].svc IN
  /\ At(t, "applyDomains") => Renames(s)
  /\ At(t, "failing") /\ s.state # "active" => NotRunning(rec.live)
  /\ th[t].pc \in QuietedLabels =>
       \A c \in Slots : NotRunning(c) /\ (s.op = "terminated" => ctr[c] = NoCtr)
  /\ At(t, "putStopped") =>
       route = IF s.op = "suspended" THEN Page(s.dom) ELSE NoRoute
  /\ th[t].pc \in BeforeWait \union {"health"} => ~th[t].passed
  /\ At(t, "putWaiting") \/ Awaits(t) => ctr[s.tgt].up = "running"
  /\ Awaits(t) /\ th[t].passed => ctr[s.tgt].ok
  /\ th[t].pc \in SwitchedLabels \union {"route"} => Serves(s.tgt)
  /\ th[t].pc \in SwitchedLabels => route = Proxy(s.tgt, RoutingDomain(s))
  /\ At(t, "putRunning") => NotRunning(Opposite(s.tgt))

ServedInv == tomb = "none" => RecordServed /\ \A t \in Threads : ThreadServed(t)

(* Provision retries nothing but a failed provisioning.                    *)
OnlyRetries ==
  tomb = "none" /\ rec.phase # "provisioning" /\ rec'.phase = "provisioning" =>
    rec = NoRec \/ (rec.phase = "failed" /\ rec.op = "provision")

-----------------------------------------------------------------------------
LEMMA OppositeFacts ==
  ASSUME NEW s \in Slots
  PROVE  /\ Opposite(s) \in Slots /\ Opposite(s) # s /\ Opposite(Opposite(s)) = s
         /\ \A c \in Slots : c = s \/ c = Opposite(s)
  BY DEF Opposite, Slots

LEMMA SlotNames ==
  "blue" \in Slots /\ "green" \in Slots /\ Opposite("blue") = "green"
  BY DEF Opposite, Slots

LEMMA NoCtrFacts == NoCtr.up = "absent" /\ NoCtr.ok = FALSE /\ NoCtr.ver = 0
  BY DEF NoCtr

LEMMA RouteFacts ==
  /\ NoRoute.mode = "none"
  /\ \A s, d : Proxy(s, d).mode = "proxy" /\ Proxy(s, d).slot = s /\ Proxy(s, d).dom = d
  /\ \A d : Page(d).mode = "page" /\ Page(d).dom = d
  BY DEF NoRoute, Proxy, Page

(* What RunningIsServed and StoppedIsQuiet say when there is no tombstone. *)
LEMMA ServedFacts ==
  ASSUME ServedInv, tomb = "none"
  PROVE  /\ RecordServed /\ SlotsOK
         /\ rec.phase = "running" =>
              /\ rec.state = "active" /\ rec.op = ""
              /\ route.mode = "proxy" /\ route.slot = rec.live /\ Serves(rec.live)
              /\ NotRunning(Opposite(rec.live))
         /\ rec.phase = "stopped" =>
              /\ rec.op = ""
              /\ \/ /\ rec.state = "suspended" /\ route.mode = "page"
                    /\ \A s \in Slots : NotRunning(s)
                 \/ /\ rec.state = "terminated" /\ route = NoRoute
                    /\ \A s \in Slots : ctr[s] = NoCtr
         /\ RouteKept => RoutedByName
  BY DEF ServedInv, RecordServed, RunningIsServed, StoppedIsQuiet, NotRunning

(* Whatever health check is awaited after a step was awaited before it.    *)
LEMMA HealthSteps ==
  ASSUME TypeInv, [Next]_vars
  PROVE  health'.cur \in {health.cur, 0, health.seq + 1}
<1>1. ASSUME NEW t \in Threads,
             \/ PutWaiting(t)
             \/ HealthVerdict(t)
             \/ UpgradeClaim(t)
             \/ Resume(t)
             \/ ResumeFromCall(t)
             \/ ChangeState(t)
      PROVE  health'.cur \in {health.cur, 0, health.seq + 1}
  <2>1. NextHealthAttempt => health'.cur = health.seq + 1
    BY DEF NextHealthAttempt
  <2>2. ForgetAttempt(t) => health'.cur \in {health.cur, 0}
    BY DEF ForgetAttempt, TypeInv, TypeOK
  <2>3. ChangeState(t) => health'.cur = 0
    BY DEF ChangeState, TypeInv, TypeOK
  <2> QED BY <1>1, <2>1, <2>2, <2>3
          DEF PutWaiting, HealthVerdict, UpgradeClaim, Resume, ResumeFromCall, ResumeClaim,
              ResumeRedeploys
<1>2. ASSUME NEW t \in Threads,
             \/ ProvisionLookup(t) \/ HasVersion(t) \/ ProvisionClaim(t) \/ PrepareStorage(t)
             \/ StartSlot(t) \/ CheckHealth(t) \/ RouteTarget(t) \/ RemovePreviousSlot(t)
             \/ PutDraining(t) \/ DrainOldDeploy(t) \/ PutRunning(t) \/ RecordFailure(t)
             \/ UpgradeFromCall(t) \/ EnsureIsolation(t) \/ RestoreLiveRoute(t)
             \/ RemoveTarget(t)
      PROVE  health' = health
  BY <1>2
  DEF ProvisionLookup, HasVersion, ProvisionClaim, PrepareStorage, StartSlot, CheckHealth,
      RouteTarget, RemovePreviousSlot, PutDraining, DrainOldDeploy, PutRunning, RecordFailure,
      UpgradeFromCall, EnsureIsolation, RestoreLiveRoute, RemoveTarget
<1>3. ASSUME NEW t \in Threads,
             \/ Reconcile(t) \/ RedeployTerminated(t) \/ DeployDomains(t) \/ ApplyDomains(t)
             \/ StopContainers(t) \/ PutTargetState(t) \/ FinishRouting(t) \/ Unroute(t)
             \/ PutStopped(t) \/ RemoveContainers(t) \/ RemoveRoute(t) \/ DestroyDataset(t)
             \/ RemoveMountpoint(t) \/ Bury(t) \/ FinishDelete(t) \/ PutTombstone(t)
             \/ Provision(t) \/ Upgrade(t) \/ Delete(t)
      PROVE  health' = health
  BY <1>3
  DEF Reconcile, RedeployTerminated, DeployDomains, ApplyDomains, StopContainers,
      PutTargetState, FinishRouting, Unroute, PutStopped, RemoveContainers, RemoveRoute,
      DestroyDataset, RemoveMountpoint, Bury, FinishDelete, PutTombstone, Provision, Upgrade,
      Delete
<1>4. Restart => health'.cur = 0
  BY DEF Restart
<1>5. UNCHANGED vars => health' = health
  BY DEF vars
<1> QED BY <1>1, <1>2, <1>3, <1>4, <1>5 DEF Next, Call, Work

LEMMA StillAwaits ==
  ASSUME TypeInv, AttemptInv, [Next]_vars, NEW u \in Threads, th'[u] = th[u], Awaits(u)'
  PROVE  Awaits(u)
  <1>1. /\ th[u].att \in Nat /\ health.seq \in Nat /\ th[u].att <= health.seq
        /\ th[u].pc \in CheckLabels => th[u].att # 0
    BY NoAttempt DEF AttemptInv, AttemptOK
  <1> QED BY <1>1, HealthSteps DEF Awaits

-----------------------------------------------------------------------------
(* A step leaves the containers, but that one may have passed its check.   *)
CtrKept ==
  \A s \in Slots :
    \/ ctr'[s] = ctr[s]
    \/ ctr[s].up = "running" /\ ctr'[s] = [ctr[s] EXCEPT !.ok = TRUE]

LEMMA KeptFacts ==
  ASSUME TypeInv, CtrKept, NEW s \in Slots
  PROVE  /\ ctr'[s].up = ctr[s].up /\ ctr'[s].ver = ctr[s].ver
         /\ ctr[s].ok => ctr'[s].ok
         /\ ctr[s] = NoCtr => ctr'[s] = NoCtr
  <1>1. ctr[s] \in CtrType
    BY DEF TypeInv, TypeOK
  <1>2. CASE ctr'[s] = ctr[s]
    BY <1>2
  <1>3. CASE ctr[s].up = "running" /\ ctr'[s] = [ctr[s] EXCEPT !.ok = TRUE]
    <2>1. ctr'[s].up = ctr[s].up /\ ctr'[s].ver = ctr[s].ver
      BY <1>1, <1>3 DEF CtrType
    <2>2. ctr'[s].ok
      BY <1>1, <1>3, Zenon DEF CtrType
    <2>3. ctr[s] # NoCtr
      BY <1>3, NoCtrFacts
    <2> QED BY <2>1, <2>2, <2>3
  <1> QED BY <1>2, <1>3 DEF CtrKept

LEMMA RecordServedKept ==
  ASSUME TypeInv, RecordServed, tomb = "none", CtrKept, rec' = rec, route' = route
  PROVE  RecordServed'
  <1>1. rec.live \in Slots
    BY DEF TypeInv, TypeOK, RecType
  <1>2. Opposite(rec.live) \in Slots /\ "green" \in Slots
    BY <1>1, OppositeFacts, SlotNames
  <1>3. \A s \in Slots : /\ NotRunning(s) => NotRunning(s)'
                         /\ Serves(s) => Serves(s)'
                         /\ ctr[s] = NoCtr => ctr'[s] = NoCtr
    BY KeptFacts DEF NotRunning, Serves
  <1>4. SlotsOK'
    BY <1>1, <1>2, <1>3 DEF RecordServed, SlotsOK
  <1>5. RunningIsServed'
    BY <1>1, <1>2, <1>3 DEF RecordServed, RunningIsServed, NotRunning
  <1>6. StoppedIsQuiet'
    BY <1>3 DEF RecordServed, StoppedIsQuiet, NotRunning
  <1>7. RouteKept => RoutedByName'
    BY DEF RecordServed, RoutedByName
  <1> QED BY <1>3, <1>4, <1>5, <1>6, <1>7 DEF RecordServed

(* A record at work says nothing but SlotsOK.                              *)
LEMMA RecordServedBusy ==
  ASSUME SlotsOK', rec'.phase \in Busy \union {"failed"}
  PROVE  RecordServed'
  BY NoRecFacts DEF RecordServed, RunningIsServed, StoppedIsQuiet, RoutedByName, Busy

LEMMA SlotsFrom ==
  ASSUME TypeInv, SlotsOK, rec'.state = rec.state, rec'.op = rec.op,
         rec'.live = rec.live, rec'.tgt = rec.tgt,
         \A s \in Slots : NotRunning(s) => NotRunning(s)'
  PROVE  SlotsOK'
  <1>1. rec.live \in Slots
    BY DEF TypeInv, TypeOK, RecType
  <1> QED BY <1>1, SlotNames DEF SlotsOK

(* A step of one thread: it holds the record, or it leaves the containers  *)
(* and, when somebody else holds it, the record and the route.             *)
LEMMA ServedFrom ==
  ASSUME TypeInv, OneWriter, AttemptInv, ServedInv, [Next]_vars,
         NEW t \in Threads, OnlyMoves(t), tomb' = "none" => tomb = "none",
         \/ Holding(t)
         \/ CtrKept /\ (~Taken(rec) \/ (rec' = rec /\ route' = route)),
         tomb = "none" => RecordServed' /\ ThreadServed(t)'
  PROVE  ServedInv'
  <1> SUFFICES ASSUME tomb = "none", NEW u \in Threads, u # t
               PROVE  ThreadServed(u)'
    BY DEF ServedInv
  <1>1. th'[u] = th[u] /\ ThreadServed(u)
    BY DEF OnlyMoves, ServedInv
  <1>2. CASE Holding(u)
    <2>1. ~Holding(t) /\ Taken(rec) /\ rec \in RecType /\ th[u].svc \in RecType
      BY <1>2, HeldIsCurrent, CopyType DEF TypeInv, TypeOK
    <2>2. CtrKept /\ rec' = rec /\ route' = route
      BY <2>1
    <2>3. /\ \A s \in Slots : /\ NotRunning(s) => NotRunning(s)'
                              /\ Serves(s) => Serves(s)'
                              /\ ctr[s] = NoCtr => ctr'[s] = NoCtr
                              /\ ctr[s].up = "running" => ctr'[s].up = "running"
      BY <2>2, KeptFacts DEF NotRunning, Serves
    <2>4. rec.live \in Slots
      BY <2>1 DEF RecType
    <2>5. th[u].pc \in TargetLabels => th[u].svc.tgt \in Slots
      BY DEF TypeInv, LocalOK
    <2>6. th[u].svc.tgt \in Slots => Opposite(th[u].svc.tgt) \in Slots
      BY OppositeFacts
    <2>7. ~Awaits(u)'
      BY <1>1, <1>2 DEF Awaits, Holding, HoldingLabels, CheckLabels
    <2> QED BY <1>1, <1>2, <2>2, <2>3, <2>4, <2>5, <2>6, <2>7
            DEF ThreadServed, At, Holding, HoldingLabels, TargetLabels, SwitchedLabels,
                QuietedLabels, BeforeWait
  <1>3. CASE ~Holding(u)
    <2>1. ASSUME Awaits(u)' PROVE /\ ctr'[th[u].svc.tgt].up = "running"
                                  /\ th[u].passed => ctr'[th[u].svc.tgt].ok
      <3>1. Awaits(u) /\ rec.phase = "waiting_for_health"
        BY <1>1, <2>1, StillAwaits DEF AttemptInv, CurrentOK
      <3>2. CtrKept
        BY <3>1, HeldIsCurrent DEF Taken
      <3>3. th[u].svc.tgt \in Slots
        BY <3>1 DEF TypeInv, LocalOK, TargetLabels, Awaits, CheckLabels
      <3> QED BY <1>1, <3>1, <3>2, <3>3, KeptFacts DEF ThreadServed
    <2> QED BY <1>1, <1>3, <2>1
            DEF ThreadServed, At, Holding, HoldingLabels, SwitchedLabels,
                QuietedLabels, BeforeWait
  <1> QED BY <1>2, <1>3

(* The labels at which a thread says nothing of the containers.            *)
SilentLabels ==
  AskingLabels \union {"idle", "domains", "stop", "wipe", "unserve", "destroy",
                      "unmount", "bury", "finishDelete", "buried", "unburied"}

LEMMA Silent ==
  ASSUME NEW t \in Threads, th'[t].pc \in SilentLabels
  PROVE  ThreadServed(t)'
  BY DEF ThreadServed, At, SilentLabels, AskingLabels, QuietedLabels, SwitchedLabels,
         BeforeWait, Awaits, CheckLabels

(* A step that changes nothing but its thread.                             *)
LEMMA ServedStays ==
  ASSUME TypeInv, OneWriter, AttemptInv, ServedInv, [Next]_vars,
         NEW t \in Threads, OnlyMoves(t), tomb' = "none" => tomb = "none",
         rec' = rec, ctr' = ctr, route' = route,
         tomb = "none" => ThreadServed(t)'
  PROVE  ServedInv'
  <1>1. CtrKept
    BY DEF CtrKept
  <1>2. tomb = "none" => RecordServed'
    BY <1>1, ServedFacts, RecordServedKept
  <1> QED BY <1>1, <1>2, ServedFrom

LEMMA ReturnServed ==
  ASSUME TypeInv, OneWriter, AttemptInv, ServedInv, [Next]_vars,
         NEW t \in Threads, Done(t), tomb' = "none" => tomb = "none",
         rec' = rec, ctr' = ctr, route' = route
  PROVE  ServedInv'
  BY DoneForgets, Silent, ServedStays DEF SilentLabels

(* A call claims a record that nobody holds.                               *)
LEMMA ClaimServed ==
  ASSUME TypeInv, OneWriter, AttemptInv, ServedInv, [Next]_vars,
         NEW t \in Threads, NEW l \in {"storage", "isolate", "stop", "wipe"},
         NEW r, NEW s, NEW a, Claims(t, l, r, s, a),
         ~Taken(rec), tomb' = tomb, ctr' = ctr, route' = route,
         tomb = "none" => s.phase \in Busy /\ SlotsOK'
  PROVE  ServedInv'
  <1>1. OnlyMoves(t) /\ th'[t].pc = l /\ ~th'[t].passed /\ rec' = s
    BY ClaimSets
  <1>2. CtrKept
    BY DEF CtrKept
  <1>3. ThreadServed(t)'
    BY <1>1 DEF ThreadServed, At, QuietedLabels, SwitchedLabels, Awaits, CheckLabels
  <1> QED BY <1>1, <1>2, <1>3, RecordServedBusy, ServedFrom

(* A holder that changes containers or route, but starts none.             *)
LEMMA HolderServed ==
  ASSUME TypeInv, OneWriter, AttemptInv, ServedInv, [Next]_vars,
         NEW t \in Threads, Holding(t), OnlyMoves(t), tomb' = "none" => tomb = "none",
         rec' = rec, \A s \in Slots : NotRunning(s) => NotRunning(s)',
         tomb = "none" => ThreadServed(t)'
  PROVE  ServedInv'
  <1>1. tomb = "none" => RecordServed'
    BY ServedFacts, SlotsFrom, RecordServedBusy, HeldIsCurrent DEF Taken
  <1> QED BY <1>1, ServedFrom

(* A holder that goes on to record a failure.                              *)
LEMMA FailingServed ==
  ASSUME TypeInv, OneWriter, RecordInv, ServedInv, NEW t \in Threads,
         Holding(t), th[t].pc # "failing", Go(t, "failing"), tomb = "none", rec' = rec,
         NotRunning(rec.live) => NotRunning(rec.live)'
  PROVE  ThreadServed(t)'
  <1>1. th[t].svc = rec /\ SlotsOK
    BY HeldIsCurrent, ServedFacts
  <1>2. th'[t].pc = "failing" /\ th'[t].svc = rec
    BY <1>1, GoKeeps
  <1> QED BY <1>1, <1>2
          DEF ThreadServed, At, QuietedLabels, SwitchedLabels, BeforeWait, Awaits, CheckLabels,
              SlotsOK

LEMMA LiveFacts ==
  ASSUME TypeInv
  PROVE  rec \in RecType /\ rec.live \in Slots /\ ctr \in [Slots -> CtrType]
  BY DEF TypeInv, TypeOK, RecType

(* What StopAll and RemoveAll leave.                                       *)
LEMMA StopFacts ==
  ASSUME TypeInv, NEW slots, NEW op, StopSlots(slots, op)
  PROVE  /\ \A s \in Slots : NotRunning(s) => NotRunning(s)'
         /\ slots = Slots => \A s \in Slots : NotRunning(s)'
         /\ slots = Slots /\ op # "suspended" => \A s \in Slots : ctr'[s] = NoCtr
  <1> SUFFICES ASSUME NEW s \in Slots
               PROVE  /\ NotRunning(s) => NotRunning(s)'
                      /\ s \in slots => NotRunning(s)'
                      /\ s \in slots /\ op # "suspended" => ctr'[s] = NoCtr
    OBVIOUS
  <1>1. ctr'[s] = IF s \in slots THEN Stopped(ctr[s], op) ELSE ctr[s]
    BY DEF StopSlots
  <1>2. ctr[s] \in CtrType
    BY DEF TypeInv, TypeOK
  <1>3. Stopped(ctr[s], op).up # "running"
    BY <1>2, NoCtrFacts DEF Stopped, Killed, CtrType
  <1>4. op # "suspended" => Stopped(ctr[s], op) = NoCtr
    BY DEF Stopped
  <1> QED BY <1>1, <1>3, <1>4 DEF NotRunning

-----------------------------------------------------------------------------
LEMMA UpgradeSlots ==
  ASSUME TypeInv, RecordInv, SlotsOK, tomb = "none", NEW r \in RequestType,
         UpgradeAllowed(rec, r), rec' = UpgradeRecord(rec, r), ctr' = ctr
  PROVE  SlotsOK' /\ rec'.phase \in Busy
  <1> DEFINE pending == ReplaceableActivation(rec)
             op == IF pending THEN rec.op ELSE "upgrade"
             tgt == IF op = "provision" THEN rec.live ELSE Opposite(rec.live)
             kept == IF pending \/ rec.phase = "waiting_for_health" THEN rec.tdom ELSE NoDomain
             dom == IF r.dom # NoDomain THEN r.dom ELSE kept
             u == [rec EXCEPT !.phase = "starting", !.op = op, !.tgt = tgt,
                              !.tver = r.ver, !.tdom = dom]
  <1>1. rec' = u
    BY DEF UpgradeRecord
  <1>2. /\ op \in {"provision", "resume", "upgrade"}
        /\ op # "upgrade" => op = rec.op
        /\ op = "upgrade" => rec.state = "active"
        /\ op = "provision" => tgt = rec.live
        /\ op # "provision" => tgt = Opposite(rec.live)
    BY DEF UpgradeAllowed, ReplaceableActivation
  <1> HIDE DEF op, tgt, dom
  <1>3. /\ rec'.op = op /\ rec'.tgt = tgt /\ rec'.state = rec.state /\ rec'.live = rec.live
        /\ rec'.phase = "starting"
    BY <1>1, LiveFacts DEF RecType
  <1> QED BY <1>2, <1>3 DEF SlotsOK, NotRunning, Busy

(* What is known where a thread deploys.                                   *)
LEMMA TargetFacts ==
  ASSUME TypeInv, OneWriter, RecordInv, ServedInv, tomb = "none",
         NEW t \in Threads, Holding(t), th[t].pc \in TargetLabels
  PROVE  /\ th[t].svc = rec /\ Taken(rec) /\ SlotsOK /\ WellFormed(rec)
         /\ StageOK(th[t]) /\ ThreadServed(t)
         /\ rec.live \in Slots /\ rec.tgt \in Slots /\ rec.op \in Deploys
         /\ rec.state = "active" \/ rec.op = "resume"
         /\ rec.op # "provision" =>
              /\ rec.tgt = Opposite(rec.live) /\ rec.tgt # rec.live
              /\ Opposite(rec.tgt) = rec.live
         /\ rec.op = "provision" =>
              rec.tgt = rec.live /\ rec.tgt = "blue" /\ NotRunning(Opposite(rec.tgt))
  <1>1. th[t].pc # "failing"
    BY DEF TargetLabels
  <1>2. th[t].svc = rec /\ Taken(rec)
    BY <1>1, HeldIsCurrent
  <1>3. WellFormed(rec) /\ StageOK(th[t])
    BY <1>1, <1>2, HeldIsWellFormed
  <1>4. rec.live \in Slots /\ rec.tgt \in Slots /\ rec.op \in Deploys
    BY <1>2, LiveFacts DEF TypeInv, LocalOK
  <1>5. SlotsOK /\ ThreadServed(t)
    BY ServedFacts DEF ServedInv
  <1>6. rec.state = "active" \/ rec.op = "resume"
    BY <1>3, <1>4, <1>5 DEF SlotsOK, WellFormed, Deploys
  <1>7. rec.op # "provision" =>
          /\ rec.tgt = Opposite(rec.live) /\ rec.tgt # rec.live
          /\ Opposite(rec.tgt) = rec.live
    BY <1>4, <1>5, OppositeFacts DEF SlotsOK, Deploys
  <1>8. rec.op = "provision" =>
          rec.tgt = rec.live /\ rec.tgt = "blue" /\ NotRunning(Opposite(rec.tgt))
    BY <1>5, SlotNames DEF SlotsOK
  <1> QED BY <1>2, <1>3, <1>4, <1>5, <1>6, <1>7, <1>8

(* A container is removed: no other is touched, and none starts.           *)
LEMMA RemoveFacts ==
  ASSUME TypeInv, NEW x, ctr' = [ctr EXCEPT ![x] = NoCtr]
  PROVE  /\ \A s \in Slots : NotRunning(s) => NotRunning(s)'
         /\ \A s \in Slots \ {x} : ctr'[s] = ctr[s]
         /\ \A s \in Slots : s = x => ctr'[s] = NoCtr /\ NotRunning(s)'
  <1>1. /\ \A s \in Slots \ {x} : ctr'[s] = ctr[s]
        /\ \A s \in Slots : s = x => ctr'[s] = NoCtr
    BY LiveFacts
  <1> QED BY <1>1, NoCtrFacts DEF NotRunning

(* What a hostname change makes of the route of a service at rest.         *)
RouteMay(t) ==
  /\ Renames(rec)
  /\ RenamedRoute(t) = route
     \/ (rec.state = "suspended" /\ RenamedRoute(t).mode = "page")
     \/ (rec.state # "suspended" /\ RenamedRoute(t).mode = "proxy"
         /\ RenamedRoute(t).slot = rec.live)

LEMMA RouteMayFacts ==
  ASSUME ServedInv, tomb = "none", NEW t \in Threads,
         At(t, "applyDomains"), UnchangedSince(th[t].svc)
  PROVE  RouteMay(t)
  <1>1. Renames(rec)
    BY DEF ServedInv, ThreadServed, UnchangedSince, Renames
  <1> QED BY <1>1, RouteFacts DEF RouteMay, RenamedRoute

LEMMA RouteMayKeeps ==
  ASSUME ServedInv, tomb = "none", NEW t \in Threads, RouteMay(t),
         rec.phase \in {"running", "stopped"}
  PROVE  /\ RenamedRoute(t).mode = route.mode
         /\ route.mode = "proxy" => route.slot = rec.live /\ RenamedRoute(t).slot = rec.live
  <1>1. CASE rec.phase = "running"
    <2>1. rec.state = "active" /\ route.mode = "proxy" /\ route.slot = rec.live
      BY <1>1, ServedFacts
    <2> QED BY <2>1 DEF RouteMay
  <1>2. CASE rec.phase = "stopped"
    <2>1. rec.state = "suspended"
      BY <1>2 DEF RouteMay, Renames
    <2>2. route.mode = "page"
      BY <1>2, <2>1, ServedFacts
    <2> QED BY <2>1, <2>2 DEF RouteMay
  <1> QED BY <1>1, <1>2

(* A forced removal that errs: no other container is touched, none starts. *)
LEMMA HalfFacts ==
  ASSUME TypeInv, NEW slots \in SUBSET Slots, HalfRemove(slots)
  PROVE  /\ \A s \in Slots : NotRunning(s) => NotRunning(s)'
         /\ \A s \in Slots \ slots : ctr'[s] = ctr[s]
         /\ \A s \in Slots : ctr[s] = NoCtr => ctr'[s] = NoCtr
  <1>1. PICK dead \in SUBSET slots, gone \in SUBSET slots :
          ctr' = [s \in Slots |-> IF s \in gone THEN NoCtr
                                  ELSE IF s \in dead THEN Killed(ctr[s]) ELSE ctr[s]]
    BY DEF HalfRemove
  <1> SUFFICES ASSUME NEW s \in Slots
               PROVE  /\ NotRunning(s) => NotRunning(s)'
                      /\ s \notin slots => ctr'[s] = ctr[s]
                      /\ ctr[s] = NoCtr => ctr'[s] = NoCtr
    OBVIOUS
  <1>2. ctr'[s] \in {NoCtr, Killed(ctr[s]), ctr[s]} /\ (s \notin slots => ctr'[s] = ctr[s])
    BY <1>1
  <1>3. ctr[s].up # "running" => Killed(ctr[s]) = ctr[s]
    BY DEF Killed
  <1> QED BY <1>2, <1>3, NoCtrFacts DEF NotRunning

LEMMA ServedInvStep ==
  ASSUME TypeInv, OneWriter, DeleteInv, RecordInv, AttemptInv, ServedInv,
         [Next]_vars, \A t \in Threads : ProvisionClaim(t) => OnlyRetries
  PROVE  ServedInv'
<1>Strangers. ASSUME NEW t \in Threads,
                    \/ ProvisionLookup(t)
                    \/ HasVersion(t)
                    \/ UpgradeFromCall(t)
                    \/ Reconcile(t)
                    \/ Provision(t)
                    \/ Upgrade(t)
             PROVE  ServedInv'
  <2>1. rec' = rec /\ ctr' = ctr /\ route' = route /\ tomb' = tomb
    BY <1>Strangers
    DEF ProvisionLookup, HasVersion, UpgradeFromCall, Reconcile, Provision, Upgrade, host
  <2>2. CASE Provision(t) \/ Upgrade(t)
    <3>1. PICK l \in {"lookup", "upgradeImage"}, r \in Requests :
            th' = [th EXCEPT ![t].pc = l, ![t].req = r]
      BY <2>2 DEF Provision, Upgrade
    <3>2. OnlyMoves(t) /\ th'[t].pc = l
      BY <3>1 DEF OnlyMoves, TypeInv, TypeOK, ThreadType
    <3> QED BY <2>1, <3>2, Silent, ServedStays DEF SilentLabels, AskingLabels
  <2>3. CASE HasVersion(t)
    <3>1. ClaimLabel[th[t].pc] \in {"claim", "upgradeClaim", "redeployClaim"}
      BY <2>3 DEF HasVersion, ClaimLabel
    <3>2. Done(t) \/ (\E l \in SilentLabels : Go(t, l))
      BY <2>3, <3>1 DEF HasVersion, SilentLabels, AskingLabels
    <3> QED BY <2>1, <3>2, GoKeeps, ReturnServed, Silent, ServedStays
  <2>4. CASE ProvisionLookup(t) \/ UpgradeFromCall(t) \/ Reconcile(t)
    <3>1. Done(t) \/ (\E l \in SilentLabels : Go(t, l))
      BY <2>4
      DEF ProvisionLookup, UpgradeFromCall, Reconcile, SilentLabels, AskingLabels
    <3> QED BY <2>1, <3>1, GoKeeps, ReturnServed, Silent, ServedStays
  <2> QED BY <1>Strangers, <2>2, <2>3, <2>4
<1>DeployDomains. ASSUME NEW t \in Threads, DeployDomains(t) PROVE ServedInv'
  <2>1. rec' = rec /\ ctr' = ctr /\ route' = route /\ tomb' = tomb
    BY <1>DeployDomains DEF DeployDomains, host
  <2>2. CASE Renames(rec) /\ GoWith(t, "applyDomains", rec)
    <3>1. OnlyMoves(t) /\ th'[t].pc = "applyDomains" /\ th'[t].svc = rec
      BY <2>2, GoWithKeeps
    <3>2. ThreadServed(t)'
      BY <2>2, <3>1
      DEF ThreadServed, At, QuietedLabels, SwitchedLabels, BeforeWait, Awaits, CheckLabels,
          Renames
    <3> QED BY <2>1, <3>1, <3>2, ServedStays
  <2> QED BY <1>DeployDomains, <2>1, <2>2, ReturnServed DEF DeployDomains
<1>ProvisionClaim. ASSUME NEW t \in Threads, ProvisionClaim(t) PROVE ServedInv'
  <2> DEFINE r == th[t].req
             again == [rec EXCEPT !.phase = "provisioning", !.op = "provision",
                                  !.tgt = "blue", !.tver = r.ver]
  <2>1. ctr' = ctr /\ route' = route /\ tomb' = tomb
    BY <1>ProvisionClaim DEF ProvisionClaim, host
  <2>2. CASE rec = NoRec /\ Claims(t, "storage", r, FreshRecord(r), 0)
    <3>0. rec' = FreshRecord(r)
      BY <2>2 DEF Claims
    <3>1. /\ FreshRecord(r).phase = "provisioning"
          /\ rec'.state = "active" /\ rec'.op = "provision"
          /\ rec'.live = "blue" /\ rec'.tgt = "blue"
      BY <3>0 DEF FreshRecord
    <3>2. tomb = "none" => ctr["green"] = NoCtr
      BY <2>2, ServedFacts, SlotNames DEF RecordServed
    <3>3. tomb = "none" => SlotsOK'
      BY <2>1, <3>1, <3>2, NoCtrFacts DEF SlotsOK, NotRunning
    <3>4. ~Taken(rec)
      BY <2>2, NoRecFacts
    <3> DEFINE f == FreshRecord(r)
    <3>5. Claims(t, "storage", r, f, 0) /\ f.phase \in Busy
      BY <2>2, <3>1 DEF Busy
    <3> HIDE DEF f, r
    <3> QED BY <2>1, <3>3, <3>4, <3>5, ClaimServed
  <2>3. CASE rec # NoRec /\ ProvisionRetries(rec, r) /\ Claims(t, "storage", r, again, 0)
    <3>0. rec' = again
      BY <2>3 DEF Claims
    <3>1. /\ again.phase = "provisioning" /\ rec'.phase = "provisioning"
          /\ rec'.state = rec.state /\ rec'.op = "provision"
          /\ rec'.live = rec.live /\ rec'.tgt = "blue"
      BY <3>0, LiveFacts DEF RecType
    <3>2. ~Taken(rec) /\ rec.phase # "provisioning"
      BY <2>3 DEF ProvisionRetries, Taken, Busy
    <3>3. tomb = "none" => rec.op = "provision"
      BY <1>ProvisionClaim, <2>3, <3>1, <3>2 DEF OnlyRetries
    <3>4. tomb = "none" => SlotsOK'
      BY <2>1, <3>1, <3>3, ServedFacts DEF SlotsOK, NotRunning
    <3>5. again.phase \in Busy
      BY <3>1 DEF Busy
    <3> HIDE DEF again, r
    <3> QED BY <2>1, <2>3, <3>2, <3>4, <3>5, ClaimServed
  <2>4. CASE Done(t) /\ UNCHANGED rec
    BY <2>1, <2>4, ReturnServed
  <2> QED BY <1>ProvisionClaim, <2>2, <2>3, <2>4 DEF ProvisionClaim, PutFails
<1>UpgradeClaim. ASSUME NEW t \in Threads, UpgradeClaim(t) PROVE ServedInv'
  <2> DEFINE r == th[t].req
             u == UpgradeRecord(rec, r)
  <2>1. ctr' = ctr /\ route' = route /\ tomb' = tomb /\ r \in RequestType
    BY <1>UpgradeClaim, CopyType DEF UpgradeClaim, host
  <2>2. CASE UpgradeAllowed(rec, r) /\ Claims(t, "isolate", r, u, health.seq + 1)
    <3>1. rec' = u
      BY <2>2 DEF Claims
    <3>2. ~Taken(rec)
      BY <2>2 DEF UpgradeAllowed, Replaceable, Taken
    <3>3. tomb = "none" => SlotsOK' /\ u.phase \in Busy
      BY <2>1, <2>2, <3>1, ServedFacts, UpgradeSlots
    <3> HIDE DEF u
    <3> QED BY <2>1, <2>2, <3>2, <3>3, ClaimServed
  <2>3. CASE Done(t) /\ UNCHANGED rec
    BY <2>1, <2>3, ReturnServed
  <2> QED BY <1>UpgradeClaim, <2>2, <2>3 DEF UpgradeClaim, PutFails
<1>Resume. ASSUME NEW t \in Threads, Resume(t) \/ ResumeFromCall(t) PROVE ServedInv'
  <2>1. ctr' = ctr /\ route' = route /\ tomb' = tomb
    BY <1>Resume DEF Resume, ResumeFromCall, host
  <2>2. ASSUME NEW r, ResumeClaim(t, r) PROVE ServedInv'
    <3> DEFINE s == [rec EXCEPT !.phase = "starting", !.op = "resume",
                                !.tgt = Opposite(rec.live), !.tver = rec.ver,
                                !.tdom = NoDomain]
    <3>1. /\ Claims(t, "isolate", r, s, health.seq + 1) /\ ~Taken(rec)
          /\ rec.state \in {"suspended", "terminated"}
      BY <2>2 DEF ResumeClaim, Resumable, Taken
    <3>0. rec' = s
      BY <3>1 DEF Claims
    <3>2. /\ s.phase = "starting" /\ s.op = "resume" /\ s.state = rec.state
          /\ s.live = rec.live /\ s.tgt = Opposite(rec.live)
      BY LiveFacts DEF RecType
    <3>3. tomb = "none" => SlotsOK'
      BY <2>1, <3>0, <3>1, <3>2, ServedFacts DEF SlotsOK, NotRunning
    <3>4. s.phase \in Busy
      BY <3>2 DEF Busy
    <3> HIDE DEF s
    <3> QED BY <2>1, <3>1, <3>3, <3>4, ClaimServed
  <2>3. ASSUME NEW r, ResumeRedeploys(t, r) PROVE ServedInv'
    <3>1. OnlyMoves(t) /\ th'[t].pc = "upgrade" /\ rec' = rec
      BY <2>3 DEF ResumeRedeploys, OnlyMoves, TypeInv, TypeOK, ThreadType
    <3> QED BY <2>1, <3>1, Silent, ServedStays DEF SilentLabels, AskingLabels
  <2>4. CASE Done(t) /\ UNCHANGED rec
    BY <2>1, <2>4, ReturnServed
  <2> QED BY <1>Resume, <2>2, <2>3, <2>4 DEF Resume, ResumeFromCall, PutFails
<1>ChangeState. ASSUME NEW t \in Threads, ChangeState(t) PROVE ServedInv'
  <2>1. PICK r \in Requests :
          /\ r.kind \in {"suspend", "terminate"}
          /\ StateChangeAllowed(rec, TargetState[r.kind])
          /\ Claims(t, "stop", r, [rec EXCEPT !.phase = "stopping", !.tdom = NoDomain,
                                              !.op = TargetState[r.kind]], 0)
    BY <1>ChangeState DEF ChangeState
  <2> DEFINE x == TargetState[r.kind]
             s == [rec EXCEPT !.phase = "stopping", !.tdom = NoDomain, !.op = x]
  <2>2. ~Taken(rec) /\ x \in StateChanges /\ Claims(t, "stop", r, s, 0)
    BY <2>1 DEF StateChangeAllowed, Replaceable, Taken, TargetState, StateChanges
  <2>3. ctr' = ctr /\ route' = route /\ tomb' = tomb
    BY <1>ChangeState DEF ChangeState, host
  <2> HIDE DEF x
  <2>0. rec' = s
    BY <2>2 DEF Claims
  <2>4. s.phase = "stopping" /\ s.op = x /\ s.state = rec.state /\ s.live = rec.live
    BY LiveFacts DEF RecType
  <2>5. tomb = "none" => SlotsOK'
    BY <2>0, <2>2, <2>3, <2>4, ServedFacts DEF SlotsOK, NotRunning, StateChanges
  <2>6. s.phase \in Busy
    BY <2>4 DEF Busy
  <2> HIDE DEF s
  <2> QED BY <2>2, <2>3, <2>5, <2>6, ClaimServed
<1>Delete. ASSUME NEW t \in Threads, Delete(t) PROVE ServedInv'
  <2> DEFINE s == [rec EXCEPT !.phase = "deleting", !.op = "delete"]
  <2>1. CASE tomb' # "none"
    BY <2>1 DEF ServedInv
  <2>2. CASE tomb' = "none"
    <3>1. PICK r \in Requests : Deletable(rec) /\ Claims(t, "wipe", r, s, 0)
      BY <1>Delete, <2>2 DEF Delete
    <3>2. ctr' = ctr /\ route' = route /\ tomb' = tomb
      BY <1>Delete, <2>2 DEF Delete, host
    <3>3. ~Taken(rec)
      BY <3>1 DEF Deletable, Taken
    <3>0. rec' = s
      BY <3>1 DEF Claims
    <3>4. /\ s.phase = "deleting" /\ s.op = "delete" /\ s.state = rec.state
          /\ s.live = rec.live
      BY LiveFacts DEF RecType
    <3>5. tomb = "none" => SlotsOK'
      BY <3>0, <3>2, <3>4, ServedFacts DEF SlotsOK, NotRunning
    <3>6. s.phase \in Busy
      BY <3>4 DEF Busy
    <3> HIDE DEF s
    <3> QED BY <3>1, <3>2, <3>3, <3>5, <3>6, ClaimServed
  <2> QED BY <2>1, <2>2
<1>RedeployTerminated. ASSUME NEW t \in Threads, RedeployTerminated(t) PROVE ServedInv'
  <2>1. ctr' = ctr /\ route' = route /\ tomb' = tomb
    BY <1>RedeployTerminated DEF RedeployTerminated, host
  <2>2. CASE /\ rec.state = "terminated" /\ rec.phase = "stopped"
             /\ Puts([rec EXCEPT !.dom = th[t].req.dom, !.ver = th[t].req.ver])
             /\ Go(t, "resume")
    <3> DEFINE x == th[t].req.dom
               y == th[t].req.ver
    <3>1. rec' = [rec EXCEPT !.dom = x, !.ver = y]
      BY <2>2 DEF Puts
    <3> HIDE DEF x, y
    <3>2. /\ rec'.state = "terminated" /\ rec'.phase = "stopped" /\ rec'.op = rec.op
          /\ rec'.state = rec.state
          /\ rec'.live = rec.live /\ rec'.tgt = rec.tgt
      BY <2>2, <3>1, LiveFacts DEF RecType
    <3>3. ASSUME tomb = "none" PROVE RecordServed'
      <4>1. SlotsOK'
        BY <2>1, <3>2, <3>3, ServedFacts, SlotsFrom DEF NotRunning
      <4>2. route = NoRoute /\ (\A c \in Slots : ctr[c] = NoCtr) /\ rec.op = ""
        BY <2>2, <3>3, ServedFacts
      <4>3. StoppedIsQuiet'
        BY <2>1, <3>2, <4>2 DEF StoppedIsQuiet
      <4>4. RoutedByName'
        BY <2>1, <4>2 DEF RoutedByName
      <4> QED BY <2>1, <3>2, <4>1, <4>2, <4>3, <4>4 DEF RecordServed, RunningIsServed
    <3>4. OnlyMoves(t) /\ th'[t].pc = "resume"
      BY <2>2, GoKeeps
    <3>5. CtrKept /\ ~Taken(rec)
      BY <2>1, <2>2 DEF CtrKept, Taken, Busy
    <3> QED BY <2>1, <3>3, <3>4, <3>5, Silent, ServedFrom DEF SilentLabels, AskingLabels
  <2>3. CASE Done(t) /\ UNCHANGED rec
    BY <2>1, <2>3, ReturnServed
  <2> QED BY <1>RedeployTerminated, <2>2, <2>3 DEF RedeployTerminated, PutFails
<1>ApplyDomains. ASSUME NEW t \in Threads, ApplyDomains(t) PROVE ServedInv'
  <2> DEFINE d == th[t].req.dom
  <2>1. Done(t) /\ ctr' = ctr /\ tomb' = tomb /\ At(t, "applyDomains")
    BY <1>ApplyDomains DEF ApplyDomains
  <2>2. CASE rec' = rec /\ route' = route
    BY <2>1, <2>2, ReturnServed
  <2>3. ASSUME UnchangedSince(th[t].svc), route' \in {route, RenamedRoute(t)},
               rec' = rec \/ rec' = [rec EXCEPT !.dom = d],
               RouteKept => route' = RenamedRoute(t) /\ rec' = [rec EXCEPT !.dom = d]
        PROVE  ServedInv'
    <3>1. tomb = "none" => RouteMay(t)
      BY <2>1, <2>3, RouteMayFacts
    <3>2. rec.phase \in {"running", "stopped"}
      BY <2>1, <2>3 DEF UnchangedSince, TypeInv, LocalOK, At
    <3>3. ~Taken(rec) /\ CtrKept
      BY <2>1, <3>2 DEF Taken, Busy, CtrKept
    <3> HIDE DEF d
    <3>4. /\ rec'.state = rec.state /\ rec'.phase = rec.phase /\ rec'.op = rec.op
          /\ rec'.live = rec.live /\ rec'.tgt = rec.tgt
      BY <2>3, LiveFacts DEF RecType
    <3>5. rec' = [rec EXCEPT !.dom = d] => rec'.dom = d
      BY LiveFacts DEF RecType
    <3>6. ASSUME tomb = "none" PROVE RecordServed'
      <4>1. SlotsOK'
        BY <2>1, <3>4, <3>6, ServedFacts, SlotsFrom DEF NotRunning
      <4>2. rec'.op = "" /\ rec' # NoRec
        BY <3>2, <3>4, <3>6, ServedFacts, NoRecFacts
      <4>3. route'.mode = route.mode /\ (route.mode = "proxy" => route'.slot = rec.live)
        BY <2>3, <3>1, <3>2, <3>6, RouteMayKeeps
      <4>4. RunningIsServed'
        BY <2>1, <3>4, <3>6, <4>3, ServedFacts DEF RunningIsServed, Serves, NotRunning
      <4>5. StoppedIsQuiet'
        <5>1. rec.phase = "stopped" => rec.state = "suspended"
          BY <3>1, <3>6 DEF RouteMay, Renames
        <5> QED BY <2>1, <3>4, <3>6, <4>3, <5>1, ServedFacts DEF StoppedIsQuiet, NotRunning
      <4>6. RouteKept => RoutedByName'
        <5> SUFFICES ASSUME RouteKept PROVE route'.dom = d /\ rec'.dom = d
          BY DEF RoutedByName
        <5>1. route # NoRoute /\ route.dom = rec.dom
          BY <3>1, <3>2, <3>6, ServedFacts, RouteFacts DEF RouteMay, Renames, RoutedByName
        <5> QED BY <2>3, <3>5, <5>1, RouteFacts DEF RenamedRoute, d
      <4> QED BY <4>1, <4>2, <4>4, <4>5, <4>6 DEF RecordServed
    <3> QED BY <2>1, <3>3, <3>6, DoneForgets, Silent, ServedFrom DEF SilentLabels
  <2>4. CASE UnchangedSince(th[t].svc) /\ route' = RenamedRoute(t) /\ rec' = [rec EXCEPT !.dom = d]
    BY <2>3, <2>4
  <2>5. CASE UnchangedSince(th[t].svc) /\ PutFails /\ "caddy" \in Faults
             /\ route' = RenamedRoute(t)
    <3>1. ~RouteKept /\ rec' = rec
      BY <2>5 DEF RouteKept, PutFails, Fault
    <3> QED BY <2>3, <2>5, <3>1
  <2> QED BY <1>ApplyDomains, <2>2, <2>4, <2>5 DEF ApplyDomains, Puts, PutFails
<1>Prepare. ASSUME NEW t \in Threads, PrepareStorage(t) \/ EnsureIsolation(t) PROVE ServedInv'
  <2>1. /\ rec' = rec /\ ctr' = ctr /\ route' = route /\ tomb' = tomb
        /\ Holding(t) /\ th[t].pc \in {"storage", "isolate"}
    BY <1>Prepare DEF PrepareStorage, EnsureIsolation, host, At, Holding, HoldingLabels
  <2>2. ASSUME NEW l \in {"start", "restore", "removeTarget"}, Go(t, l), tomb = "none"
        PROVE  ThreadServed(t)'
    <3>1. th'[t].pc = l /\ th'[t].passed = th[t].passed /\ ~th[t].passed
      BY <2>1, <2>2, GoKeeps DEF ServedInv, ThreadServed, BeforeWait
    <3> QED BY <3>1
            DEF ThreadServed, At, QuietedLabels, SwitchedLabels, Awaits, CheckLabels
  <2>3. ASSUME Go(t, "failing"), tomb = "none" PROVE ThreadServed(t)'
    BY <2>1, <2>3, FailingServed DEF NotRunning
  <2>4. PICK l \in {"start", "restore", "removeTarget", "failing"} : Go(t, l)
    BY <1>Prepare DEF PrepareStorage, EnsureIsolation, Fails
  <2> QED BY <2>1, <2>2, <2>3, <2>4, GoKeeps, ServedStays
<1>RestoreLiveRoute. ASSUME NEW t \in Threads, RestoreLiveRoute(t) PROVE ServedInv'
  <2>1. /\ rec' = rec /\ ctr' = ctr /\ tomb' = tomb
        /\ Holding(t) /\ th[t].pc = "restore"
    BY <1>RestoreLiveRoute DEF RestoreLiveRoute, At, Holding, HoldingLabels
  <2>2. ASSUME Go(t, "removeTarget"), tomb = "none" PROVE ThreadServed(t)'
    <3>1. th'[t].pc = "removeTarget" /\ ~th'[t].passed
      BY <2>1, <2>2, GoKeeps DEF ServedInv, ThreadServed, BeforeWait
    <3> QED BY <3>1
            DEF ThreadServed, At, QuietedLabels, SwitchedLabels, Awaits, CheckLabels
  <2>3. ASSUME Go(t, "failing"), tomb = "none" PROVE ThreadServed(t)'
    BY <2>1, <2>3, FailingServed DEF NotRunning
  <2>4. PICK l \in {"removeTarget", "failing"} : Go(t, l)
    BY <1>RestoreLiveRoute DEF RestoreLiveRoute, Fails
  <2>5. \A s \in Slots : NotRunning(s) => NotRunning(s)'
    BY <2>1 DEF NotRunning
  <2> QED BY <2>1, <2>2, <2>3, <2>4, <2>5, GoKeeps, HolderServed
<1>RemoveTarget. ASSUME NEW t \in Threads, RemoveTarget(t) PROVE ServedInv'
  <2>1. /\ rec' = rec /\ tomb' = tomb /\ Holding(t) /\ th[t].pc = "removeTarget"
    BY <1>RemoveTarget DEF RemoveTarget, At, Holding, HoldingLabels
  <2>2. \A s \in Slots : NotRunning(s) => NotRunning(s)'
    <3>1. CASE ctr' = ctr
      BY <3>1 DEF NotRunning
    <3>2. CASE ctr' = [ctr EXCEPT ![th[t].svc.tgt] = NoCtr]
      BY <3>2, RemoveFacts
    <3>3. CASE HalfRemove({th[t].svc.tgt})
      <4>1. {th[t].svc.tgt} \in SUBSET Slots
        BY <2>1 DEF TypeInv, LocalOK, TargetLabels
      <4> QED BY <3>3, <4>1, HalfFacts
    <3> QED BY <1>RemoveTarget, <3>1, <3>2, <3>3 DEF RemoveTarget
  <2>3. ASSUME Go(t, "start"), tomb = "none" PROVE ThreadServed(t)'
    <3>1. th'[t].pc = "start" /\ ~th'[t].passed
      BY <2>1, <2>3, GoKeeps DEF ServedInv, ThreadServed, BeforeWait
    <3> QED BY <3>1
            DEF ThreadServed, At, QuietedLabels, SwitchedLabels, Awaits, CheckLabels
  <2>4. ASSUME Go(t, "failing"), tomb = "none" PROVE ThreadServed(t)'
    BY <2>1, <2>2, <2>4, LiveFacts, FailingServed
  <2>5. PICK l \in {"start", "failing"} : Go(t, l)
    BY <1>RemoveTarget DEF RemoveTarget, Fails
  <2> QED BY <2>1, <2>2, <2>3, <2>4, <2>5, GoKeeps, HolderServed
<1>StartSlot. ASSUME NEW t \in Threads, StartSlot(t) PROVE ServedInv'
  <2> DEFINE s == th[t].svc.tgt
  <2>1. /\ rec' = rec /\ tomb' = tomb /\ Holding(t) /\ th[t].pc = "start"
    BY <1>StartSlot DEF StartSlot, At, Holding, HoldingLabels
  <2>2. s \in Slots
    BY <2>1 DEF TypeInv, LocalOK, TargetLabels
  <2>3. /\ \A c \in Slots \ {s} : ctr'[c] = ctr[c]
        /\ \/ Go(t, "putWaiting") /\ ctr'[s].up = "running"
           \/ Go(t, "failing")
    <3> DEFINE new == IF ctr[s].up = "absent" THEN th[t].svc.tver ELSE ctr[s].ver
    <3> HIDE DEF new, s
    <3>1. ASSUME NEW up, ctr' = [ctr EXCEPT ![s] = [up |-> up, ver |-> new, ok |-> FALSE]]
          PROVE  ctr'[s].up = up /\ \A c \in Slots \ {s} : ctr'[c] = ctr[c]
      BY <2>2, <3>1, LiveFacts
    <3> QED BY <1>StartSlot, <3>1 DEF StartSlot, Fails, new, s
  <2> HIDE DEF s
  <2>4. ASSUME tomb = "none"
        PROVE  SlotsOK' /\ Taken(rec)
    <3>1. /\ th[t].svc = rec /\ Taken(rec) /\ SlotsOK /\ rec.live \in Slots
          /\ rec.state = "active" \/ (rec.op = "resume" /\ rec.tgt # rec.live)
          /\ rec.op = "provision" => rec.tgt = "blue"
      BY <2>1, <2>4, TargetFacts DEF TargetLabels
    <3>2. s = rec.tgt
      BY <3>1 DEF s
    <3>3. "green" \in Slots /\ "green" # "blue"
      BY SlotNames
    <3> QED BY <2>1, <2>3, <3>1, <3>2, <3>3 DEF SlotsOK, NotRunning
  <2>5. ASSUME Go(t, "putWaiting"), ctr'[s].up = "running", tomb = "none"
        PROVE  ThreadServed(t)'
    <3>1. th'[t].pc = "putWaiting" /\ ~th'[t].passed /\ th'[t].svc.tgt = s
      BY <2>1, <2>5, GoKeeps DEF ServedInv, ThreadServed, BeforeWait, s
    <3> QED BY <2>5, <3>1
            DEF ThreadServed, At, QuietedLabels, SwitchedLabels, Awaits, CheckLabels
  <2>6. ASSUME Go(t, "failing"), tomb = "none" PROVE ThreadServed(t)'
    <3>1. th'[t].pc = "failing" /\ th'[t].svc = rec /\ SlotsOK'
      BY <2>1, <2>4, <2>6, GoKeeps, HeldIsCurrent
    <3> QED BY <2>1, <3>1
            DEF ThreadServed, At, QuietedLabels, SwitchedLabels, BeforeWait, Awaits,
                CheckLabels, SlotsOK, NotRunning
  <2>7. OnlyMoves(t) /\ (tomb = "none" => ThreadServed(t)')
    BY <2>3, <2>5, <2>6, GoKeeps
  <2>8. tomb = "none" => RecordServed'
    BY <2>1, <2>4, RecordServedBusy DEF Taken
  <2> QED BY <2>1, <2>7, <2>8, ServedFrom
<1>PutWaiting. ASSUME NEW t \in Threads, PutWaiting(t) PROVE ServedInv'
  <2> DEFINE s == [th[t].svc EXCEPT !.phase = "waiting_for_health"]
             a == IF th[t].att = 0 THEN health.seq + 1 ELSE th[t].att
  <2>1. /\ ctr' = ctr /\ route' = route /\ tomb' = tomb
        /\ Holding(t) /\ th[t].pc = "putWaiting" /\ th[t].pc \in TargetLabels
    BY <1>PutWaiting DEF PutWaiting, host, At, Holding, HoldingLabels, TargetLabels
  <2>2. CASE PutFails /\ Go(t, "failing")
    BY <2>1, <2>2, GoKeeps, FailingServed, ServedStays DEF PutFails, NotRunning
  <2>3. CASE rec' = s /\ th' = [th EXCEPT ![t].pc = "health", ![t].svc = s, ![t].att = a]
    <3>1. /\ OnlyMoves(t) /\ th'[t].pc = "health" /\ th'[t].svc = s
          /\ th'[t].passed = th[t].passed
      BY <2>3 DEF OnlyMoves, TypeInv, TypeOK, ThreadType
    <3>2. /\ s.phase = "waiting_for_health" /\ s.state = th[t].svc.state
          /\ s.op = th[t].svc.op /\ s.live = th[t].svc.live /\ s.tgt = th[t].svc.tgt
      BY CopyType DEF RecType
    <3> HIDE DEF s
    <3>3. ASSUME tomb = "none" PROVE RecordServed'
      <4>1. th[t].svc = rec /\ SlotsOK
        BY <2>1, <3>3, TargetFacts
      <4>2. SlotsOK'
        BY <2>1, <2>3, <3>2, <4>1, SlotsFrom DEF NotRunning
      <4> QED BY <2>3, <3>2, <4>2, RecordServedBusy DEF Busy
    <3>4. ASSUME tomb = "none" PROVE ThreadServed(t)'
      <4>1. ctr[th[t].svc.tgt].up = "running" /\ ~th[t].passed
        BY <2>1, <3>4 DEF ServedInv, ThreadServed, At, BeforeWait
      <4> QED BY <2>1, <3>1, <3>2, <4>1 DEF ThreadServed, At, QuietedLabels, SwitchedLabels
    <3> QED BY <2>1, <3>1, <3>3, <3>4, ServedFrom
  <2> QED BY <1>PutWaiting, <2>2, <2>3 DEF PutWaiting, Puts
<1>CheckHealth. ASSUME NEW t \in Threads, CheckHealth(t) PROVE ServedInv'
  <2> DEFINE s == th[t].svc.tgt
  <2>1. /\ th[t].pc = "health" /\ health' = health /\ rec' = rec /\ route' = route
        /\ tomb' = tomb
    BY <1>CheckHealth DEF CheckHealth, At
  <2>2. s \in Slots
    BY <2>1 DEF TypeInv, LocalOK, TargetLabels
  <2>3. CASE ctr' = ctr /\ Go(t, "verdict")
    <3>1. /\ OnlyMoves(t) /\ th'[t].pc = "verdict" /\ th'[t].svc = th[t].svc
          /\ th'[t].att = th[t].att /\ th'[t].passed = th[t].passed
      BY <2>3, GoKeeps
    <3>2. Awaits(t)' => Awaits(t)
      BY <2>1, <3>1 DEF Awaits, CheckLabels
    <3>3. tomb = "none" => ThreadServed(t)'
      BY <2>1, <2>3, <3>1, <3>2
      DEF ServedInv, ThreadServed, At, QuietedLabels, SwitchedLabels, BeforeWait
    <3> QED BY <2>1, <2>3, <3>1, <3>3, ServedStays
  <2>4. CASE /\ ctr[s].up = "running" /\ ctr' = [ctr EXCEPT ![s].ok = TRUE]
             /\ th' = [th EXCEPT ![t].pc = "verdict", ![t].passed = TRUE]
    <3>1. /\ OnlyMoves(t) /\ th'[t].pc = "verdict" /\ th'[t].svc = th[t].svc
          /\ th'[t].att = th[t].att
      BY <2>4 DEF OnlyMoves, TypeInv, TypeOK, ThreadType
    <3> HIDE DEF s
    <3>2. /\ \A c \in Slots \ {s} : ctr'[c] = ctr[c]
          /\ ctr'[s] = [ctr[s] EXCEPT !.ok = TRUE]
      BY <2>2, <2>4, LiveFacts
    <3>3. CtrKept
      BY <2>4, <3>2 DEF CtrKept
    <3>4. ctr[s] \in CtrType
      BY <2>2, LiveFacts
    <3>5. ctr'[s].ok
      BY <3>2, <3>4, Zenon DEF CtrType
    <3>6. ctr'[s].up = "running"
      BY <2>2, <2>4, <3>3, KeptFacts
    <3>7. ThreadServed(t)'
      BY <3>1, <3>5, <3>6
      DEF ThreadServed, At, QuietedLabels, SwitchedLabels, BeforeWait, s
    <3>8. tomb = "none" => RecordServed'
      BY <2>1, <3>3, ServedFacts, RecordServedKept
    <3> QED BY <2>1, <3>1, <3>3, <3>7, <3>8, ServedFrom
  <2> QED BY <1>CheckHealth, <2>3, <2>4 DEF CheckHealth
<1>HealthVerdict. ASSUME NEW t \in Threads, HealthVerdict(t) PROVE ServedInv'
  <2>1. /\ th[t].pc = "verdict" /\ tomb' = tomb /\ ctr' = ctr /\ route' = route
    BY <1>HealthVerdict DEF HealthVerdict, At, host
  <2>2. CASE Done(t) /\ UNCHANGED rec
    BY <2>1, <2>2, ReturnServed
  <2>3. CASE VerdictApplies(t) /\ Done(t) /\ rec' = [rec EXCEPT !.phase = "failed"]
    <3>1. /\ rec'.phase = "failed" /\ rec'.state = rec.state /\ rec'.op = rec.op
          /\ rec'.live = rec.live /\ rec'.tgt = rec.tgt
      BY <2>3, LiveFacts DEF RecType
    <3>2. tomb = "none" => RecordServed'
      BY <2>1, <3>1, ServedFacts, SlotsFrom, RecordServedBusy DEF NotRunning
    <3>3. CtrKept /\ ~Taken(rec)
      BY <2>1, <2>3 DEF CtrKept, VerdictApplies, Taken
    <3> QED BY <2>1, <2>3, <3>2, <3>3, DoneForgets, Silent, ServedFrom DEF SilentLabels
  <2>4. CASE /\ VerdictApplies(t) /\ th[t].passed
             /\ rec' = [rec EXCEPT !.phase = "routing"]
             /\ GoWith(t, "route", [rec EXCEPT !.phase = "routing"])
    <3> DEFINE n == [rec EXCEPT !.phase = "routing"]
    <3>1. /\ n.phase = "routing" /\ n.state = rec.state /\ n.op = rec.op
          /\ n.live = rec.live /\ n.tgt = rec.tgt
      BY LiveFacts DEF RecType
    <3>2. rec' = n /\ GoWith(t, "route", n)
      BY <2>4
    <3> HIDE DEF n
    <3>3. OnlyMoves(t) /\ th'[t].pc = "route" /\ th'[t].svc = n
      BY <3>2, GoWithKeeps
    <3>4. Awaits(t)
      BY <2>1, <2>4 DEF Awaits, CheckLabels, VerdictApplies, CurrentAttempt
    <3>5. tomb = "none" => Serves(rec.tgt)
      BY <2>4, <3>4 DEF ServedInv, ThreadServed, AttemptInv, CurrentOK, Serves
    <3>6. tomb = "none" => ThreadServed(t)'
      BY <2>1, <3>1, <3>3, <3>5
      DEF ThreadServed, At, QuietedLabels, SwitchedLabels, BeforeWait, Awaits, CheckLabels, Serves
    <3>7. tomb = "none" => RecordServed'
      BY <2>1, <3>1, <3>2, ServedFacts, SlotsFrom, RecordServedBusy DEF NotRunning, Busy
    <3>8. CtrKept /\ ~Taken(rec)
      BY <2>1, <2>4 DEF CtrKept, VerdictApplies, Taken
    <3> QED BY <2>1, <3>3, <3>6, <3>7, <3>8, ServedFrom
  <2> QED BY <1>HealthVerdict, <2>2, <2>3, <2>4 DEF HealthVerdict, Puts, PutFails
<1>RouteTarget. ASSUME NEW t \in Threads, RouteTarget(t) PROVE ServedInv'
  <2> DEFINE d == RoutingDomain(th[t].svc)
  <2>1. /\ rec' = rec /\ ctr' = ctr /\ tomb' = tomb
        /\ Holding(t) /\ th[t].pc = "route" /\ th[t].pc \in TargetLabels
    BY <1>RouteTarget DEF RouteTarget, At, Holding, HoldingLabels, TargetLabels
  <2>2. ASSUME Go(t, "failing"), tomb = "none" PROVE ThreadServed(t)'
    BY <2>1, <2>2, FailingServed DEF NotRunning
  <2>3. ASSUME route' = Proxy(th[t].svc.tgt, d), Go(t, AfterRoute[th[t].svc.op]), tomb = "none"
        PROVE  ThreadServed(t)'
    <3>1. /\ th[t].svc = rec /\ rec.op \in Deploys /\ Serves(rec.tgt)
          /\ rec.op = "provision" => NotRunning(Opposite(rec.tgt))
      BY <2>1, <2>3, TargetFacts DEF ThreadServed
    <3>2. th'[t].pc = AfterRoute[rec.op] /\ th'[t].svc = rec
      BY <2>3, <3>1, GoKeeps
    <3>3. /\ AfterRoute[rec.op] \in {"putRunning", "removeOld", "putDraining"}
          /\ AfterRoute[rec.op] = "putRunning" => rec.op = "provision"
      BY <3>1 DEF AfterRoute, Deploys
    <3>4. th'[t].pc = "putRunning" => NotRunning(Opposite(rec.tgt))'
      BY <2>1, <3>1, <3>2, <3>3 DEF NotRunning
    <3> HIDE DEF d
    <3>5. route' = Proxy(rec.tgt, RoutingDomain(rec))
      BY <2>3, <3>1 DEF d
    <3>6. Serves(rec.tgt)'
      BY <2>1, <3>1 DEF Serves
    <3> QED BY <2>1, <3>2, <3>3, <3>4, <3>5, <3>6
            DEF ThreadServed, At, QuietedLabels, BeforeWait, Awaits, CheckLabels, Serves, NotRunning
  <2>4. \A s \in Slots : NotRunning(s) => NotRunning(s)'
    BY <2>1 DEF NotRunning
  <2>5. OnlyMoves(t) /\ (tomb = "none" => ThreadServed(t)')
    BY <1>RouteTarget, <2>2, <2>3, GoKeeps DEF RouteTarget, Fails
  <2> QED BY <2>1, <2>4, <2>5, HolderServed
<1>RemovePreviousSlot. ASSUME NEW t \in Threads, RemovePreviousSlot(t) PROVE ServedInv'
  <2>1. /\ rec' = rec /\ tomb' = tomb /\ route' = route /\ Go(t, "putRunning")
        /\ Holding(t) /\ th[t].pc = "removeOld" /\ th[t].pc \in TargetLabels
        /\ \/ ctr' = ctr
           \/ ctr' = [ctr EXCEPT ![th[t].svc.live] = NoCtr]
           \/ HalfRemove({th[t].svc.live})
    BY <1>RemovePreviousSlot DEF RemovePreviousSlot, At, Holding, HoldingLabels, TargetLabels
  <2>0. {th[t].svc.live} \in SUBSET Slots
    BY CopyType DEF RecType
  <2>2. /\ \A s \in Slots : NotRunning(s) => NotRunning(s)'
        /\ \A s \in Slots \ {th[t].svc.live} : ctr'[s] = ctr[s]
    <3>1. ctr' = ctr \/ ctr' = [ctr EXCEPT ![th[t].svc.live] = NoCtr] =>
            /\ \A s \in Slots : NotRunning(s) => NotRunning(s)'
            /\ \A s \in Slots \ {th[t].svc.live} : ctr'[s] = ctr[s]
      BY RemoveFacts DEF NotRunning
    <3>2. HalfRemove({th[t].svc.live}) =>
            /\ \A s \in Slots : NotRunning(s) => NotRunning(s)'
            /\ \A s \in Slots \ {th[t].svc.live} : ctr'[s] = ctr[s]
      BY <2>0, HalfFacts
    <3> QED BY <2>1, <3>1, <3>2
  <2>3. ASSUME tomb = "none" PROVE ThreadServed(t)'
    <3>1. /\ th[t].svc = rec /\ SlotsOK /\ Serves(rec.tgt) /\ rec.tgt \in Slots
          /\ route = Proxy(rec.tgt, RoutingDomain(rec)) /\ rec.op = "resume"
          /\ rec.tgt # rec.live /\ Opposite(rec.tgt) = rec.live /\ rec.live \in Slots
      BY <2>1, <2>3, TargetFacts DEF ThreadServed, StageOK, SwitchedLabels
    <3>2. ctr'[rec.tgt] = ctr[rec.tgt]
      BY <2>2, <3>1
    <3>3. NotRunning(Opposite(rec.tgt))'
      BY <2>1, <2>2, <3>1 DEF SlotsOK, NotRunning
    <3>4. th'[t].pc = "putRunning" /\ th'[t].svc = rec
      BY <2>1, <3>1, GoKeeps
    <3> QED BY <2>1, <3>1, <3>2, <3>3, <3>4
            DEF ThreadServed, At, QuietedLabels, BeforeWait, Awaits, CheckLabels, Serves, NotRunning
  <2> QED BY <2>1, <2>2, <2>3, GoKeeps, HolderServed
<1>PutDraining. ASSUME NEW t \in Threads, PutDraining(t) PROVE ServedInv'
  <2> DEFINE d == RoutingDomain(th[t].svc)
             s == [th[t].svc EXCEPT !.phase = "draining", !.tdom = NoDomain, !.dom = d]
  <2>1. /\ ctr' = ctr /\ route' = route /\ tomb' = tomb
        /\ Holding(t) /\ th[t].pc = "putDraining" /\ th[t].pc \in TargetLabels
    BY <1>PutDraining DEF PutDraining, host, At, Holding, HoldingLabels, TargetLabels
  <2>2. CASE PutFails /\ Done(t)
    BY <2>1, <2>2, ReturnServed DEF PutFails
  <2>3. CASE rec' = s /\ GoWith(t, "drain", s)
    <3> HIDE DEF d
    <3>1. /\ s.phase = "draining" /\ s.state = th[t].svc.state /\ s.op = th[t].svc.op
          /\ s.live = th[t].svc.live /\ s.tgt = th[t].svc.tgt
          /\ s.dom = d /\ s.tdom = NoDomain
      BY CopyType DEF RecType
    <3> HIDE DEF s
    <3>2. RoutingDomain(s) = RoutingDomain(th[t].svc)
      BY <3>1 DEF RoutingDomain, d
    <3>3. OnlyMoves(t) /\ th'[t].pc = "drain" /\ th'[t].svc = s
      BY <2>3, GoWithKeeps
    <3>4. ASSUME tomb = "none" PROVE RecordServed' /\ ThreadServed(t)'
      <4>1. th[t].svc = rec /\ SlotsOK /\ ThreadServed(t)
        BY <2>1, <3>4, TargetFacts
      <4>2. SlotsOK'
        BY <2>1, <2>3, <3>1, <4>1, SlotsFrom DEF NotRunning
      <4>3. RecordServed'
        BY <2>3, <3>1, <4>2, RecordServedBusy DEF Busy
      <4>4. Serves(th[t].svc.tgt) /\ route = Proxy(th[t].svc.tgt, RoutingDomain(th[t].svc))
        BY <2>1, <4>1 DEF ThreadServed, SwitchedLabels
      <4> QED BY <2>1, <3>1, <3>2, <3>3, <4>3, <4>4
              DEF ThreadServed, At, QuietedLabels, BeforeWait, Awaits, CheckLabels, Serves
    <3> QED BY <2>1, <3>3, <3>4, ServedFrom
  <2> QED BY <1>PutDraining, <2>2, <2>3 DEF PutDraining, Puts
<1>DrainOldDeploy. ASSUME NEW t \in Threads, DrainOldDeploy(t) PROVE ServedInv'
  <2>1. /\ rec' = rec /\ tomb' = tomb /\ route' = route
        /\ Holding(t) /\ th[t].pc = "drain" /\ th[t].pc \in TargetLabels
        /\ \/ ctr' = ctr
           \/ ctr' = [ctr EXCEPT ![th[t].svc.live] = NoCtr]
           \/ HalfRemove({th[t].svc.live})
    BY <1>DrainOldDeploy DEF DrainOldDeploy, At, Holding, HoldingLabels, TargetLabels
  <2>0. {th[t].svc.live} \in SUBSET Slots
    BY CopyType DEF RecType
  <2>2. \A s \in Slots : NotRunning(s) => NotRunning(s)'
    <3>1. ctr' = ctr \/ ctr' = [ctr EXCEPT ![th[t].svc.live] = NoCtr] =>
            \A s \in Slots : NotRunning(s) => NotRunning(s)'
      BY RemoveFacts DEF NotRunning
    <3> QED BY <2>0, <2>1, <3>1, HalfFacts
  <2>3. ASSUME Go(t, "failing"), tomb = "none" PROVE ThreadServed(t)'
    BY <2>1, <2>2, <2>3, LiveFacts, FailingServed
  <2>4. ASSUME Go(t, "putRunning"), ctr' = [ctr EXCEPT ![th[t].svc.live] = NoCtr], tomb = "none"
        PROVE  ThreadServed(t)'
    <3>1. /\ th[t].svc = rec /\ Serves(rec.tgt) /\ rec.tgt \in Slots
          /\ route = Proxy(rec.tgt, RoutingDomain(rec)) /\ rec.op = "upgrade"
          /\ rec.tgt # rec.live /\ Opposite(rec.tgt) = rec.live /\ rec.live \in Slots
      BY <2>1, <2>4, TargetFacts DEF ThreadServed, StageOK, SwitchedLabels
    <3>0. ctr' = [ctr EXCEPT ![rec.live] = NoCtr]
      BY <2>4, <3>1
    <3>2. ctr'[rec.tgt] = ctr[rec.tgt] /\ ctr'[rec.live] = NoCtr
      BY <3>0, <3>1, RemoveFacts
    <3>3. NotRunning(Opposite(rec.tgt))'
      BY <2>1, <3>1, <3>2, NoCtrFacts DEF NotRunning
    <3>4. th'[t].pc = "putRunning" /\ th'[t].svc = rec
      BY <2>4, <3>1, GoKeeps
    <3> QED BY <2>1, <3>1, <3>2, <3>3, <3>4
            DEF ThreadServed, At, QuietedLabels, BeforeWait, Awaits, CheckLabels, Serves, NotRunning
  <2>5. OnlyMoves(t) /\ (tomb = "none" => ThreadServed(t)')
    BY <1>DrainOldDeploy, <2>3, <2>4, GoKeeps DEF DrainOldDeploy, Fails
  <2> QED BY <2>1, <2>2, <2>5, HolderServed
<1>PutRunning. ASSUME NEW t \in Threads, PutRunning(t) PROVE ServedInv'
  <2> DEFINE s == th[t].svc
             d == RoutingDomain(s)
             x == IF s.op = "upgrade" THEN s.state ELSE "active"
             v == IF s.tver # 0 THEN s.tver ELSE s.ver
             g == s.tgt
             n == [s EXCEPT !.state = x, !.phase = "running", !.op = "", !.live = g,
                            !.tgt = "", !.ver = v, !.tver = 0, !.dom = d, !.tdom = NoDomain]
  <2>1. /\ ctr' = ctr /\ route' = route /\ tomb' = tomb /\ Done(t)
        /\ Holding(t) /\ th[t].pc = "putRunning" /\ th[t].pc \in TargetLabels
    BY <1>PutRunning DEF PutRunning, host, At, Holding, HoldingLabels, TargetLabels
  <2>2. CASE PutFails
    BY <2>1, <2>2, ReturnServed DEF PutFails
  <2>3. CASE rec' = n
    <3>1. /\ s \in RecType
      BY CopyType
    <3> HIDE DEF d, x, v, g, s
    <3>2. /\ n.state = x /\ n.phase = "running" /\ n.op = "" /\ n.live = g /\ n.dom = d
      BY <3>1 DEF RecType
    <3> HIDE DEF n
    <3>3. ASSUME tomb = "none" PROVE RecordServed'
      <4>1. /\ s = rec /\ WellFormed(rec) /\ ThreadServed(t)
        BY <2>1, <3>3, TargetFacts DEF s
      <4>0. /\ Serves(g) /\ route = Proxy(g, d) /\ NotRunning(Opposite(g))
        BY <2>1, <4>1 DEF ThreadServed, At, SwitchedLabels, s, d, g
      <4>2. /\ Serves(g) /\ NotRunning(Opposite(g))
            /\ route.mode = "proxy" /\ route.slot = g /\ route.dom = d
        BY <4>0, RouteFacts
      <4>3. x = "active"
        BY <4>1 DEF x, WellFormed
      <4>4. rec' # NoRec
        BY <2>3, <3>2, <4>3, NoRecFacts
      <4>5. RunningIsServed'
        BY <2>1, <2>3, <3>2, <4>2, <4>3 DEF RunningIsServed, Serves, NotRunning
      <4>6. SlotsOK' /\ StoppedIsQuiet' /\ RoutedByName'
        BY <2>1, <2>3, <3>2, <4>2, <4>3 DEF SlotsOK, StoppedIsQuiet, RoutedByName
      <4> QED BY <2>3, <3>2, <4>4, <4>5, <4>6 DEF RecordServed
    <3> QED BY <2>1, <3>3, DoneForgets, Silent, ServedFrom DEF SilentLabels
  <2> QED BY <1>PutRunning, <2>2, <2>3 DEF PutRunning, Puts
<1>RecordFailure. ASSUME NEW t \in Threads, RecordFailure(t) PROVE ServedInv'
  <2> DEFINE s == th[t].svc
             n == [s EXCEPT !.phase = "failed"]
  <2>1. /\ ctr' = ctr /\ route' = route /\ tomb' = tomb /\ Done(t)
        /\ Holding(t) /\ th[t].pc = "failing"
    BY <1>RecordFailure DEF RecordFailure, host, At, Holding, HoldingLabels
  <2>2. CASE PutFails
    BY <2>1, <2>2, ReturnServed DEF PutFails
  <2>3. CASE rec' = n
    <3>1. s \in RecType
      BY CopyType
    <3>2. /\ n.phase = "failed" /\ n.state = s.state /\ n.op = s.op
          /\ n.live = s.live /\ n.tgt = s.tgt
      BY <3>1 DEF RecType
    <3>3. ASSUME tomb = "none" PROVE RecordServed'
      <4> DEFINE a == rec.state
                 b == rec.phase
      <4>1. rec = [s EXCEPT !.state = a, !.phase = b]
        BY <2>1, <3>3 DEF OneWriter, CopyIsCurrent, At
      <4> HIDE DEF a, b
      <4>2. rec.op = s.op /\ rec.live = s.live /\ rec.tgt = s.tgt
        BY <3>1, <4>1 DEF RecType
      <4>3. /\ s.state # "active" => NotRunning(rec.live)
            /\ \/ s.state = rec.state
               \/ rec.phase = "stopping" /\ s.state = rec.op
        BY <2>1, <3>3 DEF ServedInv, ThreadServed, RecordInv, FailureOK, At
      <4>4. SlotsOK /\ (rec.phase = "stopping" => rec.op \in StateChanges)
        <5>1. Taken(rec)
          BY <2>1, <3>3, HeldIsCurrent
        <5> QED BY <3>3, <5>1, ServedFacts, NoRecFacts DEF RecordInv, WellFormed
      <4> HIDE DEF n, s
      <4>5. SlotsOK'
        BY <2>1, <2>3, <3>2, <4>2, <4>3, <4>4 DEF SlotsOK, NotRunning, StateChanges
      <4> QED BY <2>3, <3>2, <4>5, RecordServedBusy
    <3> HIDE DEF n, s
    <3> QED BY <2>1, <3>3, DoneForgets, Silent, ServedFrom DEF SilentLabels
  <2> QED BY <1>RecordFailure, <2>2, <2>3 DEF RecordFailure, Puts
<1>StopContainers. ASSUME NEW t \in Threads, StopContainers(t) PROVE ServedInv'
  <2> DEFINE op == th[t].svc.op
  <2>1. /\ rec' = rec /\ tomb' = tomb /\ Holding(t) /\ th[t].pc = "stop"
        /\ op \in StateChanges
    BY <1>StopContainers
    DEF StopContainers, At, Holding, HoldingLabels, TypeInv, LocalOK, StateLabels, StateChanges
  <2>2. \A s \in Slots : NotRunning(s) => NotRunning(s)'
    <3>1. CASE ctr' = ctr
      BY <3>1 DEF NotRunning
    <3>2. ASSUME NEW slots, StopSlots(slots, op)
          PROVE  \A s \in Slots : NotRunning(s) => NotRunning(s)'
      BY <3>2, StopFacts
    <3>3. HalfRemove(Slots) => \A s \in Slots : NotRunning(s) => NotRunning(s)'
      BY HalfFacts
    <3> QED BY <1>StopContainers, <3>1, <3>2, <3>3 DEF StopContainers
  <2>3. ASSUME Go(t, "failing"), tomb = "none" PROVE ThreadServed(t)'
    BY <2>1, <2>2, <2>3, LiveFacts, FailingServed
  <2>4. ASSUME StopSlots(Slots, op), Go(t, "putTarget") PROVE ThreadServed(t)'
    <3>1. th'[t].pc = "putTarget" /\ th'[t].svc = th[t].svc
      BY <2>4, GoKeeps
    <3>2. \A c \in Slots : NotRunning(c)' /\ (op = "terminated" => ctr'[c] = NoCtr)
      BY <2>4, StopFacts
    <3> QED BY <3>1, <3>2
            DEF ThreadServed, At, SwitchedLabels, BeforeWait, Awaits, CheckLabels
  <2>5. OnlyMoves(t) /\ (tomb = "none" => ThreadServed(t)')
    BY <1>StopContainers, <2>3, <2>4, GoKeeps DEF StopContainers, Fails
  <2> QED BY <2>1, <2>2, <2>5, HolderServed
<1>PutTargetState. ASSUME NEW t \in Threads, PutTargetState(t) PROVE ServedInv'
  <2> DEFINE c == th[t].svc
             s == [c EXCEPT !.state = c.op, !.phase = "routing"]
  <2>1. /\ ctr' = ctr /\ route' = route /\ tomb' = tomb
        /\ Holding(t) /\ th[t].pc = "putTarget" /\ c \in RecType /\ c.op \in StateChanges
    BY <1>PutTargetState, CopyType
    DEF PutTargetState, host, At, Holding, HoldingLabels, TypeInv, LocalOK, StateLabels,
        StateChanges
  <2>2. /\ s.state = c.op /\ s.phase = "routing" /\ s.op = c.op /\ s.live = c.live
    BY <2>1 DEF RecType
  <2>3. tomb = "none" =>
          /\ rec = c
          /\ \A x \in Slots : NotRunning(x) /\ (c.op = "terminated" => ctr[x] = NoCtr)
    BY <2>1, HeldIsCurrent DEF ServedInv, ThreadServed, QuietedLabels
  <2> HIDE DEF s, c
  <2>4. rec.live \in Slots
    BY LiveFacts
  <2>5. CASE rec' = s /\ GoWith(t, "settle", s)
    <3>1. OnlyMoves(t) /\ th'[t].pc = "settle" /\ th'[t].svc = s
      BY <2>5, GoWithKeeps
    <3>2. tomb = "none" => RecordServed'
      <4>1. tomb = "none" => SlotsOK'
        BY <2>1, <2>2, <2>3, <2>4, <2>5 DEF SlotsOK, NotRunning, StateChanges
      <4> QED BY <2>2, <2>5, <4>1, RecordServedBusy DEF Busy
    <3>3. tomb = "none" => ThreadServed(t)'
      BY <2>1, <2>2, <2>3, <3>1
      DEF ThreadServed, At, QuietedLabels, SwitchedLabels, BeforeWait, Awaits, CheckLabels,
          NotRunning
    <3> QED BY <2>1, <3>1, <3>2, <3>3, ServedFrom
  <2>6. CASE rec' = rec /\ GoWith(t, "failing", s)
    <3>1. OnlyMoves(t) /\ th'[t].pc = "failing" /\ th'[t].svc = s
      BY <2>6, GoWithKeeps
    <3>2. tomb = "none" => ThreadServed(t)'
      BY <2>1, <2>3, <2>4, <2>6, <3>1
      DEF ThreadServed, At, QuietedLabels, SwitchedLabels, BeforeWait, Awaits, CheckLabels,
          NotRunning
    <3> QED BY <2>1, <2>6, <3>1, <3>2, ServedStays
  <2> QED BY <1>PutTargetState, <2>5, <2>6 DEF PutTargetState, Puts, PutFails, s, c
<1>FinishRouting. ASSUME NEW t \in Threads, FinishRouting(t) PROVE ServedInv'
  <2>1. /\ rec' = rec /\ ctr' = ctr /\ route' = route /\ tomb' = tomb
        /\ Holding(t) /\ th[t].pc = "settle"
    BY <1>FinishRouting DEF FinishRouting, host, At, Holding, HoldingLabels
  <2>2. CASE Done(t)
    BY <2>1, <2>2, ReturnServed
  <2>3. CASE GoWith(t, "unroute", rec)
    <3>1. OnlyMoves(t) /\ th'[t].pc = "unroute" /\ th'[t].svc = rec
      BY <2>3, GoWithKeeps
    <3>2. ASSUME tomb = "none" PROVE ThreadServed(t)'
      <4>1. /\ th[t].svc = rec
            /\ \A c \in Slots : NotRunning(c) /\ (rec.op = "terminated" => ctr[c] = NoCtr)
        BY <2>1, <3>2, HeldIsCurrent DEF ServedInv, ThreadServed, QuietedLabels
      <4> QED BY <2>1, <3>1, <4>1
              DEF ThreadServed, At, QuietedLabels, SwitchedLabels, BeforeWait, Awaits,
                  CheckLabels, NotRunning
    <3> QED BY <2>1, <3>1, <3>2, ServedStays
  <2> QED BY <1>FinishRouting, <2>2, <2>3 DEF FinishRouting
<1>Unroute. ASSUME NEW t \in Threads, Unroute(t) PROVE ServedInv'
  <2> DEFINE s == th[t].svc
  <2>1. /\ rec' = rec /\ ctr' = ctr /\ tomb' = tomb /\ Holding(t) /\ th[t].pc = "unroute"
    BY <1>Unroute DEF Unroute, At, Holding, HoldingLabels
  <2>2. ASSUME Go(t, "failing"), tomb = "none" PROVE ThreadServed(t)'
    BY <2>1, <2>2, FailingServed DEF NotRunning
  <2>3. ASSUME Go(t, "putStopped"), tomb = "none",
               route' = IF s.op = "suspended" THEN Page(s.dom) ELSE NoRoute
        PROVE  ThreadServed(t)'
    <3>1. th'[t].pc = "putStopped" /\ th'[t].svc = s
      BY <2>3, GoKeeps
    <3>2. \A c \in Slots : NotRunning(c) /\ (s.op = "terminated" => ctr[c] = NoCtr)
      BY <2>1, <2>3 DEF ServedInv, ThreadServed, QuietedLabels
    <3> HIDE DEF s
    <3> QED BY <2>1, <2>3, <3>1, <3>2
            DEF ThreadServed, At, QuietedLabels, SwitchedLabels, BeforeWait, Awaits,
                CheckLabels, NotRunning
  <2>4. \A c \in Slots : NotRunning(c) => NotRunning(c)'
    BY <2>1 DEF NotRunning
  <2>5. OnlyMoves(t) /\ (tomb = "none" => ThreadServed(t)')
    BY <1>Unroute, <2>2, <2>3, GoKeeps DEF Unroute, Fails
  <2> QED BY <2>1, <2>4, <2>5, HolderServed
<1>PutStopped. ASSUME NEW t \in Threads, PutStopped(t) PROVE ServedInv'
  <2> DEFINE c == th[t].svc
             s == [c EXCEPT !.phase = "stopped", !.op = "", !.tgt = "",
                            !.tver = 0, !.tdom = NoDomain]
  <2>1. /\ ctr' = ctr /\ route' = route /\ tomb' = tomb /\ Done(t)
        /\ Holding(t) /\ th[t].pc = "putStopped" /\ c \in RecType /\ c.op \in StateChanges
    BY <1>PutStopped, CopyType
    DEF PutStopped, host, At, Holding, HoldingLabels, TypeInv, LocalOK, StateLabels,
        StateChanges
  <2>2. CASE PutFails
    BY <2>1, <2>2, ReturnServed DEF PutFails
  <2>3. CASE rec' = s
    <3>1. /\ s.phase = "stopped" /\ s.op = "" /\ s.state = c.state /\ s.live = c.live
          /\ s.dom = c.dom
      BY <2>1 DEF RecType
    <3> HIDE DEF s
    <3>2. ASSUME tomb = "none" PROVE RecordServed'
      <4>1. c = rec /\ c.state = c.op
        BY <2>1, <3>2, HeldIsCurrent, HeldIsWellFormed DEF StageOK
      <4>2. /\ \A x \in Slots : NotRunning(x) /\ (c.op = "terminated" => ctr[x] = NoCtr)
            /\ route = IF c.op = "suspended" THEN Page(c.dom) ELSE NoRoute
        BY <2>1, <3>2 DEF ServedInv, ThreadServed, QuietedLabels, At
      <4> HIDE DEF c
      <4>3. rec' # NoRec /\ rec.live \in Slots
        BY <2>3, <3>1, NoRecFacts, LiveFacts
      <4>4. StoppedIsQuiet'
        BY <2>1, <2>3, <3>1, <4>1, <4>2, RouteFacts DEF StoppedIsQuiet, NotRunning, StateChanges
      <4>5. SlotsOK' /\ RunningIsServed'
        BY <2>1, <2>3, <3>1, <4>1, <4>2, <4>3 DEF SlotsOK, RunningIsServed, NotRunning
      <4>6. RoutedByName'
        BY <2>1, <2>3, <3>1, <4>2, RouteFacts DEF RoutedByName
      <4> QED BY <2>3, <3>1, <4>3, <4>4, <4>5, <4>6 DEF RecordServed
    <3> QED BY <2>1, <3>2, DoneForgets, Silent, ServedFrom DEF SilentLabels
  <2> QED BY <1>PutStopped, <2>2, <2>3 DEF PutStopped, Puts
<1>RemoveContainers. ASSUME NEW t \in Threads, RemoveContainers(t) PROVE ServedInv'
  <2>1. /\ rec' = rec /\ tomb' = tomb /\ Holding(t) /\ th[t].pc = "wipe"
    BY <1>RemoveContainers DEF RemoveContainers, At, Holding, HoldingLabels
  <2>2. \A s \in Slots : NotRunning(s) => NotRunning(s)'
    <3>1. ASSUME NEW slots, StopSlots(slots, "delete")
          PROVE  \A s \in Slots : NotRunning(s) => NotRunning(s)'
      BY <3>1, StopFacts
    <3>2. HalfRemove(Slots) => \A s \in Slots : NotRunning(s) => NotRunning(s)'
      BY HalfFacts
    <3> QED BY <1>RemoveContainers, <3>1, <3>2 DEF RemoveContainers
  <2>3. ASSUME Go(t, "failing"), tomb = "none" PROVE ThreadServed(t)'
    BY <2>1, <2>2, <2>3, LiveFacts, FailingServed
  <2>4. Go(t, "failing") \/ Go(t, "unserve")
    BY <1>RemoveContainers DEF RemoveContainers, Fails
  <2> QED BY <2>1, <2>2, <2>3, <2>4, GoKeeps, Silent, HolderServed DEF SilentLabels
<1>RemoveRoute. ASSUME NEW t \in Threads, RemoveRoute(t) PROVE ServedInv'
  <2>1. /\ rec' = rec /\ ctr' = ctr /\ tomb' = tomb /\ Holding(t) /\ th[t].pc = "unserve"
    BY <1>RemoveRoute DEF RemoveRoute, At, Holding, HoldingLabels
  <2>2. \A s \in Slots : NotRunning(s) => NotRunning(s)'
    BY <2>1 DEF NotRunning
  <2>3. ASSUME Go(t, "failing"), tomb = "none" PROVE ThreadServed(t)'
    BY <2>1, <2>2, <2>3, LiveFacts, FailingServed
  <2>4. Go(t, "failing") \/ Go(t, "destroy")
    BY <1>RemoveRoute DEF RemoveRoute, Fails
  <2> QED BY <2>1, <2>2, <2>3, <2>4, GoKeeps, Silent, HolderServed DEF SilentLabels
<1>Destroy. ASSUME NEW t \in Threads, DestroyDataset(t) \/ RemoveMountpoint(t) PROVE ServedInv'
  <2>1. /\ rec' = rec /\ ctr' = ctr /\ route' = route /\ tomb' = tomb
        /\ Holding(t) /\ th[t].pc \in {"destroy", "unmount"}
    BY <1>Destroy DEF DestroyDataset, RemoveMountpoint, At, Holding, HoldingLabels
  <2>2. \A s \in Slots : NotRunning(s) => NotRunning(s)'
    BY <2>1 DEF NotRunning
  <2>3. ASSUME Go(t, "failing"), tomb = "none" PROVE ThreadServed(t)'
    BY <2>1, <2>2, <2>3, LiveFacts, FailingServed
  <2>4. Go(t, "failing") \/ Go(t, "unmount") \/ Go(t, "bury")
    BY <1>Destroy DEF DestroyDataset, RemoveMountpoint, Fails
  <2> QED BY <2>1, <2>2, <2>3, <2>4, GoKeeps, Silent, HolderServed DEF SilentLabels
<1>Bury. ASSUME NEW t \in Threads, Bury(t) PROVE ServedInv'
  <2>1. CASE tomb' = "none"
    <3>1. rec' = rec /\ ctr' = ctr /\ route' = route /\ tomb = "none" /\ Done(t)
      BY <1>Bury, <2>1 DEF Bury, PutFails, host
    <3> QED BY <3>1, ReturnServed
  <2> QED BY <2>1 DEF ServedInv
<1>Buried. ASSUME NEW t \in Threads, FinishDelete(t) \/ PutTombstone(t) PROVE ServedInv'
  <2>1. tomb # "none"
    BY <1>Buried DEF FinishDelete, PutTombstone, At, DeleteInv, BuriedLabels
  <2>2. tomb' # "none"
    BY <1>Buried, <2>1 DEF FinishDelete, PutTombstone
  <2> QED BY <2>2 DEF ServedInv
<1>Restart. ASSUME Restart PROVE ServedInv'
  <2>1. /\ rec' = Interrupted(rec) /\ ctr' = ctr
        /\ tomb' = "none" => tomb = "none"
        /\ th' = [t \in Threads |-> Idle]
        /\ ~RouteKept
    BY <1>Restart DEF Restart, Fault, RouteKept
  <2>2. \/ route' = route
        \/ \E t \in Threads :
             At(t, "applyDomains") /\ UnchangedSince(th[t].svc) /\ route' = RenamedRoute(t)
    BY <1>Restart DEF Restart
  <2>3. ASSUME tomb = "none" PROVE RecordServed'
    <3>1. CASE rec.phase \in Busy
      <4>1. rec' = [rec EXCEPT !.phase = "failed"]
        BY <2>1, <3>1 DEF Interrupted
      <4>2. /\ rec'.phase = "failed" /\ rec'.state = rec.state /\ rec'.op = rec.op
            /\ rec'.live = rec.live /\ rec'.tgt = rec.tgt
        BY <4>1, LiveFacts DEF RecType
      <4> QED BY <2>1, <2>3, <4>2, ServedFacts, SlotsFrom, RecordServedBusy DEF NotRunning
    <3>2. CASE rec.phase \notin Busy /\ route' = route
      BY <2>1, <2>3, <3>2, ServedFacts, RecordServedKept DEF Interrupted, CtrKept
    <3>3. ASSUME rec.phase \notin Busy, NEW t \in Threads, At(t, "applyDomains"),
                 UnchangedSince(th[t].svc), route' = RenamedRoute(t)
          PROVE  RecordServed'
      <4>1. RouteMay(t) /\ rec' = rec
        BY <2>1, <2>3, <3>3, RouteMayFacts DEF Interrupted
      <4>2. rec.phase \in {"running", "stopped"}
        BY <3>3 DEF UnchangedSince, TypeInv, LocalOK, At
      <4>3. route'.mode = route.mode /\ (route.mode = "proxy" => route'.slot = rec.live)
        BY <2>3, <3>3, <4>1, <4>2, RouteMayKeeps
      <4>4. SlotsOK'
        BY <2>1, <2>3, <4>1, ServedFacts, SlotsFrom DEF NotRunning
      <4>5. RunningIsServed'
        BY <2>1, <2>3, <4>1, <4>3, ServedFacts DEF RunningIsServed, Serves, NotRunning
      <4>6. StoppedIsQuiet'
        <5>1. rec.phase = "stopped" => rec.state = "suspended"
          BY <4>1 DEF RouteMay, Renames
        <5> QED BY <2>1, <2>3, <4>1, <4>3, <5>1, ServedFacts DEF StoppedIsQuiet, NotRunning
      <4> QED BY <2>1, <2>3, <4>1, <4>2, <4>4, <4>5, <4>6, ServedFacts, NoRecFacts
              DEF RecordServed
    <3> QED BY <2>2, <3>1, <3>2, <3>3
  <2>4. \A t \in Threads : ThreadServed(t)'
    BY <2>1, Silent DEF Idle, SilentLabels
  <2> QED BY <2>1, <2>3, <2>4 DEF ServedInv
<1>Stutter. ASSUME UNCHANGED vars PROVE ServedInv'
  BY <1>Stutter
  DEF vars, ServedInv, RecordServed, SlotsOK, RunningIsServed, StoppedIsQuiet, RoutedByName,
      ThreadServed, NotRunning, Serves, At, Awaits
<1> QED
  BY <1>Strangers, <1>DeployDomains, <1>ProvisionClaim, <1>UpgradeClaim, <1>Resume,
     <1>ChangeState, <1>Delete, <1>RedeployTerminated, <1>ApplyDomains, <1>Prepare,
     <1>RestoreLiveRoute, <1>RemoveTarget, <1>StartSlot, <1>PutWaiting, <1>CheckHealth,
     <1>HealthVerdict, <1>RouteTarget, <1>RemovePreviousSlot, <1>PutDraining,
     <1>DrainOldDeploy, <1>PutRunning, <1>RecordFailure, <1>StopContainers,
     <1>PutTargetState, <1>FinishRouting, <1>Unroute, <1>PutStopped, <1>RemoveContainers,
     <1>RemoveRoute, <1>Destroy, <1>Bury, <1>Buried, <1>Restart, <1>Stutter
  DEF Next, Call, Work

-----------------------------------------------------------------------------
(* The invariants ServedInv rests on, together.                            *)
CoreInv == TypeInv /\ OneWriter /\ DeleteInv /\ RecordInv /\ AttemptInv

LEMMA CoreInvStep ==
  ASSUME CoreInv, [Next]_vars
  PROVE  CoreInv'
  BY TypeInvStep, OneWriterStep, DeleteInvStep, RecordInvStep, AttemptInvStep DEF CoreInv

LEMMA CoreHolds == Spec => []CoreInv
  BY StrongTypes, OneWriterHolds, DeletesInOrder, RecordIsWellFormed, AttemptsAreCurrent, PTL
  DEF CoreInv

LEMMA ServedInvInit == Init => ServedInv
  <1> SUFFICES ASSUME Init PROVE ServedInv
    OBVIOUS
  <1>1. \A t \in Threads : ThreadServed(t)
    BY DEF Init, Idle, ThreadServed, At, QuietedLabels, SwitchedLabels, BeforeWait, Awaits,
           CheckLabels
  <1>2. SlotsOK
    BY SlotNames, NoCtrFacts, NoRecFacts DEF Init, SlotsOK, NotRunning, NoRec
  <1> QED BY <1>1, <1>2, NoRecFacts
          DEF Init, ServedInv, RecordServed, RunningIsServed, StoppedIsQuiet, RoutedByName

LEMMA ServedHolds == Spec /\ [][OnlyRetries]_vars => []ServedInv
  <1>1. CoreInv /\ ServedInv /\ [Next]_vars /\ [OnlyRetries]_vars => ServedInv'
    BY ServedInvStep DEF CoreInv, OnlyRetries, vars
  <1> QED BY <1>1, ServedInvInit, CoreHolds, PTL DEF Spec

LEMMA CheckedOnlyRetries == ProvisionChecksHold => [][OnlyRetries]_vars
  <1>1. ASSUME rec.phase # "provisioning" /\ rec'.phase = "provisioning" =>
                 /\ tomb = "none"
                 /\ \/ rec = NoRec
                    \/ /\ rec.phase = "failed" /\ rec.op = "provision"
                       /\ rec'.tver = rec.tver /\ rec'.dom = rec.dom
        PROVE  OnlyRetries
    BY <1>1 DEF OnlyRetries
  <1> QED BY <1>1, PTL DEF ProvisionChecksHold

(* From an empty host on, whatever calls race, whatever else fails and     *)
(* wherever the controller dies, between Caddy and the record of a hostname*)
(* change too: as long as Provision claims only what it checked, a record  *)
(* that says "running" is served by its live container, and by no other    *)
(* (manager.go:470-478, 1119-1180, 1213-1366).                             *)
THEOREM RunningIsServedHolds == Spec /\ ProvisionChecksHold => []RunningIsServed
  <1>1. ServedInv => RunningIsServed
    BY DEF ServedInv, RecordServed, RunningIsServed
  <1> QED BY <1>1, ServedHolds, CheckedOnlyRetries, PTL

(* And one that says "stopped" has nothing running (manager.go:628-656).   *)
THEOREM StoppedIsQuietHolds == Spec /\ ProvisionChecksHold => []StoppedIsQuiet
  <1>1. ServedInv => StoppedIsQuiet
    BY DEF ServedInv, RecordServed, StoppedIsQuiet
  <1> QED BY <1>1, ServedHolds, CheckedOnlyRetries, PTL

(* Both are reached under the hostname of the record, as long as neither a *)
(* crash nor a Caddy that cannot be put back cuts off a hostname change    *)
(* (manager.go:470-478).                                                   *)
THEOREM RoutedByNameHolds ==
  ASSUME RouteKept
  PROVE  Spec /\ ProvisionChecksHold => []RoutedByName
  <1>1. ServedInv => RoutedByName
    BY DEF ServedInv, RecordServed, RoutedByName
  <1> QED BY <1>1, ServedHolds, CheckedOnlyRetries, PTL

-----------------------------------------------------------------------------
(* A service at rest, as an operation that has ended leaves it.            *)
Settled ==
  /\ TypeOK
  /\ tomb = "none" /\ \A t \in Threads : th[t] = Idle
  /\ rec.phase \in {"running", "stopped"} /\ rec.op = "" /\ rec.ver \in Versions
  /\ RunningIsServed /\ RunsItsVersion /\ StoppedIsQuiet /\ RoutedByName

FirstLabels == {"image", "claim", "storage"}
MadeLabels == SwitchedLabels \union {"putWaiting", "route"}

(* A service that was once at rest is not provisioned again, and the       *)
(* container of a deployment is made anew from the version it is for.      *)
ThreadVersion(t) ==
  LET s == th[t].svc IN
  /\ th[t].pc \notin FirstLabels
  /\ At(t, "start") => ctr[s.tgt] = NoCtr
  /\ th[t].pc \in MadeLabels \/ Awaits(t) => ctr[s.tgt].ver = s.tver

VersionInv ==
  tomb = "none" =>
    /\ rec # NoRec /\ rec.op # "provision"
    /\ RunsItsVersion
    /\ \A t \in Threads : ThreadVersion(t)

LEMMA SettledInv ==
  ASSUME Settled
  PROVE  CoreInv /\ ServedInv /\ VersionInv
  <1>1. \A t \in Threads : th[t].pc = "idle" /\ th[t].att = 0
    <2>1. Idle.pc = "idle" /\ Idle.att = 0
      BY DEF Idle
    <2> QED BY <2>1 DEF Settled
  <1>2. TypeInv
    <2>1. WaitingOK
      BY DEF Settled, WaitingOK
    <2>2. \A t \in Threads : LocalOK(th[t])
      BY <1>1 DEF LocalOK, TargetLabels, StateLabels
    <2> QED BY <2>1, <2>2 DEF Settled, TypeInv
  <1>3. OneWriter /\ DeleteInv
    BY <1>1 DEF OneWriter, DeleteInv, Holding, HoldingLabels, WipeLabels, BuriedLabels
  <1>4. rec.state \in States
    BY DEF Settled, RunningIsServed, StoppedIsQuiet, States
  <1>5. RecordInv
    BY <1>1, <1>4
    DEF Settled, RecordInv, WellFormed, StageOK, FailureOK, At, AskingLabels, Phases, Busy,
        Deploys
  <1>6. AttemptInv
    <2>1. health.seq \in Nat
      BY DEF Settled, TypeOK
    <2> QED BY <1>1, <2>1 DEF AttemptInv, AttemptOK, CurrentOK, Awaits, CheckLabels, BeforeWait
  <1>7. rec # NoRec /\ rec.live \in Slots
    BY <1>2, LiveFacts, NoRecFacts DEF Settled
  <1>8. SlotsOK
    BY <1>7, NoCtrFacts DEF Settled, SlotsOK, NotRunning, RunningIsServed, StoppedIsQuiet
  <1>9. \A t \in Threads : ThreadServed(t) /\ ThreadVersion(t)
    BY <1>1 DEF ThreadServed, ThreadVersion, FirstLabels, MadeLabels, SwitchedLabels,
                QuietedLabels, BeforeWait, At, Awaits, CheckLabels
  <1> QED BY <1>2, <1>3, <1>5, <1>6, <1>7, <1>8, <1>9
          DEF Settled, CoreInv, ServedInv, RecordServed, VersionInv

-----------------------------------------------------------------------------
LEMMA VersionFrom ==
  ASSUME CoreInv, VersionInv, [Next]_vars,
         NEW t \in Threads, OnlyMoves(t), tomb' = "none" => tomb = "none",
         Holding(t) \/ CtrKept,
         tomb = "none" =>
           rec' # NoRec /\ rec'.op # "provision" /\ RunsItsVersion' /\ ThreadVersion(t)'
  PROVE  VersionInv'
  <1> SUFFICES ASSUME tomb = "none", NEW u \in Threads, u # t
               PROVE  ThreadVersion(u)'
    BY DEF VersionInv
  <1> USE DEF CoreInv
  <1>1. th'[u] = th[u] /\ ThreadVersion(u)
    BY DEF OnlyMoves, VersionInv
  <1>2. th[u].pc \in TargetLabels => th[u].svc.tgt \in Slots
    BY DEF TypeInv, LocalOK
  <1>3. CtrKept => \A s \in Slots : ctr'[s].ver = ctr[s].ver /\ (ctr[s] = NoCtr => ctr'[s] = NoCtr)
    BY KeptFacts
  <1>4. CASE Holding(u)
    <2>1. CtrKept
      BY <1>4, HeldIsCurrent
    <2>2. ~Awaits(u)'
      BY <1>1, <1>4 DEF Awaits, Holding, HoldingLabels, CheckLabels
    <2> QED BY <1>1, <1>2, <1>3, <2>1, <2>2
            DEF ThreadVersion, At, MadeLabels, SwitchedLabels, TargetLabels
  <1>5. CASE ~Holding(u)
    <2>1. ASSUME Awaits(u)' PROVE ctr'[th[u].svc.tgt].ver = th[u].svc.tver
      <3>1. Awaits(u) /\ rec.phase = "waiting_for_health"
        BY <1>1, <2>1, StillAwaits DEF AttemptInv, CurrentOK
      <3>2. CtrKept
        BY <3>1, HeldIsCurrent DEF Taken
      <3>3. th[u].svc.tgt \in Slots
        BY <1>2, <3>1 DEF TargetLabels, Awaits, CheckLabels
      <3> QED BY <1>1, <1>3, <3>1, <3>2, <3>3 DEF ThreadVersion
    <2> QED BY <1>1, <1>5, <2>1
            DEF ThreadVersion, At, Holding, HoldingLabels, MadeLabels, SwitchedLabels
  <1> QED BY <1>4, <1>5

LEMMA RunsKept ==
  ASSUME TypeInv, RunsItsVersion, tomb = "none", CtrKept,
         rec'.phase = "running" =>
           rec.phase = "running" /\ rec'.live = rec.live /\ rec'.ver = rec.ver
  PROVE  RunsItsVersion'
  BY LiveFacts, KeptFacts DEF RunsItsVersion

(* The labels at which a thread says nothing of versions.                  *)
Unversioned(t) == th[t].pc \notin FirstLabels \union MadeLabels \union CheckLabels \union {"start"}

LEMMA UnversionedFacts ==
  ASSUME NEW t \in Threads, Unversioned(t)'
  PROVE  ThreadVersion(t)'
  BY DEF Unversioned, ThreadVersion, At, Awaits

LEMMA VersionStays ==
  ASSUME CoreInv, VersionInv, [Next]_vars,
         NEW t \in Threads, OnlyMoves(t), tomb' = "none" => tomb = "none",
         rec' = rec, CtrKept, tomb = "none" => ThreadVersion(t)'
  PROVE  VersionInv'
  BY VersionFrom, RunsKept DEF VersionInv, CoreInv

LEMMA ReturnVersion ==
  ASSUME CoreInv, VersionInv, [Next]_vars,
         NEW t \in Threads, Done(t), tomb' = "none" => tomb = "none", rec' = rec, CtrKept
  PROVE  VersionInv'
  <1>1. OnlyMoves(t) /\ th'[t].pc = "idle"
    BY DoneMoves DEF CoreInv
  <1> QED BY <1>1, UnversionedFacts, VersionStays
          DEF Unversioned, FirstLabels, MadeLabels, SwitchedLabels, CheckLabels

LEMMA HolderVersion ==
  ASSUME CoreInv, VersionInv, [Next]_vars,
         NEW t \in Threads, Holding(t), OnlyMoves(t), tomb' = "none" => tomb = "none",
         rec' = rec, tomb = "none" => ThreadVersion(t)'
  PROVE  VersionInv'
  <1>1. tomb = "none" => RunsItsVersion'
    BY HeldIsCurrent DEF CoreInv, Taken, RunsItsVersion, Busy
  <1> QED BY <1>1, VersionFrom DEF VersionInv

(* The record is written at a thread's return, not running.                *)
LEMMA EndVersion ==
  ASSUME CoreInv, VersionInv, [Next]_vars,
         NEW t \in Threads, Done(t), tomb' = tomb, ctr' = ctr,
         tomb = "none" =>
           rec'.phase \in {"failed", "stopped"} /\ rec'.op # "provision"
  PROVE  VersionInv'
  <1>1. OnlyMoves(t) /\ th'[t].pc = "idle"
    BY DoneMoves DEF CoreInv
  <1>2. CtrKept
    BY DEF CtrKept
  <1>3. ThreadVersion(t)'
    BY <1>1, UnversionedFacts
    DEF Unversioned, FirstLabels, MadeLabels, SwitchedLabels, CheckLabels
  <1>4. tomb = "none" => rec' # NoRec /\ RunsItsVersion'
    BY NoRecFacts DEF RunsItsVersion
  <1> QED BY <1>1, <1>2, <1>3, <1>4, VersionFrom

LEMMA ClaimVersion ==
  ASSUME CoreInv, VersionInv, [Next]_vars,
         NEW t \in Threads, NEW l \in {"isolate", "stop", "wipe"},
         NEW r, NEW s, NEW a, Claims(t, l, r, s, a), tomb' = tomb, ctr' = ctr,
         tomb = "none" => s.phase \in Busy /\ s.op # "provision"
  PROVE  VersionInv'
  <1>1. OnlyMoves(t) /\ th'[t].pc = l /\ rec' = s
    BY ClaimSets DEF CoreInv
  <1>2. CtrKept
    BY DEF CtrKept
  <1>3. ThreadVersion(t)'
    BY <1>1, UnversionedFacts
    DEF Unversioned, FirstLabels, MadeLabels, SwitchedLabels, CheckLabels
  <1>4. tomb = "none" => rec' # NoRec /\ RunsItsVersion'
    BY <1>1, NoRecFacts DEF RunsItsVersion, Busy
  <1> QED BY <1>1, <1>2, <1>3, <1>4, VersionFrom

LEMMA VersionInvStep ==
  ASSUME CoreInv, ServedInv, VersionInv, [Next]_vars
  PROVE  VersionInv'
<1>0. TypeInv /\ OneWriter /\ DeleteInv /\ RecordInv /\ AttemptInv
  BY DEF CoreInv
<1>Strangers. ASSUME NEW t \in Threads,
                    \/ ProvisionLookup(t) \/ HasVersion(t) \/ UpgradeFromCall(t)
                    \/ Reconcile(t) \/ Provision(t) \/ Upgrade(t) \/ DeployDomains(t)
                    \/ FinishDelete(t)
             PROVE  VersionInv'
  <2>1. rec' = rec /\ ctr' = ctr /\ tomb' = tomb
    BY <1>Strangers
    DEF ProvisionLookup, HasVersion, UpgradeFromCall, Reconcile, Provision, Upgrade,
        DeployDomains, FinishDelete, host
  <2>2. CASE Provision(t) \/ Upgrade(t)
    <3>1. PICK l \in {"lookup", "upgradeImage"}, r \in Requests :
            th' = [th EXCEPT ![t].pc = l, ![t].req = r]
      BY <2>2 DEF Provision, Upgrade
    <3>2. OnlyMoves(t) /\ th'[t].pc = l
      BY <1>0, <3>1 DEF OnlyMoves, TypeInv, TypeOK, ThreadType
    <3> QED BY <2>1, <3>2, UnversionedFacts, VersionStays
            DEF CtrKept, Unversioned, FirstLabels, MadeLabels, SwitchedLabels, CheckLabels
  <2>3. CASE tomb # "none"
    BY <2>1, <2>3 DEF VersionInv
  <2>4. ASSUME tomb = "none",
               \/ ProvisionLookup(t) \/ HasVersion(t) \/ UpgradeFromCall(t)
               \/ Reconcile(t) \/ DeployDomains(t) \/ FinishDelete(t)
        PROVE  VersionInv'
    <3>1. th[t].pc \notin FirstLabels /\ rec # NoRec /\ rec.op # "provision"
      BY <2>4 DEF VersionInv, ThreadVersion
    <3>2. HasVersion(t) => ClaimLabel[th[t].pc] \in {"upgradeClaim", "redeployClaim"}
      BY <3>1 DEF HasVersion, ClaimLabel, FirstLabels
    <3>3. PICK l \in {"reconcile", "upgradeClaim", "redeployClaim", "upgradeImage",
                      "upgrade", "domains", "redeployImage", "applyDomains", "buried",
                      "unburied", "idle"} :
            Go(t, l) \/ Done(t) \/ GoWith(t, l, rec)
      BY <2>4, <3>1, <3>2
      DEF ProvisionLookup, HasVersion, UpgradeFromCall, Reconcile, DeployDomains,
          FinishDelete, SameFailedProvision
    <3>4. OnlyMoves(t) /\ th'[t].pc \in {l, "idle"}
      BY <1>0, <3>3, GoMoves, GoWithMoves, DoneMoves
    <3> QED BY <2>1, <3>4, UnversionedFacts, VersionStays
            DEF CtrKept, Unversioned, FirstLabels, MadeLabels, SwitchedLabels, CheckLabels
  <2> QED BY <1>Strangers, <2>2, <2>3, <2>4
<1>First. ASSUME NEW t \in Threads, ProvisionClaim(t) \/ PrepareStorage(t) PROVE VersionInv'
  BY <1>First DEF ProvisionClaim, PrepareStorage, At, VersionInv, ThreadVersion, FirstLabels
<1>Claims. ASSUME NEW t \in Threads, NEW l \in {"isolate", "stop", "wipe"},
                  NEW r, NEW s, NEW a, Claims(t, l, r, s, a), tomb' = tomb, ctr' = ctr,
                  tomb = "none" => s.phase \in Busy /\ s.op # "provision"
           PROVE  VersionInv'
  BY <1>Claims, ClaimVersion
<1>UpgradeClaim. ASSUME NEW t \in Threads, UpgradeClaim(t) PROVE VersionInv'
  <2> DEFINE r == th[t].req
             op == IF ReplaceableActivation(rec) THEN rec.op ELSE "upgrade"
             u == UpgradeRecord(rec, r)
  <2>1. tomb' = tomb /\ ctr' = ctr
    BY <1>UpgradeClaim DEF UpgradeClaim, host
  <2>2. CASE Claims(t, "isolate", r, u, health.seq + 1)
    <3>1. u.phase = "starting" /\ u.op = op
      <4> DEFINE tgt == IF op = "provision" THEN rec.live ELSE Opposite(rec.live)
                 kept == IF ReplaceableActivation(rec) \/ rec.phase = "waiting_for_health"
                           THEN rec.tdom ELSE NoDomain
                 dom == IF r.dom # NoDomain THEN r.dom ELSE kept
      <4>1. u = [rec EXCEPT !.phase = "starting", !.op = op, !.tgt = tgt,
                            !.tver = r.ver, !.tdom = dom]
        BY DEF UpgradeRecord
      <4> HIDE DEF u, op, tgt, dom, r
      <4> QED BY <1>0, <4>1, LiveFacts DEF RecType
    <3>2. tomb = "none" => op # "provision"
      BY DEF VersionInv
    <3> HIDE DEF u, r, op
    <3> QED BY <2>1, <2>2, <3>1, <3>2, <1>Claims DEF Busy
  <2>3. CASE Done(t) /\ UNCHANGED rec
    BY <2>1, <2>3, ReturnVersion DEF CtrKept
  <2> QED BY <1>UpgradeClaim, <2>2, <2>3 DEF UpgradeClaim, PutFails
<1>Resume. ASSUME NEW t \in Threads, Resume(t) \/ ResumeFromCall(t) PROVE VersionInv'
  <2>1. ctr' = ctr /\ tomb' = tomb
    BY <1>Resume DEF Resume, ResumeFromCall, host
  <2>2. ASSUME NEW r, ResumeClaim(t, r) PROVE VersionInv'
    <3> DEFINE s == [rec EXCEPT !.phase = "starting", !.op = "resume",
                                !.tgt = Opposite(rec.live), !.tver = rec.ver,
                                !.tdom = NoDomain]
    <3>1. Claims(t, "isolate", r, s, health.seq + 1)
      BY <2>2 DEF ResumeClaim
    <3>2. s.phase = "starting" /\ s.op = "resume"
      BY <1>0, LiveFacts DEF RecType
    <3> HIDE DEF s
    <3> QED BY <2>1, <3>1, <3>2, <1>Claims DEF Busy
  <2>3. ASSUME NEW r, ResumeRedeploys(t, r) PROVE VersionInv'
    <3>1. OnlyMoves(t) /\ th'[t].pc = "upgrade" /\ rec' = rec
      BY <1>0, <2>3 DEF ResumeRedeploys, OnlyMoves, TypeInv, TypeOK, ThreadType
    <3> QED BY <2>1, <3>1, UnversionedFacts, VersionStays
            DEF CtrKept, Unversioned, FirstLabels, MadeLabels, SwitchedLabels, CheckLabels
  <2>4. CASE Done(t) /\ UNCHANGED rec
    BY <2>1, <2>4, ReturnVersion DEF CtrKept
  <2> QED BY <1>Resume, <2>2, <2>3, <2>4 DEF Resume, ResumeFromCall, PutFails
<1>ChangeState. ASSUME NEW t \in Threads, ChangeState(t) PROVE VersionInv'
  <2>1. PICK r \in Requests :
          /\ r.kind \in {"suspend", "terminate"}
          /\ Claims(t, "stop", r, [rec EXCEPT !.phase = "stopping", !.tdom = NoDomain,
                                              !.op = TargetState[r.kind]], 0)
    BY <1>ChangeState DEF ChangeState
  <2> DEFINE x == TargetState[r.kind]
             s == [rec EXCEPT !.phase = "stopping", !.tdom = NoDomain, !.op = x]
  <2>2. x # "provision" /\ Claims(t, "stop", r, s, 0) /\ ctr' = ctr /\ tomb' = tomb
    BY <1>ChangeState, <2>1 DEF ChangeState, TargetState, host
  <2> HIDE DEF x
  <2>3. s.phase = "stopping" /\ s.op = x
    BY <1>0, LiveFacts DEF RecType
  <2> HIDE DEF s
  <2> QED BY <2>2, <2>3, <1>Claims DEF Busy
<1>Delete. ASSUME NEW t \in Threads, Delete(t) PROVE VersionInv'
  <2> DEFINE s == [rec EXCEPT !.phase = "deleting", !.op = "delete"]
  <2>1. CASE tomb' # "none"
    BY <2>1 DEF VersionInv
  <2>2. CASE tomb' = "none"
    <3>1. PICK r \in Requests : Claims(t, "wipe", r, s, 0)
      BY <1>Delete, <2>2 DEF Delete
    <3>2. ctr' = ctr /\ tomb' = tomb
      BY <1>Delete, <2>2 DEF Delete, host
    <3>3. s.phase = "deleting" /\ s.op = "delete"
      BY <1>0, LiveFacts DEF RecType
    <3> HIDE DEF s
    <3> QED BY <3>1, <3>2, <3>3, <1>Claims DEF Busy
  <2> QED BY <2>1, <2>2
<1>Holders. ASSUME NEW t \in Threads,
                   \/ EnsureIsolation(t) \/ RestoreLiveRoute(t) \/ StopContainers(t)
                   \/ FinishRouting(t) \/ Unroute(t) \/ RemoveContainers(t) \/ RemoveRoute(t)
                   \/ DestroyDataset(t) \/ RemoveMountpoint(t)
            PROVE  VersionInv'
  <2>1. rec' = rec /\ tomb' = tomb /\ Holding(t)
    BY <1>Holders
    DEF EnsureIsolation, RestoreLiveRoute, StopContainers, FinishRouting, Unroute,
        RemoveContainers, RemoveRoute, DestroyDataset, RemoveMountpoint, At, Holding,
        HoldingLabels
  <2>2. PICK l \in {"restore", "removeTarget", "failing", "putTarget", "unroute",
                    "putStopped", "unserve", "destroy", "unmount", "bury", "idle"} :
          Go(t, l) \/ Done(t) \/ GoWith(t, l, rec)
    BY <1>Holders
    DEF EnsureIsolation, RestoreLiveRoute, StopContainers, FinishRouting, Unroute,
        RemoveContainers, RemoveRoute, DestroyDataset, RemoveMountpoint, Fails
  <2>3. OnlyMoves(t) /\ th'[t].pc \in {l, "idle"}
    BY <1>0, <2>2, GoMoves, GoWithMoves, DoneMoves
  <2> QED BY <2>1, <2>3, UnversionedFacts, HolderVersion
          DEF Unversioned, FirstLabels, MadeLabels, SwitchedLabels, CheckLabels
<1>RemoveTarget. ASSUME NEW t \in Threads, RemoveTarget(t) PROVE VersionInv'
  <2>1. /\ rec' = rec /\ tomb' = tomb /\ Holding(t) /\ th[t].svc.tgt \in Slots
    BY <1>0, <1>RemoveTarget
    DEF RemoveTarget, At, Holding, HoldingLabels, TypeInv, LocalOK, TargetLabels
  <2>2. CASE Go(t, "failing")
    BY <1>0, <2>1, <2>2, GoMoves, UnversionedFacts, HolderVersion
    DEF Unversioned, FirstLabels, MadeLabels, SwitchedLabels, CheckLabels
  <2>3. CASE ctr' = [ctr EXCEPT ![th[t].svc.tgt] = NoCtr] /\ Go(t, "start")
    <3>1. ctr'[th[t].svc.tgt] = NoCtr
      BY <1>0, <2>1, <2>3, LiveFacts
    <3>2. OnlyMoves(t) /\ th'[t].pc = "start" /\ th'[t].svc = th[t].svc
      BY <1>0, <2>3, GoMoves
    <3>3. ThreadVersion(t)'
      BY <3>1, <3>2
      DEF ThreadVersion, FirstLabels, MadeLabels, SwitchedLabels, Awaits, CheckLabels
    <3> QED BY <2>1, <3>2, <3>3, HolderVersion
  <2> QED BY <1>RemoveTarget, <2>2, <2>3 DEF RemoveTarget, Fails
<1>StartSlot. ASSUME NEW t \in Threads, StartSlot(t) PROVE VersionInv'
  <2> DEFINE s == th[t].svc.tgt
             new == IF ctr[s].up = "absent" THEN th[t].svc.tver ELSE ctr[s].ver
  <2>1. /\ rec' = rec /\ tomb' = tomb /\ Holding(t) /\ th[t].pc = "start" /\ s \in Slots
    BY <1>0, <1>StartSlot
    DEF StartSlot, At, Holding, HoldingLabels, TypeInv, LocalOK, TargetLabels
  <2>2. CASE Go(t, "failing")
    BY <1>0, <2>1, <2>2, GoMoves, UnversionedFacts, HolderVersion
    DEF Unversioned, FirstLabels, MadeLabels, SwitchedLabels, CheckLabels
  <2>3. CASE /\ Go(t, "putWaiting")
             /\ ctr' = IF ctr[s].up = "running" THEN ctr
                       ELSE [ctr EXCEPT ![s] = [up |-> "running", ver |-> new, ok |-> FALSE]]
    <3>1. tomb = "none" => ctr[s].up = "absent"
      BY <2>1, NoCtrFacts DEF VersionInv, ThreadVersion, At
    <3>2. tomb = "none" => new = th[t].svc.tver
      BY <3>1
    <3> HIDE DEF new, s
    <3>3. tomb = "none" => ctr'[s].ver = new
      BY <1>0, <2>1, <2>3, <3>1, LiveFacts
    <3>4. /\ OnlyMoves(t) /\ th'[t].pc = "putWaiting" /\ th'[t].svc = th[t].svc
      BY <1>0, <2>3, GoMoves
    <3>5. tomb = "none" => ThreadVersion(t)'
      BY <3>2, <3>3, <3>4
      DEF ThreadVersion, FirstLabels, At, s
    <3> QED BY <2>1, <3>4, <3>5, HolderVersion
  <2> QED BY <1>StartSlot, <2>2, <2>3 DEF StartSlot, Fails
<1>PutWaiting. ASSUME NEW t \in Threads, PutWaiting(t) PROVE VersionInv'
  <2> DEFINE s == [th[t].svc EXCEPT !.phase = "waiting_for_health"]
             a == IF th[t].att = 0 THEN health.seq + 1 ELSE th[t].att
  <2>1. /\ ctr' = ctr /\ tomb' = tomb /\ Holding(t) /\ th[t].pc = "putWaiting"
    BY <1>PutWaiting DEF PutWaiting, host, At, Holding, HoldingLabels
  <2>2. CASE PutFails /\ Go(t, "failing")
    BY <1>0, <2>1, <2>2, GoMoves, UnversionedFacts, HolderVersion
    DEF PutFails, Unversioned, FirstLabels, MadeLabels, SwitchedLabels, CheckLabels
  <2>3. CASE rec' = s /\ th' = [th EXCEPT ![t].pc = "health", ![t].svc = s, ![t].att = a]
    <3>1. OnlyMoves(t) /\ th'[t].pc = "health" /\ th'[t].svc = s
      BY <1>0, <2>3 DEF OnlyMoves, TypeInv, TypeOK, ThreadType
    <3>2. /\ s.phase = "waiting_for_health" /\ s.op = th[t].svc.op
          /\ s.tgt = th[t].svc.tgt /\ s.tver = th[t].svc.tver
      BY <1>0, CopyType DEF RecType
    <3> HIDE DEF s
    <3>3. tomb = "none" => th[t].svc = rec /\ rec.op # "provision" /\ ThreadVersion(t)
      BY <1>0, <2>1, HeldIsCurrent DEF VersionInv
    <3>4. tomb = "none" => ThreadVersion(t)'
      BY <2>1, <3>1, <3>2, <3>3 DEF ThreadVersion, FirstLabels, MadeLabels, At
    <3>5. rec' # NoRec /\ RunsItsVersion'
      BY <2>3, <3>2, NoRecFacts DEF RunsItsVersion
    <3> QED BY <2>1, <2>3, <3>1, <3>2, <3>3, <3>4, <3>5, VersionFrom
  <2> QED BY <1>PutWaiting, <2>2, <2>3 DEF PutWaiting, Puts
<1>CheckHealth. ASSUME NEW t \in Threads, CheckHealth(t) PROVE VersionInv'
  <2> DEFINE s == th[t].svc.tgt
  <2>1. /\ th[t].pc = "health" /\ health' = health /\ rec' = rec /\ tomb' = tomb
        /\ s \in Slots
    BY <1>0, <1>CheckHealth DEF CheckHealth, At, TypeInv, LocalOK, TargetLabels
  <2>2. /\ OnlyMoves(t) /\ th'[t].pc = "verdict" /\ th'[t].svc = th[t].svc
        /\ th'[t].att = th[t].att
    BY <1>0, <1>CheckHealth DEF CheckHealth, Go, OnlyMoves, TypeInv, TypeOK, ThreadType
  <2>3. CtrKept
    <3> HIDE DEF s
    <3>1. CASE ctr[s].up = "running" /\ ctr' = [ctr EXCEPT ![s].ok = TRUE]
      BY <1>0, <2>1, <3>1, LiveFacts DEF CtrKept
    <3> QED BY <1>CheckHealth, <3>1 DEF CheckHealth, CtrKept, s
  <2>4. ctr'[s].ver = ctr[s].ver
    BY <1>0, <2>1, <2>3, KeptFacts
  <2>5. Awaits(t)' => Awaits(t)
    BY <2>1, <2>2 DEF Awaits, CheckLabels
  <2>6. tomb = "none" => ThreadVersion(t)'
    BY <2>2, <2>4, <2>5
    DEF VersionInv, ThreadVersion, At, FirstLabels, MadeLabels, SwitchedLabels
  <2> QED BY <2>1, <2>2, <2>3, <2>6, VersionStays
<1>HealthVerdict. ASSUME NEW t \in Threads, HealthVerdict(t) PROVE VersionInv'
  <2>1. /\ th[t].pc = "verdict" /\ tomb' = tomb /\ ctr' = ctr
    BY <1>HealthVerdict DEF HealthVerdict, At, host
  <2>2. CASE Done(t) /\ UNCHANGED rec
    BY <2>1, <2>2, ReturnVersion DEF CtrKept
  <2>3. CASE Done(t) /\ rec' = [rec EXCEPT !.phase = "failed"]
    <3>1. rec'.phase = "failed" /\ rec'.op = rec.op
      BY <1>0, <2>3, LiveFacts DEF RecType
    <3> QED BY <2>1, <2>3, <3>1, EndVersion DEF VersionInv
  <2>4. CASE /\ VerdictApplies(t)
             /\ rec' = [rec EXCEPT !.phase = "routing"]
             /\ GoWith(t, "route", [rec EXCEPT !.phase = "routing"])
    <3> DEFINE n == [rec EXCEPT !.phase = "routing"]
    <3>1. n.phase = "routing" /\ n.op = rec.op /\ n.tgt = rec.tgt /\ n.tver = rec.tver
      BY <1>0, LiveFacts DEF RecType
    <3>2. rec' = n /\ GoWith(t, "route", n)
      BY <2>4
    <3> HIDE DEF n
    <3>3. OnlyMoves(t) /\ th'[t].pc = "route" /\ th'[t].svc = n
      BY <1>0, <3>2, GoWithMoves
    <3>4. Awaits(t)
      BY <2>1, <2>4 DEF Awaits, CheckLabels, VerdictApplies, CurrentAttempt
    <3>5. tomb = "none" => ctr[rec.tgt].ver = rec.tver
      BY <1>0, <3>4 DEF VersionInv, ThreadVersion, AttemptInv, CurrentOK
    <3>6. tomb = "none" => ThreadVersion(t)'
      BY <2>1, <3>1, <3>3, <3>5
      DEF ThreadVersion, At, FirstLabels, MadeLabels, Awaits, CheckLabels
    <3>7. rec' # NoRec /\ RunsItsVersion'
      BY <3>1, <3>2, NoRecFacts DEF RunsItsVersion
    <3>8. CtrKept
      BY <2>1 DEF CtrKept
    <3> QED BY <2>1, <3>1, <3>2, <3>3, <3>6, <3>7, <3>8, VersionFrom DEF VersionInv
  <2> QED BY <1>HealthVerdict, <2>2, <2>3, <2>4 DEF HealthVerdict, Puts, PutFails
<1>RouteTarget. ASSUME NEW t \in Threads, RouteTarget(t) PROVE VersionInv'
  <2>1. /\ rec' = rec /\ ctr' = ctr /\ tomb' = tomb /\ Holding(t) /\ th[t].pc = "route"
        /\ th[t].svc.op \in Deploys
    BY <1>0, <1>RouteTarget
    DEF RouteTarget, At, Holding, HoldingLabels, TypeInv, LocalOK, TargetLabels
  <2>2. CASE Go(t, "failing")
    BY <1>0, <2>1, <2>2, GoMoves, UnversionedFacts, HolderVersion
    DEF Unversioned, FirstLabels, MadeLabels, SwitchedLabels, CheckLabels
  <2>3. CASE Go(t, AfterRoute[th[t].svc.op])
    <3>1. AfterRoute[th[t].svc.op] \in {"putRunning", "removeOld", "putDraining"}
      BY <2>1 DEF AfterRoute, Deploys
    <3>2. /\ OnlyMoves(t) /\ th'[t].pc = AfterRoute[th[t].svc.op] /\ th'[t].svc = th[t].svc
      BY <1>0, <2>3, GoMoves
    <3>3. tomb = "none" => ThreadVersion(t)'
      BY <2>1, <3>1, <3>2
      DEF VersionInv, ThreadVersion, FirstLabels, MadeLabels, At
    <3> QED BY <2>1, <3>2, <3>3, HolderVersion
  <2> QED BY <1>RouteTarget, <2>2, <2>3 DEF RouteTarget, Fails
<1>RemoveLive. ASSUME NEW t \in Threads, RemovePreviousSlot(t) \/ DrainOldDeploy(t)
               PROVE  VersionInv'
  <2>1. /\ rec' = rec /\ tomb' = tomb /\ Holding(t) /\ th[t].pc \in {"removeOld", "drain"}
        /\ \/ ctr' = ctr
           \/ ctr' = [ctr EXCEPT ![th[t].svc.live] = NoCtr]
           \/ HalfRemove({th[t].svc.live})
        /\ Go(t, "failing") \/ Go(t, "putRunning")
    BY <1>RemoveLive
    DEF RemovePreviousSlot, DrainOldDeploy, At, Holding, HoldingLabels, Fails
  <2>2. CASE Go(t, "failing")
    BY <1>0, <2>1, <2>2, GoMoves, UnversionedFacts, HolderVersion
    DEF Unversioned, FirstLabels, MadeLabels, SwitchedLabels, CheckLabels
  <2>3. CASE Go(t, "putRunning")
    <3>1. OnlyMoves(t) /\ th'[t].pc = "putRunning" /\ th'[t].svc = th[t].svc
      BY <1>0, <2>3, GoMoves
    <3>2. ASSUME tomb = "none" PROVE ThreadVersion(t)'
      <4>1. /\ th[t].svc = rec /\ rec.op # "provision" /\ rec.tgt # rec.live
            /\ rec.tgt \in Slots
        BY <1>0, <2>1, <3>2, TargetFacts DEF VersionInv, TargetLabels
      <4>2. ctr'[rec.tgt] = ctr[rec.tgt]
        <5>1. {th[t].svc.live} \in SUBSET Slots
          BY <1>0, <4>1, LiveFacts
        <5>2. HalfRemove({th[t].svc.live}) => ctr'[rec.tgt] = ctr[rec.tgt]
          BY <1>0, <4>1, <5>1, HalfFacts
        <5> QED BY <1>0, <2>1, <4>1, <5>2, LiveFacts
      <4>3. ctr[rec.tgt].ver = rec.tver
        BY <2>1, <3>2, <4>1 DEF VersionInv, ThreadVersion, MadeLabels, SwitchedLabels
      <4> QED BY <2>1, <3>1, <4>1, <4>2, <4>3
              DEF ThreadVersion, FirstLabels, At, Awaits, CheckLabels
    <3> QED BY <2>1, <3>1, <3>2, HolderVersion
  <2> QED BY <2>1, <2>2, <2>3
<1>PutDraining. ASSUME NEW t \in Threads, PutDraining(t) PROVE VersionInv'
  <2> DEFINE d == RoutingDomain(th[t].svc)
             s == [th[t].svc EXCEPT !.phase = "draining", !.tdom = NoDomain, !.dom = d]
  <2>1. /\ ctr' = ctr /\ tomb' = tomb /\ Holding(t) /\ th[t].pc = "putDraining"
    BY <1>PutDraining DEF PutDraining, host, At, Holding, HoldingLabels
  <2>2. CASE PutFails /\ Done(t)
    BY <2>1, <2>2, ReturnVersion DEF PutFails, CtrKept
  <2>3. CASE rec' = s /\ GoWith(t, "drain", s)
    <3> HIDE DEF d
    <3>1. /\ s.phase = "draining" /\ s.op = th[t].svc.op
          /\ s.tgt = th[t].svc.tgt /\ s.tver = th[t].svc.tver
      BY <1>0, CopyType DEF RecType
    <3> HIDE DEF s
    <3>2. OnlyMoves(t) /\ th'[t].pc = "drain" /\ th'[t].svc = s
      BY <1>0, <2>3, GoWithMoves
    <3>3. tomb = "none" => th[t].svc = rec /\ rec.op # "provision" /\ ThreadVersion(t)
      BY <1>0, <2>1, HeldIsCurrent DEF VersionInv
    <3>4. tomb = "none" => ThreadVersion(t)'
      BY <2>1, <3>1, <3>2, <3>3
      DEF ThreadVersion, FirstLabels, MadeLabels, SwitchedLabels, At, Awaits, CheckLabels
    <3>5. rec' # NoRec /\ RunsItsVersion'
      BY <2>3, <3>1, NoRecFacts DEF RunsItsVersion
    <3> QED BY <2>1, <2>3, <3>1, <3>2, <3>3, <3>4, <3>5, VersionFrom
  <2> QED BY <1>PutDraining, <2>2, <2>3 DEF PutDraining, Puts
<1>PutRunning. ASSUME NEW t \in Threads, PutRunning(t) PROVE VersionInv'
  <2> DEFINE s == th[t].svc
             d == RoutingDomain(s)
             x == IF s.op = "upgrade" THEN s.state ELSE "active"
             v == IF s.tver # 0 THEN s.tver ELSE s.ver
             g == s.tgt
             n == [s EXCEPT !.state = x, !.phase = "running", !.op = "", !.live = g,
                            !.tgt = "", !.ver = v, !.tver = 0, !.dom = d, !.tdom = NoDomain]
  <2>1. /\ ctr' = ctr /\ tomb' = tomb /\ Done(t) /\ Holding(t) /\ th[t].pc = "putRunning"
    BY <1>PutRunning DEF PutRunning, host, At, Holding, HoldingLabels
  <2>2. CASE PutFails
    BY <2>1, <2>2, ReturnVersion DEF PutFails, CtrKept
  <2>3. CASE rec' = n
    <3>1. s \in RecType
      BY <1>0, CopyType
    <3> HIDE DEF d, x, v, g, s
    <3>2. n.phase = "running" /\ n.op = "" /\ n.live = g /\ n.ver = v
      BY <3>1 DEF RecType
    <3> HIDE DEF n
    <3>3. ASSUME tomb = "none" PROVE RunsItsVersion'
      <4>1. /\ s = rec /\ WellFormed(rec) /\ Taken(rec) /\ rec.op \in Deploys
        BY <1>0, <2>1, <3>3, TargetFacts DEF s, TargetLabels
      <4>2. s.tver # 0
        BY <4>1, ConstantsAssumption DEF WellFormed, Taken
      <4>3. ctr[g].ver = s.tver
        BY <2>1, <3>3 DEF VersionInv, ThreadVersion, MadeLabels, SwitchedLabels, s, g
      <4> QED BY <2>1, <2>3, <3>2, <4>2, <4>3 DEF RunsItsVersion, v
    <3>4. rec' # NoRec /\ rec'.op # "provision"
      BY <2>3, <3>2, NoRecFacts
    <3>5. OnlyMoves(t) /\ th'[t].pc = "idle"
      BY <1>0, <2>1, DoneMoves
    <3> QED BY <2>1, <3>3, <3>4, <3>5, UnversionedFacts, VersionFrom
            DEF Unversioned, FirstLabels, MadeLabels, SwitchedLabels, CheckLabels
  <2> QED BY <1>PutRunning, <2>2, <2>3 DEF PutRunning, Puts
<1>RecordFailure. ASSUME NEW t \in Threads, RecordFailure(t) PROVE VersionInv'
  <2> DEFINE s == th[t].svc
             n == [s EXCEPT !.phase = "failed"]
  <2>1. /\ ctr' = ctr /\ tomb' = tomb /\ Done(t) /\ Holding(t) /\ th[t].pc = "failing"
    BY <1>RecordFailure DEF RecordFailure, host, At, Holding, HoldingLabels
  <2>2. CASE PutFails
    BY <2>1, <2>2, ReturnVersion DEF PutFails, CtrKept
  <2>3. CASE rec' = n
    <3>1. s \in RecType
      BY <1>0, CopyType
    <3>2. n.phase = "failed" /\ n.op = s.op
      BY <3>1 DEF RecType
    <3>3. tomb = "none" => rec.op = s.op
      <4> DEFINE a == rec.state
                 b == rec.phase
      <4>1. tomb = "none" => rec = [s EXCEPT !.state = a, !.phase = b]
        BY <1>0, <2>1 DEF OneWriter, CopyIsCurrent, At
      <4> HIDE DEF a, b, s
      <4> QED BY <3>1, <4>1 DEF RecType
    <3> HIDE DEF n, s
    <3> QED BY <2>1, <2>3, <3>2, <3>3, EndVersion DEF VersionInv
  <2> QED BY <1>RecordFailure, <2>2, <2>3 DEF RecordFailure, Puts
<1>PutTargetState. ASSUME NEW t \in Threads, PutTargetState(t) PROVE VersionInv'
  <2> DEFINE c == th[t].svc
             s == [c EXCEPT !.state = c.op, !.phase = "routing"]
  <2>1. /\ ctr' = ctr /\ tomb' = tomb /\ Holding(t) /\ c \in RecType /\ c.op \in StateChanges
    BY <1>0, <1>PutTargetState, CopyType
    DEF PutTargetState, host, At, Holding, HoldingLabels, TypeInv, LocalOK, StateLabels,
        StateChanges
  <2>2. s.phase = "routing" /\ s.op = c.op
    BY <2>1 DEF RecType
  <2> HIDE DEF s, c
  <2>3. PICK l \in {"settle", "failing"} : GoWith(t, l, s)
    BY <1>PutTargetState DEF PutTargetState, s, c
  <2>4. OnlyMoves(t) /\ th'[t].pc = l
    BY <1>0, <2>3, GoWithMoves
  <2>5. ThreadVersion(t)'
    BY <2>4, UnversionedFacts
    DEF Unversioned, FirstLabels, MadeLabels, SwitchedLabels, CheckLabels
  <2>6. CASE rec' = rec
    BY <2>1, <2>4, <2>5, <2>6, HolderVersion
  <2>7. CASE rec' = s
    <3>1. rec' # NoRec /\ rec'.op # "provision" /\ RunsItsVersion'
      BY <2>1, <2>2, <2>7, NoRecFacts DEF StateChanges, RunsItsVersion
    <3> QED BY <2>1, <2>4, <2>5, <3>1, VersionFrom
  <2> QED BY <1>PutTargetState, <2>6, <2>7 DEF PutTargetState, Puts, PutFails, s, c
<1>PutStopped. ASSUME NEW t \in Threads, PutStopped(t) PROVE VersionInv'
  <2> DEFINE s == [th[t].svc EXCEPT !.phase = "stopped", !.op = "", !.tgt = "",
                                    !.tver = 0, !.tdom = NoDomain]
  <2>1. /\ ctr' = ctr /\ tomb' = tomb /\ Done(t)
    BY <1>PutStopped DEF PutStopped, host
  <2>2. CASE PutFails
    BY <2>1, <2>2, ReturnVersion DEF PutFails, CtrKept
  <2>3. CASE rec' = s
    <3>1. s.phase = "stopped" /\ s.op = ""
      BY <1>0, CopyType DEF RecType
    <3> HIDE DEF s
    <3> QED BY <2>1, <2>3, <3>1, EndVersion
  <2> QED BY <1>PutStopped, <2>2, <2>3 DEF PutStopped, Puts
<1>Domains. ASSUME NEW t \in Threads, RedeployTerminated(t) \/ ApplyDomains(t) PROVE VersionInv'
  <2>1. /\ ctr' = ctr /\ tomb' = tomb
        /\ Go(t, "resume") \/ Done(t)
    BY <1>Domains DEF RedeployTerminated, ApplyDomains, host
  <2>2. OnlyMoves(t) /\ th'[t].pc \in {"resume", "idle"}
    BY <1>0, <2>1, GoMoves, DoneMoves
  <2>3. ThreadVersion(t)' /\ CtrKept
    BY <2>1, <2>2, UnversionedFacts
    DEF CtrKept, Unversioned, FirstLabels, MadeLabels, SwitchedLabels, CheckLabels
  <2>4. CASE rec' = rec
    BY <2>1, <2>2, <2>3, <2>4, VersionStays
  <2>5. ASSUME /\ rec'.phase = rec.phase /\ rec'.op = rec.op /\ rec'.live = rec.live
               /\ rec.phase = "running" => rec'.ver = rec.ver
               /\ rec.phase \in {"running", "stopped"}
        PROVE  VersionInv'
    <3>1. rec' # NoRec
      BY <2>5, NoRecFacts
    <3>2. tomb = "none" => RunsItsVersion'
      BY <1>0, <2>3, <2>5, RunsKept DEF VersionInv
    <3> QED BY <2>1, <2>2, <2>3, <2>5, <3>1, <3>2, VersionFrom DEF VersionInv
  <2>6. CASE rec.phase = "stopped" /\ rec' = [rec EXCEPT !.dom = th[t].req.dom, !.ver = th[t].req.ver]
    <3> DEFINE x == th[t].req.dom
               y == th[t].req.ver
    <3>1. rec' = [rec EXCEPT !.dom = x, !.ver = y]
      BY <2>6
    <3> HIDE DEF x, y
    <3>2. rec'.phase = rec.phase /\ rec'.op = rec.op /\ rec'.live = rec.live
      BY <1>0, <3>1, LiveFacts DEF RecType
    <3> QED BY <2>5, <2>6, <3>2
  <2>7. CASE ApplyDomains(t) /\ UnchangedSince(th[t].svc) /\ rec' = [rec EXCEPT !.dom = th[t].req.dom]
    <3> DEFINE x == th[t].req.dom
    <3>1. rec' = [rec EXCEPT !.dom = x]
      BY <2>7
    <3> HIDE DEF x
    <3>2. /\ rec'.phase = rec.phase /\ rec'.op = rec.op /\ rec'.live = rec.live
          /\ rec'.ver = rec.ver
      BY <1>0, <3>1, LiveFacts DEF RecType
    <3>3. rec.phase \in {"running", "stopped"}
      BY <1>0, <2>7 DEF ApplyDomains, At, UnchangedSince, TypeInv, LocalOK
    <3> QED BY <2>5, <3>2, <3>3
  <2> QED BY <1>Domains, <2>4, <2>6, <2>7 DEF RedeployTerminated, ApplyDomains, Puts, PutFails
<1>Bury. ASSUME NEW t \in Threads, Bury(t) PROVE VersionInv'
  <2>1. CASE tomb' = "none"
    <3>1. rec' = rec /\ ctr' = ctr /\ tomb = "none" /\ Done(t)
      BY <1>Bury, <2>1 DEF Bury, PutFails, host
    <3> QED BY <3>1, ReturnVersion DEF CtrKept
  <2> QED BY <2>1 DEF VersionInv
<1>Buried. ASSUME NEW t \in Threads, PutTombstone(t) PROVE VersionInv'
  <2>1. tomb' # "none"
    BY <1>0, <1>Buried DEF PutTombstone, At, DeleteInv, BuriedLabels
  <2> QED BY <2>1 DEF VersionInv
<1>Restart. ASSUME Restart PROVE VersionInv'
  <2>1. /\ rec' = Interrupted(rec) /\ ctr' = ctr
        /\ tomb' = "none" => tomb = "none"
        /\ th' = [t \in Threads |-> Idle]
    BY <1>Restart DEF Restart, host
  <2>2. CtrKept
    BY <2>1 DEF CtrKept
  <2>3. ASSUME tomb = "none" PROVE rec' # NoRec /\ rec'.op # "provision" /\ RunsItsVersion'
    <3>1. CASE rec.phase \in Busy
      <4>1. rec' = [rec EXCEPT !.phase = "failed"]
        BY <2>1, <3>1 DEF Interrupted
      <4>2. rec'.phase = "failed" /\ rec'.op = rec.op
        BY <1>0, <4>1, LiveFacts DEF RecType
      <4> QED BY <2>3, <4>2, NoRecFacts DEF VersionInv, RunsItsVersion
    <3>2. CASE rec.phase \notin Busy
      BY <1>0, <2>1, <2>2, <2>3, <3>2, RunsKept DEF Interrupted, VersionInv
    <3> QED BY <3>1, <3>2
  <2>4. \A t \in Threads : ThreadVersion(t)'
    BY <2>1, UnversionedFacts
    DEF Idle, Unversioned, FirstLabels, MadeLabels, SwitchedLabels, CheckLabels
  <2> QED BY <2>1, <2>3, <2>4 DEF VersionInv
<1>Stutter. ASSUME UNCHANGED vars PROVE VersionInv'
  BY <1>Stutter DEF vars, VersionInv, RunsItsVersion, ThreadVersion, At, Awaits
<1> QED
  BY <1>Strangers, <1>First, <1>UpgradeClaim, <1>Resume, <1>ChangeState, <1>Delete,
     <1>Holders, <1>RemoveTarget, <1>StartSlot, <1>PutWaiting, <1>CheckHealth,
     <1>HealthVerdict, <1>RouteTarget, <1>RemoveLive, <1>PutDraining, <1>PutRunning,
     <1>RecordFailure, <1>PutTargetState, <1>PutStopped, <1>Domains, <1>Bury, <1>Buried,
     <1>Restart, <1>Stutter
  DEF Next, Call, Work

-----------------------------------------------------------------------------
LEMMA ServedFromRest == Settled /\ [][Next]_vars => [](CoreInv /\ ServedInv /\ VersionInv)
  <1>1. CoreInv /\ ServedInv /\ VersionInv /\ [Next]_vars
        => (CoreInv /\ ServedInv /\ VersionInv)'
    <2> SUFFICES ASSUME CoreInv, ServedInv, VersionInv, [Next]_vars
                 PROVE  (CoreInv /\ ServedInv /\ VersionInv)'
      OBVIOUS
    <2>1. \A t \in Threads : ProvisionClaim(t) => OnlyRetries
      BY DEF ProvisionClaim, At, OnlyRetries, VersionInv, ThreadVersion, FirstLabels
    <2> QED BY <2>1, CoreInvStep, ServedInvStep, VersionInvStep DEF CoreInv
  <1> QED BY <1>1, SettledInv, PTL

(* From any state of rest on, whatever calls race, whatever fails and      *)
(* wherever the controller dies: what "running" and "stopped" promise is   *)
(* so, and a running service runs the version its record names             *)
(* (manager.go:470-478, 1119-1180, docker.go:233-240).                     *)
THEOREM RestIsServed ==
  Settled /\ [][Next]_vars =>
    /\ []RunningIsServed
    /\ []StoppedIsQuiet
    /\ []RunsItsVersion
  <1>1. ServedInv /\ VersionInv => RunningIsServed /\ StoppedIsQuiet /\ RunsItsVersion
    BY DEF ServedInv, RecordServed, VersionInv, RunningIsServed, StoppedIsQuiet, RunsItsVersion
  <1> QED BY <1>1, ServedFromRest, PTL

-----------------------------------------------------------------------------
(* Upgrades.  A crash, a forced removal that errs after it has killed the  *)
(* container, or a slot directory that cannot be removed, between the old  *)
(* container and the record that says it is gone: the outage the run       *)
(* upgrade_outage shows.                                                   *)
NoOutage == "crash" \notin Faults /\ "kill" \notin Faults /\ "cache" \notin Faults

(* The old deployment stays until the record says "draining", and whoever  *)
(* records a failure finds it there.                                       *)
RecordUpgrade ==
  rec.op = "upgrade" =>
    /\ route.mode = "proxy" /\ route.slot \in Slots /\ Serves(route.slot)
    /\ rec.phase # "draining" => Serves(rec.live)

ThreadUpgrade(t) ==
  rec.op = "upgrade" =>
    /\ th[t].pc \in {"drain", "failing"} => Serves(rec.live)
    /\ At(t, "removeTarget") => route.slot = rec.live

UpgradeInv == tomb = "none" => RecordUpgrade /\ \A t \in Threads : ThreadUpgrade(t)

ServingKept == \A s \in Slots : Serves(s) => Serves(s)'

(* Until it has a tombstone, whose record says "upgrade" after a step.     *)
LEMMA UpgradeFrom ==
  ASSUME CoreInv, UpgradeInv, [Next]_vars,
         NEW t \in Threads, OnlyMoves(t), tomb' = "none" => tomb = "none",
         \/ Holding(t)
         \/ CtrKept /\ (~Taken(rec) \/ (rec' = rec /\ route' = route)),
         tomb = "none" /\ rec'.op = "upgrade" => RecordUpgrade' /\ ThreadUpgrade(t)'
  PROVE  UpgradeInv'
  <1> SUFFICES ASSUME tomb = "none", rec'.op = "upgrade", NEW u \in Threads, u # t
               PROVE  ThreadUpgrade(u)'
    BY DEF UpgradeInv, RecordUpgrade, ThreadUpgrade
  <1> USE DEF CoreInv
  <1>1. th'[u] = th[u] /\ ThreadUpgrade(u)
    BY DEF OnlyMoves, UpgradeInv
  <1>2. CASE Holding(u)
    <2>1. CtrKept /\ rec' = rec /\ route' = route
      BY <1>2, HeldIsCurrent
    <2>2. Serves(rec.live) => Serves(rec.live)'
      BY <2>1, LiveFacts, KeptFacts DEF Serves
    <2> QED BY <1>1, <2>1, <2>2 DEF ThreadUpgrade, At
  <1>3. CASE ~Holding(u)
    BY <1>1, <1>3 DEF ThreadUpgrade, At, Holding, HoldingLabels
  <1> QED BY <1>2, <1>3

LEMMA RecordUpgradeKept ==
  ASSUME TypeInv, RecordUpgrade, ServingKept, rec' = rec, route' = route
  PROVE  RecordUpgrade'
  BY LiveFacts DEF RecordUpgrade, ServingKept

UpgradeSilent(t) == th[t].pc \notin {"drain", "failing", "removeTarget"}

LEMMA KeptServes == ASSUME TypeInv, CtrKept PROVE ServingKept
  BY KeptFacts DEF ServingKept, Serves

(* A step that leaves the record and the route.                            *)
LEMMA UpgradeStays ==
  ASSUME CoreInv, UpgradeInv, [Next]_vars,
         NEW t \in Threads, OnlyMoves(t), tomb' = "none" => tomb = "none",
         rec' = rec, route' = route, CtrKept \/ (Holding(t) /\ ServingKept),
         \/ UpgradeSilent(t)'
         \/ tomb = "none" => ThreadUpgrade(t)'
  PROVE  UpgradeInv'
  <1>1. ServingKept
    BY KeptServes DEF CoreInv
  <1>2. tomb = "none" => RecordUpgrade' /\ ThreadUpgrade(t)'
    BY <1>1, RecordUpgradeKept DEF UpgradeInv, CoreInv, UpgradeSilent, ThreadUpgrade, At
  <1> QED BY <1>2, UpgradeFrom

LEMMA ReturnUpgrade ==
  ASSUME CoreInv, UpgradeInv, [Next]_vars,
         NEW t \in Threads, Done(t), tomb' = "none" => tomb = "none",
         rec' = rec, route' = route, CtrKept
  PROVE  UpgradeInv'
  <1>1. OnlyMoves(t) /\ th'[t].pc = "idle"
    BY DoneMoves DEF CoreInv
  <1> QED BY <1>1, UpgradeStays DEF UpgradeSilent

(* A holder that fails before the old container is removed.                *)
LEMMA FailingUpgrade ==
  ASSUME CoreInv, UpgradeInv, [Next]_vars,
         NEW t \in Threads, Holding(t), Go(t, "failing"), tomb' = tomb,
         rec' = rec, route' = route, ServingKept,
         tomb = "none" /\ rec.op = "upgrade" /\ rec.phase = "draining" => Serves(rec.live)
  PROVE  UpgradeInv'
  <1>1. OnlyMoves(t) /\ th'[t].pc = "failing"
    BY GoMoves DEF CoreInv
  <1>2. ASSUME tomb = "none", rec.op = "upgrade" PROVE Serves(rec.live)'
    BY <1>2, LiveFacts DEF CoreInv, UpgradeInv, RecordUpgrade, ServingKept
  <1>3. tomb = "none" => ThreadUpgrade(t)'
    BY <1>1, <1>2 DEF ThreadUpgrade, At
  <1> QED BY <1>1, <1>3, UpgradeStays

(* A record that does not say "upgrade" after a step.                      *)
LEMMA NoUpgrade ==
  ASSUME tomb' = "none" => rec'.op # "upgrade"
  PROVE  UpgradeInv'
  BY DEF UpgradeInv, RecordUpgrade, ThreadUpgrade

LEMMA UpgradeInvStep ==
  ASSUME NoOutage, CoreInv, ServedInv, UpgradeInv, [Next]_vars
  PROVE  UpgradeInv'
<1>0. TypeInv /\ OneWriter /\ DeleteInv /\ RecordInv /\ AttemptInv
  BY DEF CoreInv
<1>Strangers. ASSUME NEW t \in Threads,
                    \/ ProvisionLookup(t) \/ HasVersion(t) \/ UpgradeFromCall(t)
                    \/ Reconcile(t) \/ Provision(t) \/ Upgrade(t) \/ DeployDomains(t)
             PROVE  UpgradeInv'
  <2>1. rec' = rec /\ ctr' = ctr /\ route' = route /\ tomb' = tomb
    BY <1>Strangers
    DEF ProvisionLookup, HasVersion, UpgradeFromCall, Reconcile, Provision, Upgrade,
        DeployDomains, host
  <2>2. CASE Provision(t) \/ Upgrade(t)
    <3>1. PICK l \in {"lookup", "upgradeImage"}, r \in Requests :
            th' = [th EXCEPT ![t].pc = l, ![t].req = r]
      BY <2>2 DEF Provision, Upgrade
    <3>2. OnlyMoves(t) /\ th'[t].pc = l
      BY <1>0, <3>1 DEF OnlyMoves, TypeInv, TypeOK, ThreadType
    <3> QED BY <2>1, <3>2, UpgradeStays DEF CtrKept, UpgradeSilent
  <2>3. ASSUME \/ ProvisionLookup(t) \/ HasVersion(t) \/ UpgradeFromCall(t)
               \/ Reconcile(t) \/ DeployDomains(t)
        PROVE  UpgradeInv'
    <3>1. HasVersion(t) => ClaimLabel[th[t].pc] \in {"claim", "upgradeClaim", "redeployClaim"}
      BY DEF HasVersion, ClaimLabel
    <3>2. PICK l \in {"image", "reconcile", "claim", "upgradeClaim", "redeployClaim",
                      "upgradeImage", "upgrade", "domains", "redeployImage",
                      "applyDomains", "idle"} :
            Go(t, l) \/ Done(t) \/ GoWith(t, l, rec)
      BY <2>3, <3>1
      DEF ProvisionLookup, HasVersion, UpgradeFromCall, Reconcile, DeployDomains
    <3>3. OnlyMoves(t) /\ th'[t].pc \in {l, "idle"}
      BY <1>0, <3>2, GoMoves, GoWithMoves, DoneMoves
    <3> QED BY <2>1, <3>3, UpgradeStays DEF CtrKept, UpgradeSilent
  <2> QED BY <1>Strangers, <2>2, <2>3
<1>ProvisionClaim. ASSUME NEW t \in Threads, ProvisionClaim(t) PROVE UpgradeInv'
  <2> DEFINE r == th[t].req
             again == [rec EXCEPT !.phase = "provisioning", !.op = "provision",
                                  !.tgt = "blue", !.tver = r.ver]
  <2>1. ctr' = ctr /\ route' = route /\ tomb' = tomb
    BY <1>ProvisionClaim DEF ProvisionClaim, host
  <2>2. FreshRecord(r).op = "provision" /\ again.op = "provision"
    BY <1>0, LiveFacts DEF FreshRecord, RecType
  <2>3. CASE rec' = FreshRecord(r) \/ rec' = again
    BY <2>2, <2>3, NoUpgrade
  <2>4. CASE Done(t) /\ UNCHANGED rec
    BY <2>1, <2>4, ReturnUpgrade DEF CtrKept
  <2> QED BY <1>ProvisionClaim, <2>3, <2>4 DEF ProvisionClaim, Claims, PutFails
<1>UpgradeClaim. ASSUME NEW t \in Threads, UpgradeClaim(t) PROVE UpgradeInv'
  <2> DEFINE r == th[t].req
             op == IF ReplaceableActivation(rec) THEN rec.op ELSE "upgrade"
             u == UpgradeRecord(rec, r)
  <2>1. ctr' = ctr /\ route' = route /\ tomb' = tomb
    BY <1>UpgradeClaim DEF UpgradeClaim, host
  <2>2. CASE UpgradeAllowed(rec, r) /\ Claims(t, "isolate", r, u, health.seq + 1)
    <3>1. u.phase = "starting" /\ u.op = op /\ u.live = rec.live
      <4> DEFINE tgt == IF op = "provision" THEN rec.live ELSE Opposite(rec.live)
                 kept == IF ReplaceableActivation(rec) \/ rec.phase = "waiting_for_health"
                           THEN rec.tdom ELSE NoDomain
                 dom == IF r.dom # NoDomain THEN r.dom ELSE kept
      <4>1. u = [rec EXCEPT !.phase = "starting", !.op = op, !.tgt = tgt,
                            !.tver = r.ver, !.tdom = dom]
        BY DEF UpgradeRecord
      <4> HIDE DEF u, op, tgt, dom, r
      <4> QED BY <1>0, <4>1, LiveFacts DEF RecType
    <3>2. ~Taken(rec)
      BY <2>2 DEF UpgradeAllowed, Replaceable, Taken
    <3> HIDE DEF u
    <3>3. OnlyMoves(t) /\ th'[t].pc = "isolate" /\ rec' = u
      BY <1>0, <2>2, ClaimMoves
    <3>4. ASSUME tomb = "none", rec'.op = "upgrade"
          PROVE  /\ route.mode = "proxy" /\ route.slot \in Slots /\ Serves(route.slot)
                 /\ Serves(rec.live)
      <4>1. ~ReplaceableActivation(rec) \/ rec.op = "upgrade"
        BY <3>1, <3>3, <3>4
      <4>2. /\ rec.state = "active" \/ rec.op = "upgrade"
            /\ rec.phase = "failed" => rec.op = "upgrade"
            /\ rec.phase \notin Busy \/ rec.phase = "waiting_for_health"
        BY <2>2, <4>1 DEF UpgradeAllowed, ReplaceableActivation, Replaceable
      <4>3. CASE rec.op = "upgrade"
        BY <3>2, <3>4, <4>3 DEF UpgradeInv, RecordUpgrade, Taken, Busy
      <4>4. CASE rec.op # "upgrade"
        <5>1. rec # NoRec
          BY <4>2, <4>4, NoRecFacts
        <5>2. WellFormed(rec)
          BY <1>0, <3>4, <5>1 DEF RecordInv
        <5>3. rec.phase # "waiting_for_health"
          BY <4>1, <4>4, <5>2 DEF WellFormed, ReplaceableActivation, Deploys
        <5>4. rec.phase # "stopped"
          BY <3>4, <4>2, <4>4, ServedFacts
        <5>5. rec.phase = "running"
          BY <4>2, <4>4, <5>2, <5>3, <5>4 DEF WellFormed, Phases, Busy
        <5>6. route.mode = "proxy" /\ route.slot = rec.live /\ Serves(rec.live)
          BY <3>4, <5>5, ServedFacts
        <5> QED BY <1>0, <5>6, LiveFacts
      <4> QED BY <4>3, <4>4
    <3>5. tomb = "none" /\ rec'.op = "upgrade" => RecordUpgrade' /\ ThreadUpgrade(t)'
      BY <2>1, <3>1, <3>3, <3>4 DEF RecordUpgrade, ThreadUpgrade, At, Serves
    <3> QED BY <2>1, <3>2, <3>3, <3>5, UpgradeFrom DEF CtrKept
  <2>3. CASE Done(t) /\ UNCHANGED rec
    BY <2>1, <2>3, ReturnUpgrade DEF CtrKept
  <2> QED BY <1>UpgradeClaim, <2>2, <2>3 DEF UpgradeClaim, PutFails
<1>Resume. ASSUME NEW t \in Threads, Resume(t) \/ ResumeFromCall(t) PROVE UpgradeInv'
  <2>1. ctr' = ctr /\ route' = route /\ tomb' = tomb
    BY <1>Resume DEF Resume, ResumeFromCall, host
  <2>2. ASSUME NEW r, ResumeClaim(t, r) PROVE UpgradeInv'
    <3> DEFINE s == [rec EXCEPT !.phase = "starting", !.op = "resume",
                                !.tgt = Opposite(rec.live), !.tver = rec.ver,
                                !.tdom = NoDomain]
    <3>1. rec' = s
      BY <2>2 DEF ResumeClaim, Claims
    <3>2. s.op = "resume"
      BY <1>0, LiveFacts DEF RecType
    <3> HIDE DEF s
    <3> QED BY <3>1, <3>2, NoUpgrade
  <2>3. ASSUME NEW r, ResumeRedeploys(t, r) PROVE UpgradeInv'
    <3>1. OnlyMoves(t) /\ th'[t].pc = "upgrade" /\ rec' = rec
      BY <1>0, <2>3 DEF ResumeRedeploys, OnlyMoves, TypeInv, TypeOK, ThreadType
    <3> QED BY <2>1, <3>1, UpgradeStays DEF CtrKept, UpgradeSilent
  <2>4. CASE Done(t) /\ UNCHANGED rec
    BY <2>1, <2>4, ReturnUpgrade DEF CtrKept
  <2> QED BY <1>Resume, <2>2, <2>3, <2>4 DEF Resume, ResumeFromCall, PutFails
<1>ChangeState. ASSUME NEW t \in Threads, ChangeState(t) PROVE UpgradeInv'
  <2>1. PICK r \in Requests :
          /\ r.kind \in {"suspend", "terminate"}
          /\ rec' = [rec EXCEPT !.phase = "stopping", !.tdom = NoDomain,
                                !.op = TargetState[r.kind]]
    BY <1>ChangeState DEF ChangeState, Claims
  <2> DEFINE x == TargetState[r.kind]
  <2>2. x # "upgrade" /\ rec' = [rec EXCEPT !.phase = "stopping", !.tdom = NoDomain, !.op = x]
    BY <2>1 DEF TargetState
  <2> HIDE DEF x
  <2>3. rec'.op = x
    BY <1>0, <2>2, LiveFacts DEF RecType
  <2> QED BY <2>2, <2>3, NoUpgrade
<1>Delete. ASSUME NEW t \in Threads, Delete(t) PROVE UpgradeInv'
  <2>1. ASSUME tomb' = "none" PROVE rec'.op = "delete"
    <3>1. PICK r \in Requests :
            rec' = [rec EXCEPT !.phase = "deleting", !.op = "delete"]
      BY <1>Delete, <2>1 DEF Delete, Claims
    <3> QED BY <1>0, <3>1, LiveFacts DEF RecType
  <2> QED BY <2>1, NoUpgrade
<1>Domains. ASSUME NEW t \in Threads, RedeployTerminated(t) \/ ApplyDomains(t) PROVE UpgradeInv'
  <2>1. ctr' = ctr /\ tomb' = tomb
    BY <1>Domains DEF RedeployTerminated, ApplyDomains, host
  <2>2. CASE Done(t) /\ UNCHANGED <<rec, route>>
    BY <2>1, <2>2, ReturnUpgrade DEF CtrKept
  <2>3. CASE rec.phase \in {"running", "stopped"} /\ rec'.op = rec.op
    <3>1. tomb = "none" => rec.op = ""
      BY <2>3, ServedFacts
    <3> QED BY <2>1, <2>3, <3>1, NoUpgrade
  <2>4. CASE RedeployTerminated(t)
    <3> DEFINE x == th[t].req.dom
               y == th[t].req.ver
               n == [rec EXCEPT !.dom = x, !.ver = y]
    <3>1. n.op = rec.op
      <4> HIDE DEF x, y
      <4> QED BY <1>0, LiveFacts DEF RecType
    <3> HIDE DEF n, x, y
    <3>2. CASE Done(t) /\ UNCHANGED <<rec, route>>
      BY <3>2, <2>2
    <3>3. CASE rec.phase = "stopped" /\ rec' = n
      BY <3>1, <3>3, <2>3
    <3> QED BY <2>4, <3>2, <3>3 DEF RedeployTerminated, Puts, PutFails, n, x, y, host
  <2>5. CASE ApplyDomains(t) /\ ~(rec' = rec /\ route' = route)
    <3> DEFINE x == th[t].req.dom
               n == [rec EXCEPT !.dom = x]
    <3>1. n.op = rec.op
      <4> HIDE DEF x
      <4> QED BY <1>0, LiveFacts DEF RecType
    <3>2. UnchangedSince(th[t].svc) /\ rec' \in {rec, n}
      BY <2>5 DEF ApplyDomains, Puts, PutFails
    <3>3. rec.phase \in {"running", "stopped"}
      BY <1>0, <2>5, <3>2 DEF ApplyDomains, At, UnchangedSince, TypeInv, LocalOK
    <3> QED BY <2>3, <3>1, <3>2, <3>3
  <2> QED BY <1>Domains, <2>2, <2>4, <2>5 DEF ApplyDomains
<1>Holding. ASSUME NEW t \in Threads, Holding(t), tomb = "none", th[t].pc # "failing"
            PROVE  /\ th[t].svc = rec /\ Taken(rec) /\ WellFormed(rec) /\ StageOK(th[t])
  BY <1>0, <1>Holding, HeldIsCurrent, HeldIsWellFormed
<1>NotUpgrading. ASSUME NEW t \in Threads, th[t].pc \in StateLabels \union WipeLabels,
                        tomb = "none"
                 PROVE  rec.op # "upgrade" /\ th[t].svc = rec
  <2>1. Holding(t) /\ th[t].pc # "failing"
    BY <1>NotUpgrading DEF Holding, HoldingLabels, StateLabels, WipeLabels
  <2>2. th[t].svc = rec /\ WellFormed(rec)
    BY <1>NotUpgrading, <1>Holding, <2>1
  <2>3. CASE th[t].pc \in StateLabels
    BY <1>0, <2>2, <2>3 DEF TypeInv, LocalOK
  <2>4. CASE th[t].pc \in WipeLabels
    BY <1>0, <2>2, <2>4 DEF DeleteInv, Deleting, WellFormed, Busy
  <2> QED BY <1>NotUpgrading, <2>2, <2>3, <2>4
<1>Ending. ASSUME NEW t \in Threads,
                  \/ StopContainers(t) \/ FinishRouting(t) \/ Unroute(t)
                  \/ RemoveContainers(t) \/ RemoveRoute(t) \/ DestroyDataset(t)
                  \/ RemoveMountpoint(t) \/ PutTargetState(t) \/ PutStopped(t) \/ Bury(t)
           PROVE  UpgradeInv'
  <2>1. th[t].pc \in StateLabels \union WipeLabels
    BY <1>Ending
    DEF StopContainers, FinishRouting, Unroute, RemoveContainers, RemoveRoute, DestroyDataset,
        RemoveMountpoint, PutTargetState, PutStopped, Bury, At, StateLabels, WipeLabels
  <2>2. tomb' = "none" => tomb = "none"
    BY <1>Ending
    DEF StopContainers, FinishRouting, Unroute, RemoveContainers, RemoveRoute, DestroyDataset,
        RemoveMountpoint, PutTargetState, PutStopped, Bury, PutFails
  <2>3. CASE rec' = rec
    BY <1>NotUpgrading, <2>1, <2>2, <2>3, NoUpgrade
  <2>4. CASE rec' # rec /\ tomb' = "none"
    <3> DEFINE c == th[t].svc
               a == [c EXCEPT !.state = c.op, !.phase = "routing"]
               b == [c EXCEPT !.phase = "stopped", !.op = "", !.tgt = "",
                              !.tver = 0, !.tdom = NoDomain]
    <3>1. a.op = c.op /\ b.op = ""
      BY <1>0, CopyType DEF RecType
    <3>2. rec' = a \/ rec' = b
      BY <1>Ending, <2>4
      DEF StopContainers, FinishRouting, Unroute, RemoveContainers, RemoveRoute,
          DestroyDataset, RemoveMountpoint, PutTargetState, PutStopped, Bury, Puts, PutFails
    <3>3. c.op # "upgrade"
      BY <1>NotUpgrading, <2>1, <2>2, <2>4
    <3> HIDE DEF a, b, c
    <3> QED BY <3>1, <3>2, <3>3, NoUpgrade
  <2> QED BY <2>3, <2>4, NoUpgrade
<1>Prepare. ASSUME NEW t \in Threads, PrepareStorage(t) \/ EnsureIsolation(t)
            PROVE  UpgradeInv'
  <2>1. /\ rec' = rec /\ ctr' = ctr /\ route' = route /\ tomb' = tomb
        /\ Holding(t) /\ th[t].pc \in {"storage", "isolate"}
    BY <1>Prepare DEF PrepareStorage, EnsureIsolation, host, At, Holding, HoldingLabels
  <2>2. CtrKept /\ ServingKept
    BY <2>1 DEF CtrKept, ServingKept, Serves
  <2>3. CASE Go(t, "failing")
    <3>1. tomb = "none" => rec.phase # "draining"
      BY <1>Holding, <2>1 DEF StageOK
    <3> QED BY <2>1, <2>2, <2>3, <3>1, FailingUpgrade
  <2>4. ASSUME NEW l \in {"start", "restore"}, Go(t, l) PROVE UpgradeInv'
    BY <1>0, <2>1, <2>2, <2>4, GoMoves, UpgradeStays DEF UpgradeSilent
  <2>5. CASE Go(t, "removeTarget") /\ th[t].svc.op # "upgrade"
    <3>1. OnlyMoves(t)
      BY <1>0, <2>5, GoMoves
    <3>2. tomb = "none" => rec.op # "upgrade"
      BY <1>Holding, <2>1, <2>5
    <3> QED BY <2>1, <3>2, NoUpgrade
  <2> QED BY <1>Prepare, <2>3, <2>4, <2>5 DEF PrepareStorage, EnsureIsolation, Fails
<1>RestoreLiveRoute. ASSUME NEW t \in Threads, RestoreLiveRoute(t) PROVE UpgradeInv'
  <2> DEFINE s == th[t].svc
  <2>1. /\ rec' = rec /\ ctr' = ctr /\ tomb' = tomb /\ Holding(t) /\ th[t].pc = "restore"
    BY <1>RestoreLiveRoute DEF RestoreLiveRoute, At, Holding, HoldingLabels
  <2>2. ServingKept
    BY <2>1 DEF ServingKept, Serves
  <2>3. tomb = "none" => s = rec /\ rec.phase = "starting"
    BY <1>Holding, <2>1 DEF StageOK
  <2>4. CASE Go(t, "failing") /\ route' = route
    BY <2>1, <2>2, <2>3, <2>4, FailingUpgrade
  <2>5. CASE /\ Go(t, "removeTarget")
             /\ route' = IF route.mode = "proxy" /\ route.slot = s.live
                           THEN route ELSE Proxy(s.live, s.dom)
    <3>1. OnlyMoves(t)
      BY <1>0, <2>5, GoMoves
    <3> HIDE DEF s
    <3>2. route'.mode = "proxy" /\ route'.slot = s.live
      BY <2>5 DEF Proxy
    <3>3. ASSUME tomb = "none", rec'.op = "upgrade"
          PROVE  RecordUpgrade' /\ ThreadUpgrade(t)'
      <4>1. Serves(rec.live) /\ s = rec /\ rec.live \in Slots
        BY <1>0, <2>1, <2>3, <3>3, LiveFacts DEF UpgradeInv, RecordUpgrade
      <4>2. Serves(rec.live)' /\ route'.slot = rec.live /\ Serves(route.slot)'
        BY <2>1, <2>2, <3>2, <4>1 DEF ServingKept, Serves
      <4> QED BY <2>1, <3>2, <4>1, <4>2 DEF RecordUpgrade, ThreadUpgrade
    <3> QED BY <2>1, <3>1, <3>3, UpgradeFrom
  <2> QED BY <1>RestoreLiveRoute, <2>4, <2>5 DEF RestoreLiveRoute, Fails
<1>RemoveTarget. ASSUME NEW t \in Threads, RemoveTarget(t) PROVE UpgradeInv'
  <2>1. /\ rec' = rec /\ route' = route /\ tomb' = tomb
        /\ Holding(t) /\ th[t].pc = "removeTarget" /\ th[t].pc \in TargetLabels
    BY <1>RemoveTarget DEF RemoveTarget, At, Holding, HoldingLabels, TargetLabels
  <2>2. tomb = "none" => th[t].svc = rec /\ rec.phase = "starting"
    BY <1>Holding, <2>1 DEF StageOK
  <2>3. CASE Go(t, "failing") /\ ctr' = ctr
    <3>1. ServingKept
      BY <2>3 DEF ServingKept, Serves
    <3> QED BY <2>1, <2>2, <2>3, <3>1, FailingUpgrade
  <2>4. CASE Go(t, "start") /\ ctr' = [ctr EXCEPT ![th[t].svc.tgt] = NoCtr]
    <3>1. OnlyMoves(t) /\ th'[t].pc = "start"
      BY <1>0, <2>4, GoMoves
    <3>2. ASSUME tomb = "none", rec'.op = "upgrade"
          PROVE  RecordUpgrade' /\ ThreadUpgrade(t)'
      <4>1. /\ rec.op = "upgrade" /\ th[t].svc = rec /\ rec.tgt # rec.live
            /\ rec.live \in Slots
        BY <1>0, <2>1, <3>2, TargetFacts
      <4>2. /\ route.mode = "proxy" /\ route.slot = rec.live /\ Serves(rec.live)
        BY <2>1, <2>2, <3>2, <4>1 DEF UpgradeInv, RecordUpgrade, ThreadUpgrade, At
      <4>3. ctr'[rec.live] = ctr[rec.live]
        BY <1>0, <2>4, <4>1, LiveFacts
      <4> QED BY <2>1, <3>1, <4>1, <4>2, <4>3 DEF RecordUpgrade, ThreadUpgrade, At, Serves
    <3> QED BY <2>1, <3>1, <3>2, UpgradeFrom
  <2> QED BY <1>RemoveTarget, <2>3, <2>4 DEF RemoveTarget, Fails, Fault, NoOutage
<1>StartSlot. ASSUME NEW t \in Threads, StartSlot(t) PROVE UpgradeInv'
  <2> DEFINE s == th[t].svc.tgt
  <2>1. /\ rec' = rec /\ route' = route /\ tomb' = tomb
        /\ Holding(t) /\ th[t].pc = "start" /\ s \in Slots
    BY <1>0, <1>StartSlot
    DEF StartSlot, At, Holding, HoldingLabels, TypeInv, LocalOK, TargetLabels
  <2>2. ServingKept
    <3> DEFINE new == IF ctr[s].up = "absent" THEN th[t].svc.tver ELSE ctr[s].ver
    <3>1. \/ ctr' = ctr
          \/ /\ ctr[s].up # "running"
             /\ \E up \in {"running", "stopped"} :
                  ctr' = [ctr EXCEPT ![s] = [up |-> up, ver |-> new, ok |-> FALSE]]
      BY <1>StartSlot DEF StartSlot
    <3> HIDE DEF s, new
    <3>2. ctr' = ctr \/ (ctr[s].up # "running" /\ \A c \in Slots \ {s} : ctr'[c] = ctr[c])
      BY <1>0, <2>1, <3>1, LiveFacts
    <3> QED BY <3>2 DEF ServingKept, Serves
  <2>3. CASE Go(t, "failing")
    <3>1. tomb = "none" => rec.phase # "draining"
      BY <1>Holding, <2>1 DEF StageOK
    <3> QED BY <2>1, <2>2, <2>3, <3>1, FailingUpgrade
  <2>4. CASE Go(t, "putWaiting")
    BY <1>0, <2>1, <2>2, <2>4, GoMoves, UpgradeStays DEF UpgradeSilent
  <2> QED BY <1>StartSlot, <2>3, <2>4 DEF StartSlot, Fails
<1>PutWaiting. ASSUME NEW t \in Threads, PutWaiting(t) PROVE UpgradeInv'
  <2> DEFINE s == [th[t].svc EXCEPT !.phase = "waiting_for_health"]
             a == IF th[t].att = 0 THEN health.seq + 1 ELSE th[t].att
  <2>1. /\ ctr' = ctr /\ route' = route /\ tomb' = tomb
        /\ Holding(t) /\ th[t].pc = "putWaiting"
    BY <1>PutWaiting DEF PutWaiting, host, At, Holding, HoldingLabels
  <2>2. tomb = "none" => th[t].svc = rec /\ rec.phase # "draining"
    BY <1>Holding, <2>1 DEF StageOK
  <2>3. CASE PutFails /\ Go(t, "failing")
    BY <2>1, <2>2, <2>3, FailingUpgrade DEF PutFails, ServingKept, Serves
  <2>4. CASE rec' = s /\ th' = [th EXCEPT ![t].pc = "health", ![t].svc = s, ![t].att = a]
    <3>1. OnlyMoves(t) /\ th'[t].pc = "health"
      BY <1>0, <2>4 DEF OnlyMoves, TypeInv, TypeOK, ThreadType
    <3>2. /\ s.phase = "waiting_for_health" /\ s.op = th[t].svc.op /\ s.live = th[t].svc.live
      BY <1>0, CopyType DEF RecType
    <3> HIDE DEF s
    <3>3. tomb = "none" /\ rec'.op = "upgrade" => RecordUpgrade' /\ ThreadUpgrade(t)'
      BY <2>1, <2>2, <2>4, <3>1, <3>2
      DEF UpgradeInv, RecordUpgrade, ThreadUpgrade, At, Serves
    <3> QED BY <2>1, <3>1, <3>3, UpgradeFrom
  <2> QED BY <1>PutWaiting, <2>3, <2>4 DEF PutWaiting, Puts
<1>CheckHealth. ASSUME NEW t \in Threads, CheckHealth(t) PROVE UpgradeInv'
  <2> DEFINE s == th[t].svc.tgt
  <2>1. /\ th[t].pc = "health" /\ route' = route /\ rec' = rec /\ tomb' = tomb /\ s \in Slots
    BY <1>0, <1>CheckHealth DEF CheckHealth, At, TypeInv, LocalOK, TargetLabels
  <2>2. OnlyMoves(t) /\ th'[t].pc = "verdict"
    BY <1>0, <1>CheckHealth DEF CheckHealth, Go, OnlyMoves, TypeInv, TypeOK, ThreadType
  <2>3. CtrKept
    <3> HIDE DEF s
    <3>1. CASE ctr[s].up = "running" /\ ctr' = [ctr EXCEPT ![s].ok = TRUE]
      BY <1>0, <2>1, <3>1, LiveFacts DEF CtrKept
    <3> QED BY <1>CheckHealth, <3>1 DEF CheckHealth, CtrKept, s
  <2> QED BY <2>1, <2>2, <2>3, UpgradeStays DEF UpgradeSilent
<1>HealthVerdict. ASSUME NEW t \in Threads, HealthVerdict(t) PROVE UpgradeInv'
  <2>1. tomb' = tomb /\ ctr' = ctr /\ route' = route
    BY <1>HealthVerdict DEF HealthVerdict, host
  <2>2. CASE Done(t) /\ UNCHANGED rec
    BY <2>1, <2>2, ReturnUpgrade DEF CtrKept
  <2>3. ASSUME VerdictApplies(t), NEW p \in {"failed", "routing"}, NEW n,
               n = [rec EXCEPT !.phase = p], rec' = n, Done(t) \/ GoWith(t, "route", n)
        PROVE  UpgradeInv'
    <3>1. rec'.phase = p /\ rec'.op = rec.op /\ rec'.live = rec.live
      BY <1>0, <2>3, LiveFacts DEF RecType
    <3>2. OnlyMoves(t) /\ th'[t].pc \in {"idle", "route"}
      BY <1>0, <2>3, DoneMoves, GoWithMoves
    <3>3. rec.phase = "waiting_for_health" /\ ~Taken(rec) /\ CtrKept
      BY <2>1, <2>3 DEF VerdictApplies, Taken, CtrKept
    <3>4. tomb = "none" /\ rec'.op = "upgrade" => RecordUpgrade' /\ ThreadUpgrade(t)'
      BY <2>1, <3>1, <3>2, <3>3 DEF UpgradeInv, RecordUpgrade, ThreadUpgrade, At, Serves
    <3> QED BY <2>1, <3>2, <3>3, <3>4, UpgradeFrom
  <2> QED BY <1>HealthVerdict, <2>2, <2>3 DEF HealthVerdict, Puts, PutFails
<1>RouteTarget. ASSUME NEW t \in Threads, RouteTarget(t) PROVE UpgradeInv'
  <2> DEFINE d == RoutingDomain(th[t].svc)
  <2>1. /\ rec' = rec /\ ctr' = ctr /\ tomb' = tomb
        /\ Holding(t) /\ th[t].pc = "route" /\ th[t].pc \in TargetLabels
        /\ th[t].svc.op \in Deploys
    BY <1>0, <1>RouteTarget
    DEF RouteTarget, At, Holding, HoldingLabels, TargetLabels, TypeInv, LocalOK
  <2>2. CASE Go(t, "failing") /\ route' = route
    <3>1. tomb = "none" => rec.phase # "draining"
      BY <1>Holding, <2>1 DEF StageOK
    <3> QED BY <2>1, <2>2, <3>1, FailingUpgrade DEF ServingKept, Serves
  <2>3. CASE Go(t, AfterRoute[th[t].svc.op]) /\ route' = Proxy(th[t].svc.tgt, d)
    <3>1. AfterRoute[th[t].svc.op] \in {"putRunning", "removeOld", "putDraining"}
      BY <2>1 DEF AfterRoute, Deploys
    <3>2. OnlyMoves(t) /\ th'[t].pc = AfterRoute[th[t].svc.op]
      BY <1>0, <2>3, GoMoves
    <3> HIDE DEF d
    <3>3. ASSUME tomb = "none", rec'.op = "upgrade"
          PROVE  RecordUpgrade' /\ ThreadUpgrade(t)'
      <4>1. /\ th[t].svc = rec /\ Serves(rec.tgt) /\ rec.tgt \in Slots
            /\ rec.op = "upgrade" /\ rec.phase = "routing"
        BY <1>0, <2>1, <3>3, TargetFacts DEF ThreadServed, StageOK
      <4>2. route'.mode = "proxy" /\ route'.slot = rec.tgt
        BY <2>3, <4>1 DEF Proxy
      <4> QED BY <2>1, <3>1, <3>2, <3>3, <4>1, <4>2
              DEF UpgradeInv, RecordUpgrade, ThreadUpgrade, At, Serves
    <3> QED BY <2>1, <3>2, <3>3, UpgradeFrom
  <2> QED BY <1>RouteTarget, <2>2, <2>3 DEF RouteTarget, Fails
<1>RemovePreviousSlot. ASSUME NEW t \in Threads, RemovePreviousSlot(t) PROVE UpgradeInv'
  <2>1. rec' = rec /\ tomb' = tomb /\ Holding(t) /\ th[t].pc = "removeOld"
    BY <1>RemovePreviousSlot DEF RemovePreviousSlot, At, Holding, HoldingLabels
  <2>2. tomb = "none" => rec.op = "resume"
    BY <1>Holding, <2>1 DEF StageOK
  <2> QED BY <2>1, <2>2, NoUpgrade
<1>PutDraining. ASSUME NEW t \in Threads, PutDraining(t) PROVE UpgradeInv'
  <2> DEFINE d == RoutingDomain(th[t].svc)
             s == [th[t].svc EXCEPT !.phase = "draining", !.tdom = NoDomain, !.dom = d]
  <2>1. /\ ctr' = ctr /\ route' = route /\ tomb' = tomb
        /\ Holding(t) /\ th[t].pc = "putDraining"
    BY <1>PutDraining DEF PutDraining, host, At, Holding, HoldingLabels
  <2>2. CASE PutFails /\ Done(t)
    BY <2>1, <2>2, ReturnUpgrade DEF PutFails, CtrKept
  <2>3. CASE rec' = s /\ GoWith(t, "drain", s)
    <3> HIDE DEF d
    <3>1. s.phase = "draining" /\ s.op = th[t].svc.op /\ s.live = th[t].svc.live
      BY <1>0, CopyType DEF RecType
    <3> HIDE DEF s
    <3>2. OnlyMoves(t) /\ th'[t].pc = "drain"
      BY <1>0, <2>3, GoWithMoves
    <3>3. tomb = "none" => th[t].svc = rec /\ rec.phase = "routing"
      BY <1>Holding, <2>1 DEF StageOK
    <3>4. tomb = "none" /\ rec'.op = "upgrade" => RecordUpgrade' /\ ThreadUpgrade(t)'
      BY <2>1, <2>3, <3>1, <3>2, <3>3
      DEF UpgradeInv, RecordUpgrade, ThreadUpgrade, At, Serves
    <3> QED BY <2>1, <3>2, <3>4, UpgradeFrom
  <2> QED BY <1>PutDraining, <2>2, <2>3 DEF PutDraining, Puts
<1>DrainOldDeploy. ASSUME NEW t \in Threads, DrainOldDeploy(t) PROVE UpgradeInv'
  <2>1. /\ rec' = rec /\ tomb' = tomb /\ route' = route
        /\ Holding(t) /\ th[t].pc = "drain" /\ th[t].pc \in TargetLabels
    BY <1>DrainOldDeploy DEF DrainOldDeploy, At, Holding, HoldingLabels, TargetLabels
  <2>2. CASE Go(t, "failing") /\ ctr' = ctr
    <3>1. tomb = "none" /\ rec.op = "upgrade" => Serves(rec.live)
      BY <2>1 DEF UpgradeInv, ThreadUpgrade
    <3> QED BY <2>1, <2>2, <3>1, FailingUpgrade DEF ServingKept, Serves
  <2>3. CASE Go(t, "putRunning") /\ ctr' = [ctr EXCEPT ![th[t].svc.live] = NoCtr]
    <3>1. OnlyMoves(t) /\ th'[t].pc = "putRunning"
      BY <1>0, <2>3, GoMoves
    <3>2. ASSUME tomb = "none", rec'.op = "upgrade"
          PROVE  RecordUpgrade' /\ ThreadUpgrade(t)'
      <4>1. /\ th[t].svc = rec /\ Serves(rec.tgt) /\ rec.tgt \in Slots
            /\ route = Proxy(rec.tgt, RoutingDomain(rec))
            /\ rec.tgt # rec.live /\ rec.phase = "draining" /\ rec.op = "upgrade"
        BY <1>0, <2>1, <3>2, TargetFacts DEF ThreadServed, StageOK, SwitchedLabels
      <4>2. ctr'[rec.tgt] = ctr[rec.tgt]
        BY <1>0, <2>3, <4>1, LiveFacts
      <4>3. route'.mode = "proxy" /\ route'.slot = rec.tgt
        BY <2>1, <4>1 DEF Proxy
      <4> QED BY <2>1, <3>1, <4>1, <4>2, <4>3 DEF RecordUpgrade, ThreadUpgrade, At, Serves
    <3> QED BY <2>1, <3>1, <3>2, UpgradeFrom
  <2> QED BY <1>DrainOldDeploy, <2>2, <2>3 DEF DrainOldDeploy, Fails, Fault, NoOutage
<1>PutRunning. ASSUME NEW t \in Threads, PutRunning(t) PROVE UpgradeInv'
  <2> DEFINE s == th[t].svc
             d == RoutingDomain(s)
             x == IF s.op = "upgrade" THEN s.state ELSE "active"
             v == IF s.tver # 0 THEN s.tver ELSE s.ver
             g == s.tgt
             n == [s EXCEPT !.state = x, !.phase = "running", !.op = "", !.live = g,
                            !.tgt = "", !.ver = v, !.tver = 0, !.dom = d, !.tdom = NoDomain]
  <2>1. ctr' = ctr /\ route' = route /\ tomb' = tomb /\ Done(t)
    BY <1>PutRunning DEF PutRunning, host
  <2>2. CASE PutFails
    BY <2>1, <2>2, ReturnUpgrade DEF PutFails, CtrKept
  <2>3. CASE rec' = n
    <3>1. s \in RecType
      BY <1>0, CopyType
    <3> HIDE DEF d, x, v, g, s
    <3>2. n.op = ""
      BY <3>1 DEF RecType
    <3> HIDE DEF n
    <3> QED BY <2>3, <3>2, NoUpgrade
  <2> QED BY <1>PutRunning, <2>2, <2>3 DEF PutRunning, Puts
<1>RecordFailure. ASSUME NEW t \in Threads, RecordFailure(t) PROVE UpgradeInv'
  <2> DEFINE s == th[t].svc
             n == [s EXCEPT !.phase = "failed"]
  <2>1. /\ ctr' = ctr /\ route' = route /\ tomb' = tomb /\ Done(t)
        /\ Holding(t) /\ th[t].pc = "failing"
    BY <1>RecordFailure DEF RecordFailure, host, At, Holding, HoldingLabels
  <2>2. CASE PutFails
    BY <2>1, <2>2, ReturnUpgrade DEF PutFails, CtrKept
  <2>3. CASE rec' = n
    <3>1. s \in RecType
      BY <1>0, CopyType
    <3>2. n.op = s.op /\ n.live = s.live
      BY <3>1 DEF RecType
    <3>3. tomb = "none" => rec.op = s.op /\ rec.live = s.live
      <4> DEFINE a == rec.state
                 b == rec.phase
      <4>1. tomb = "none" => rec = [s EXCEPT !.state = a, !.phase = b]
        BY <1>0, <2>1 DEF OneWriter, CopyIsCurrent, At
      <4> HIDE DEF a, b, s
      <4> QED BY <3>1, <4>1 DEF RecType
    <3> HIDE DEF n, s
    <3>4. OnlyMoves(t) /\ th'[t].pc = "idle"
      BY <1>0, <2>1, DoneMoves
    <3>5. tomb = "none" /\ rec'.op = "upgrade" => RecordUpgrade' /\ ThreadUpgrade(t)'
      BY <2>1, <2>3, <3>2, <3>3, <3>4
      DEF UpgradeInv, RecordUpgrade, ThreadUpgrade, At, Serves
    <3> QED BY <2>1, <3>4, <3>5, UpgradeFrom
  <2> QED BY <1>RecordFailure, <2>2, <2>3 DEF RecordFailure, Puts
<1>Buried. ASSUME NEW t \in Threads, FinishDelete(t) \/ PutTombstone(t) PROVE UpgradeInv'
  <2>1. tomb # "none"
    BY <1>0, <1>Buried DEF FinishDelete, PutTombstone, At, DeleteInv, BuriedLabels
  <2>2. tomb' # "none"
    BY <1>Buried, <2>1 DEF FinishDelete, PutTombstone
  <2> QED BY <2>2 DEF UpgradeInv
<1>Restart. ASSUME Restart PROVE UpgradeInv'
  BY <1>Restart DEF Restart, Fault, NoOutage
<1>Stutter. ASSUME UNCHANGED vars PROVE UpgradeInv'
  BY <1>Stutter DEF vars, UpgradeInv, RecordUpgrade, ThreadUpgrade, At, Serves
<1> QED
  BY <1>Strangers, <1>ProvisionClaim, <1>UpgradeClaim, <1>Resume, <1>ChangeState, <1>Delete,
     <1>Domains, <1>Ending, <1>Prepare, <1>RestoreLiveRoute, <1>RemoveTarget, <1>StartSlot,
     <1>PutWaiting, <1>CheckHealth, <1>HealthVerdict, <1>RouteTarget, <1>RemovePreviousSlot,
     <1>PutDraining, <1>DrainOldDeploy, <1>PutRunning, <1>RecordFailure, <1>Buried,
     <1>Restart, <1>Stutter
  DEF Next, Call, Work

LEMMA UpgradeInvStart == Init \/ Settled => UpgradeInv
  <1>0. Idle.pc = "idle" /\ NoRec.op = ""
    BY DEF Idle, NoRec
  <1>1. Init => \A t \in Threads : th[t].pc = "idle"
    BY <1>0 DEF Init
  <1>2. Settled => \A t \in Threads : th[t].pc = "idle"
    BY <1>0 DEF Settled
  <1>3. Init \/ Settled => rec.op = ""
    BY <1>0 DEF Init, Settled
  <1> QED BY <1>1, <1>2, <1>3 DEF UpgradeInv, RecordUpgrade, ThreadUpgrade

(* An upgrade that fails, or that another call takes over, leaves the      *)
(* service proxied to a container that serves, whatever calls race         *)
(* (README.md:63, manager.go:1119-1180): from an empty host as long as     *)
(* Provision claims only what it checked, and from any state of rest.  It  *)
(* takes that no crash, no failed removal that has killed the container and*)
(* no slot directory that stays comes before the record (NoOutage).        *)
THEOREM UpgradeKeepsServingHolds ==
  ASSUME NoOutage
  PROVE  /\ Spec /\ ProvisionChecksHold => []UpgradeKeepsServing
         /\ Settled /\ [][Next]_vars => []UpgradeKeepsServing
  <1>1. UpgradeInv => UpgradeKeepsServing
    BY DEF UpgradeInv, RecordUpgrade, UpgradeKeepsServing
  <1>2. CoreInv /\ ServedInv /\ UpgradeInv /\ [Next]_vars => UpgradeInv'
    BY UpgradeInvStep
  <1>3. Init => UpgradeInv
    BY UpgradeInvStart
  <1>4. Settled => UpgradeInv
    BY UpgradeInvStart
  <1>5. Spec /\ ProvisionChecksHold => []UpgradeKeepsServing
    BY <1>1, <1>2, <1>3, ServedHolds, CheckedOnlyRetries, CoreHolds, PTL DEF Spec
  <1>6. Settled /\ [][Next]_vars => []UpgradeKeepsServing
    BY <1>1, <1>2, <1>4, ServedFromRest, PTL
  <1> QED BY <1>5, <1>6

-----------------------------------------------------------------------------
(* A service with a tombstone has nobody at work on its record, as long as *)
(* Provision respects the tombstone and the controller does not die.       *)
TombInv ==
  tomb # "none" =>
    /\ rec = NoRec \/ rec.phase = "deleting"
    /\ \A t \in Threads : ~Holding(t)

(* Provision claims nothing that has a tombstone.                          *)
TombRefuses == rec.phase # "provisioning" /\ rec'.phase = "provisioning" => tomb = "none"

LEMMA TombFrom ==
  ASSUME TombInv, NEW t \in Threads, OnlyMoves(t), th'[t].pc \notin HoldingLabels,
         tomb # "none", rec' = rec \/ rec' = NoRec
  PROVE  TombInv'
  BY DEF TombInv, OnlyMoves, Holding

LEMMA TombDone ==
  ASSUME TypeInv, TombInv, NEW t \in Threads, Done(t),
         tomb # "none", rec' = rec
  PROVE  TombInv'
  BY DoneMoves, TombFrom DEF HoldingLabels

LEMMA TombInvStep ==
  ASSUME "crash" \notin Faults, CoreInv, TombInv, TombRefuses, [Next]_vars
  PROVE  TombInv'
<1>0. TypeInv /\ OneWriter /\ DeleteInv
  BY DEF CoreInv
<1>Bury. ASSUME NEW t \in Threads, Bury(t) PROVE TombInv'
  <2>1. /\ Holding(t) /\ tomb = "none" /\ rec.phase = "deleting"
        /\ \A u \in Threads : Holding(u) => u = t
    <3>1. Holding(t) /\ th[t].pc \in WipeLabels /\ ~At(t, "failing")
      BY <1>Bury DEF Bury, At, Holding, HoldingLabels, WipeLabels
    <3> QED BY <1>0, <3>1 DEF OneWriter, CopyIsCurrent, DeleteInv, Deleting
  <2>2. OnlyMoves(t) /\ th'[t].pc \in {"finishDelete", "idle"}
    BY <1>0, <1>Bury, GoMoves, DoneMoves DEF Bury
  <2>3. rec' = NoRec \/ rec' = rec
    BY <1>Bury DEF Bury, PutFails
  <2> QED BY <2>1, <2>2, <2>3 DEF TombInv, OnlyMoves, Holding, HoldingLabels
<1>None. CASE tomb = "none" /\ \A t \in Threads : ~Bury(t)
  <2>1. ASSUME NEW t \in Threads, Call(t) \/ Work(t) PROVE tomb' = tomb
    <3>1. ~FinishDelete(t) /\ ~PutTombstone(t)
      BY <1>0, <1>None DEF FinishDelete, PutTombstone, At, DeleteInv, BuriedLabels
    <3>2. CASE Call(t)
      BY <1>None, <3>2 DEF Call, Provision, Upgrade, Resume, ChangeState, Delete
    <3>3. CASE Work(t)
      BY <1>None, <3>1, <3>3
      DEF Work, ProvisionLookup, HasVersion, ProvisionClaim, PrepareStorage, StartSlot,
          PutWaiting, CheckHealth, HealthVerdict, RouteTarget, RemovePreviousSlot, PutDraining,
          DrainOldDeploy, PutRunning, RecordFailure, UpgradeFromCall, UpgradeClaim,
          EnsureIsolation, RestoreLiveRoute, RemoveTarget, Reconcile, RedeployTerminated,
          DeployDomains, ApplyDomains, ResumeFromCall, StopContainers, PutTargetState,
          FinishRouting, Unroute, PutStopped, RemoveContainers, RemoveRoute, DestroyDataset,
          RemoveMountpoint
    <3> QED BY <2>1, <3>2, <3>3
  <2>2. ~Restart /\ (UNCHANGED vars => tomb' = tomb)
    BY DEF Restart, Fault, vars
  <2> QED BY <1>None, <2>1, <2>2 DEF Next, TombInv
<1>Tomb. ASSUME tomb # "none" PROVE TombInv'
  <2>1. /\ rec = NoRec \/ rec.phase = "deleting"
        /\ \A t \in Threads : th[t].pc \notin HoldingLabels
    BY <1>Tomb DEF TombInv, Holding
  <2>2. /\ rec.phase \notin {"provisioning", "waiting_for_health", "running", "stopped",
                             "failed"}
        /\ rec # NoRec => rec.phase \in Busy \ {"waiting_for_health"}
        /\ rec = NoRec => rec.state = "absent"
    <3>1. NoRec.phase = "none" /\ NoRec.state = "absent"
      BY DEF NoRec
    <3> QED BY <2>1, <3>1 DEF Busy
  <2>Strangers. ASSUME NEW t \in Threads,
                      \/ ProvisionLookup(t) \/ HasVersion(t) \/ UpgradeFromCall(t)
                      \/ Reconcile(t) \/ Provision(t) \/ Upgrade(t) \/ DeployDomains(t)
                      \/ CheckHealth(t) \/ FinishDelete(t) \/ PutTombstone(t)
               PROVE  TombInv'
    <3>1. rec' = rec
      BY <2>Strangers
      DEF ProvisionLookup, HasVersion, UpgradeFromCall, Reconcile, Provision, Upgrade,
          DeployDomains, CheckHealth, FinishDelete, PutTombstone
    <3>2. CASE Provision(t) \/ Upgrade(t)
      <4>1. PICK l \in {"lookup", "upgradeImage"}, r \in Requests :
              th' = [th EXCEPT ![t].pc = l, ![t].req = r]
        BY <3>2 DEF Provision, Upgrade
      <4>2. OnlyMoves(t) /\ th'[t].pc = l
        BY <1>0, <4>1 DEF OnlyMoves, TypeInv, TypeOK, ThreadType
      <4> QED BY <1>Tomb, <3>1, <4>2, TombFrom DEF HoldingLabels
    <3>3. CASE CheckHealth(t)
      <4>1. OnlyMoves(t) /\ th'[t].pc = "verdict"
        BY <1>0, <3>3 DEF CheckHealth, Go, OnlyMoves, TypeInv, TypeOK, ThreadType
      <4> QED BY <1>Tomb, <3>1, <4>1, TombFrom DEF HoldingLabels
    <3>4. ASSUME \/ ProvisionLookup(t) \/ HasVersion(t) \/ UpgradeFromCall(t)
                 \/ Reconcile(t) \/ DeployDomains(t) \/ FinishDelete(t) \/ PutTombstone(t)
          PROVE  TombInv'
      <4>1. HasVersion(t) => ClaimLabel[th[t].pc] \in {"claim", "upgradeClaim", "redeployClaim"}
        BY DEF HasVersion, ClaimLabel
      <4>2. PICK l \in {"image", "reconcile", "claim", "upgradeClaim", "redeployClaim",
                        "upgradeImage", "upgrade", "domains", "redeployImage",
                        "applyDomains", "idle", "buried", "unburied"} :
              Go(t, l) \/ Done(t) \/ GoWith(t, l, rec)
        BY <3>4, <4>1
        DEF ProvisionLookup, HasVersion, UpgradeFromCall, Reconcile, DeployDomains,
            FinishDelete, PutTombstone
      <4>3. OnlyMoves(t) /\ th'[t].pc \in {l, "idle"}
        BY <1>0, <4>2, GoMoves, GoWithMoves, DoneMoves
      <4> QED BY <1>Tomb, <3>1, <4>3, TombFrom DEF HoldingLabels
    <3> QED BY <2>Strangers, <3>2, <3>3, <3>4
  <2>ProvisionClaim. ASSUME NEW t \in Threads, ProvisionClaim(t) PROVE TombInv'
    <3> DEFINE r == th[t].req
               again == [rec EXCEPT !.phase = "provisioning", !.op = "provision",
                                    !.tgt = "blue", !.tver = r.ver]
    <3>1. FreshRecord(r).phase = "provisioning" /\ again.phase = "provisioning"
      BY <1>0, LiveFacts DEF FreshRecord, RecType
    <3>2. rec' # FreshRecord(r) /\ rec' # again
      BY <1>Tomb, <2>2, <3>1 DEF TombRefuses
    <3>3. Done(t) /\ rec' = rec
      BY <2>ProvisionClaim, <3>2 DEF ProvisionClaim, Claims, PutFails
    <3> QED BY <1>0, <1>Tomb, <3>3, TombDone
  <2>Refused. /\ \A r : ~UpgradeAllowed(rec, r)
              /\ ~Resumable(rec) /\ ~Deletable(rec)
              /\ \A x : ~StateChangeAllowed(rec, x)
    BY <2>2
    DEF UpgradeAllowed, ReplaceableActivation, Replaceable, Resumable, Deletable,
        StateChangeAllowed
  <2>Claims. ASSUME NEW t \in Threads,
                   \/ UpgradeClaim(t) \/ Resume(t) \/ ResumeFromCall(t)
                   \/ RedeployTerminated(t) \/ HealthVerdict(t)
            PROVE  TombInv'
    <3>1. Done(t) /\ rec' = rec
      BY <2>2, <2>Refused, <2>Claims
      DEF UpgradeClaim, Resume, ResumeFromCall, ResumeClaim, ResumeRedeploys,
          RedeployTerminated, HealthVerdict, VerdictApplies, PutFails
    <3> QED BY <1>0, <1>Tomb, <3>1, TombDone
  <2>ApplyDomains. ASSUME NEW t \in Threads, ApplyDomains(t) PROVE TombInv'
    <3>1. ~UnchangedSince(th[t].svc)
      BY <1>0, <2>2, <2>ApplyDomains DEF ApplyDomains, At, UnchangedSince, TypeInv, LocalOK
    <3>2. Done(t) /\ rec' = rec
      BY <2>ApplyDomains, <3>1 DEF ApplyDomains
    <3> QED BY <1>0, <1>Tomb, <3>2, TombDone
  <2>ChangeState. ASSUME NEW t \in Threads, ChangeState(t) PROVE FALSE
    BY <2>Refused, <2>ChangeState DEF ChangeState
  <2>Delete. ASSUME NEW t \in Threads, Delete(t) PROVE TombInv'
    <3>1. CASE Go(t, "finishDelete") /\ rec' = rec
      BY <1>0, <1>Tomb, <3>1, GoMoves, TombFrom DEF HoldingLabels
    <3>2. CASE th' = th /\ rec' = NoRec
      <4>1. OnlyMoves(t) /\ th'[t].pc \notin HoldingLabels
        BY <2>1, <3>2 DEF OnlyMoves
      <4> QED BY <1>Tomb, <3>2, <4>1, TombFrom
    <3> QED BY <1>Tomb, <2>Delete, <3>1, <3>2 DEF Delete
  <2>Holders. ASSUME NEW t \in Threads,
                    \/ PrepareStorage(t) \/ StartSlot(t) \/ PutWaiting(t) \/ RouteTarget(t)
                    \/ RemovePreviousSlot(t) \/ PutDraining(t) \/ DrainOldDeploy(t)
                    \/ PutRunning(t) \/ RecordFailure(t) \/ EnsureIsolation(t)
                    \/ RestoreLiveRoute(t) \/ RemoveTarget(t) \/ StopContainers(t)
                    \/ PutTargetState(t) \/ FinishRouting(t) \/ Unroute(t) \/ PutStopped(t)
                    \/ RemoveContainers(t) \/ RemoveRoute(t) \/ DestroyDataset(t)
                    \/ RemoveMountpoint(t) \/ Bury(t)
             PROVE  FALSE
    <3>1. th[t].pc \in HoldingLabels
      BY <2>Holders
      DEF PrepareStorage, StartSlot, PutWaiting, RouteTarget, RemovePreviousSlot, PutDraining,
          DrainOldDeploy, PutRunning, RecordFailure, EnsureIsolation, RestoreLiveRoute,
          RemoveTarget, StopContainers, PutTargetState, FinishRouting, Unroute, PutStopped,
          RemoveContainers, RemoveRoute, DestroyDataset, RemoveMountpoint, Bury, At,
          HoldingLabels
    <3> QED BY <2>1, <3>1
  <2>Restart. ~Restart
    BY DEF Restart, Fault
  <2>Stutter. CASE UNCHANGED vars
    BY <2>1, <2>Stutter DEF vars, TombInv, Holding
  <2> QED
    BY <2>Strangers, <2>ProvisionClaim, <2>Claims, <2>ApplyDomains, <2>ChangeState, <2>Delete,
       <2>Holders, <2>Restart, <2>Stutter
    DEF Next, Call, Work
<1> QED BY <1>Bury, <1>None, <1>Tomb

LEMMA TombInvStart == Init \/ Settled => TombInv
  BY DEF Init, Settled, TombInv

(* What Caddy is made to proxy to in a step serves when the step is taken. *)
LEMMA SwitchServes ==
  ASSUME NoOutage, CoreInv, ServedInv, UpgradeInv, TombInv, [Next]_vars,
         route' # route, route'.mode = "proxy"
  PROVE  Serves(route'.slot)
<1>0. TypeInv /\ OneWriter /\ DeleteInv /\ RecordInv
  BY DEF CoreInv
<1>Modes. NoRoute.mode = "none" /\ \A d : Page(d).mode = "page"
  BY DEF NoRoute, Page
<1>Holding. ASSUME NEW t \in Threads, Holding(t), th[t].pc # "failing"
            PROVE  tomb = "none" /\ th[t].svc = rec /\ StageOK(th[t])
  <2>1. tomb = "none"
    BY <1>Holding DEF TombInv
  <2> QED BY <1>0, <1>Holding, <2>1, HeldIsCurrent, HeldIsWellFormed
<1>RouteTarget. ASSUME NEW t \in Threads, RouteTarget(t) PROVE Serves(route'.slot)
  <2> DEFINE s == th[t].svc
             d == RoutingDomain(s)
  <2>1. Holding(t) /\ th[t].pc = "route" /\ route' = Proxy(s.tgt, d)
    BY <1>RouteTarget DEF RouteTarget, At, Holding, HoldingLabels
  <2>2. tomb = "none"
    BY <1>Holding, <2>1
  <2>3. Serves(s.tgt)
    BY <2>1, <2>2 DEF ServedInv, ThreadServed
  <2> HIDE DEF s, d
  <2>4. route'.slot = s.tgt
    BY <2>1 DEF Proxy
  <2> QED BY <2>3, <2>4
<1>RestoreLiveRoute. ASSUME NEW t \in Threads, RestoreLiveRoute(t) PROVE Serves(route'.slot)
  <2> DEFINE s == th[t].svc
  <2>1. Holding(t) /\ th[t].pc = "restore" /\ route' = Proxy(s.live, s.dom)
    BY <1>RestoreLiveRoute DEF RestoreLiveRoute, At, Holding, HoldingLabels
  <2>2. tomb = "none" /\ s = rec /\ rec.phase = "starting" /\ rec.op = "upgrade"
    BY <1>Holding, <2>1 DEF StageOK
  <2> HIDE DEF s
  <2>3. route'.slot = rec.live
    BY <2>1, <2>2 DEF Proxy
  <2> QED BY <2>2, <2>3 DEF UpgradeInv, RecordUpgrade
<1>ApplyDomains. ASSUME NEW t \in Threads, ApplyDomains(t) PROVE Serves(route'.slot)
  <2> DEFINE d == th[t].req.dom
  <2>1. /\ At(t, "applyDomains") /\ UnchangedSince(th[t].svc)
        /\ route' = IF rec.state = "suspended" THEN Page(d) ELSE Proxy(rec.live, d)
    BY <1>ApplyDomains DEF ApplyDomains, RenamedRoute
  <2> HIDE DEF d
  <2>2. rec.state # "suspended" /\ route'.slot = rec.live
    BY <1>Modes, <2>1 DEF Proxy
  <2>3. rec.phase \in {"running", "stopped"}
    BY <1>0, <2>1 DEF At, UnchangedSince, TypeInv, LocalOK
  <2>4. tomb = "none"
    <3>1. NoRec.phase = "none"
      BY DEF NoRec
    <3> QED BY <2>3, <3>1 DEF TombInv
  <2>5. Renames(th[t].svc)
    BY <2>1, <2>4 DEF ServedInv, ThreadServed
  <2>6. rec.phase = "running"
    BY <2>1, <2>2, <2>5 DEF Renames, UnchangedSince
  <2> QED BY <2>2, <2>4, <2>6, ServedFacts
<1>Away. ASSUME NEW t \in Threads,
               Unroute(t) \/ RemoveRoute(t) \/ FinishDelete(t)
         PROVE  FALSE
  BY <1>Modes, <1>Away DEF Unroute, RemoveRoute, FinishDelete
<1>1. ASSUME NEW t \in Threads, Call(t) \/ Work(t) PROVE Serves(route'.slot)
  <2>1. CASE Call(t)
    BY <2>1 DEF Call, Provision, Upgrade, Resume, ChangeState, Delete, host
  <2>2. CASE Work(t)
    BY <1>RouteTarget, <1>RestoreLiveRoute, <1>ApplyDomains, <1>Away, <2>2
    DEF Work, ProvisionLookup, HasVersion, ProvisionClaim, PrepareStorage, StartSlot,
        PutWaiting, CheckHealth, HealthVerdict, RemovePreviousSlot, PutDraining,
        DrainOldDeploy, PutRunning, RecordFailure, UpgradeFromCall, UpgradeClaim,
        EnsureIsolation, RemoveTarget, Reconcile, RedeployTerminated, DeployDomains,
        ResumeFromCall, StopContainers, PutTargetState, FinishRouting, PutStopped,
        RemoveContainers, DestroyDataset, RemoveMountpoint, Bury, PutTombstone, host
  <2> QED BY <1>1, <2>1, <2>2
<1>2. ~Restart /\ ~(UNCHANGED vars)
  BY DEF Restart, Fault, NoOutage, vars
<1> QED BY <1>1, <1>2 DEF Next

(* Whenever Caddy is made to proxy somewhere new, by a deployment, by the  *)
(* repair of the live route or by a new hostname, the container there runs *)
(* and has passed a check (manager.go:1119-1180, container-runtime.md:141),*)
(* unless the repair finds one that an earlier removal has killed or taken *)
(* away (NoOutage).                                                        *)
THEOREM SwitchedToCheckedHolds ==
  ASSUME NoOutage
  PROVE  /\ Spec /\ ProvisionChecksHold => SwitchedToChecked
         /\ Settled /\ [][Next]_vars /\ ProvisionChecksHold => SwitchedToChecked
  <1>1. CoreInv /\ ServedInv /\ UpgradeInv /\ [Next]_vars => UpgradeInv'
    BY UpgradeInvStep
  <1>2. CoreInv /\ TombInv /\ [Next]_vars /\ [TombRefuses]_vars => TombInv'
    BY TombInvStep DEF TombRefuses, NoOutage, vars
  <1>3. CoreInv /\ ServedInv /\ UpgradeInv /\ TombInv /\ [Next]_vars
          => [route' # route /\ route'.mode = "proxy" => Serves(route'.slot)]_vars
    BY SwitchServes
  <1>4. ProvisionChecksHold => [][TombRefuses]_vars
    <2>1. ASSUME rec.phase # "provisioning" /\ rec'.phase = "provisioning" =>
                   /\ tomb = "none"
                   /\ \/ rec = NoRec
                      \/ /\ rec.phase = "failed" /\ rec.op = "provision"
                         /\ rec'.tver = rec.tver /\ rec'.dom = rec.dom
          PROVE  TombRefuses
      BY <2>1 DEF TombRefuses
    <2> QED BY <2>1, PTL DEF ProvisionChecksHold
  <1>5. Init => UpgradeInv /\ TombInv
    BY UpgradeInvStart, TombInvStart
  <1>6. Settled => UpgradeInv /\ TombInv
    BY UpgradeInvStart, TombInvStart
  <1>7. Spec /\ ProvisionChecksHold => SwitchedToChecked
    BY <1>1, <1>2, <1>3, <1>4, <1>5, ServedHolds, CheckedOnlyRetries, CoreHolds, PTL
    DEF Spec, SwitchedToChecked
  <1>8. Settled /\ [][Next]_vars /\ ProvisionChecksHold => SwitchedToChecked
    BY <1>1, <1>2, <1>3, <1>4, <1>6, ServedFromRest, PTL DEF SwitchedToChecked
  <1> QED BY <1>7, <1>8

=============================================================================
