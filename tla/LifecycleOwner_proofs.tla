------------------------ MODULE LifecycleOwner_proofs ------------------------
(* That a busy record has an owner, for any number of threads, calls and   *)
(* failures of anything but the repository: BusyHasOwner of Lifecycle.     *)
EXTENDS LifecycleRecord_proofs

(* The labels of a deployment up to its wait for the health check.         *)
BeforeWait == {"storage", "isolate", "restore", "removeTarget", "start", "putWaiting"}
CheckLabels == {"health", "verdict"}

(* A thread whose verdict, when it comes, is the one that counts.          *)
Awaits(t) == th[t].pc \in CheckLabels /\ th[t].att = health.cur

(* Health attempts are given out once.                                     *)
AttemptOK(t) ==
  /\ th[t].att <= health.seq
  /\ th[t].pc \in CheckLabels => th[t].att # 0
  /\ \A u \in Threads : th[t].att # 0 /\ th[u].att = th[t].att => u = t

(* An attempt stays current until the health check it was taken for, and   *)
(* the record is the one that waits for it until another is taken.         *)
CurrentOK(t) ==
  /\ th[t].pc \in BeforeWait /\ th[t].att # 0 => th[t].att = health.cur
  /\ Awaits(t) => rec.phase = "waiting_for_health" /\ rec = th[t].svc

AttemptInv ==
  /\ \A t \in Threads : AttemptOK(t)
  /\ tomb = "none" => \A t \in Threads : CurrentOK(t)

-----------------------------------------------------------------------------
(* What a step leaves of a thread's locals.                                *)
LEMMA GoKeeps ==
  ASSUME TypeInv, NEW t \in Threads, NEW l, Go(t, l)
  PROVE  /\ OnlyMoves(t) /\ th'[t].pc = l /\ th'[t].svc = th[t].svc
         /\ th'[t].req = th[t].req /\ th'[t].att = th[t].att
         /\ th'[t].passed = th[t].passed
  BY DEF Go, OnlyMoves, TypeInv, TypeOK, ThreadType

LEMMA GoWithKeeps ==
  ASSUME TypeInv, NEW t \in Threads, NEW l, NEW s, GoWith(t, l, s)
  PROVE  /\ OnlyMoves(t) /\ th'[t].pc = l /\ th'[t].svc = s
         /\ th'[t].req = th[t].req /\ th'[t].att = th[t].att
         /\ th'[t].passed = th[t].passed
  BY DEF GoWith, OnlyMoves, TypeInv, TypeOK, ThreadType

LEMMA DoneForgets ==
  ASSUME TypeInv, NEW t \in Threads, Done(t)
  PROVE  OnlyMoves(t) /\ th'[t].pc = "idle" /\ th'[t].att = 0
  BY DEF Done, Idle, OnlyMoves, TypeInv, TypeOK

LEMMA ClaimSets ==
  ASSUME TypeInv, NEW t \in Threads, NEW l, NEW r, NEW s, NEW a, Claims(t, l, r, s, a)
  PROVE  /\ OnlyMoves(t) /\ th'[t].pc = l /\ th'[t].req = r /\ th'[t].svc = s
         /\ th'[t].att = a /\ th'[t].passed = FALSE /\ rec' = s
  BY DEF Claims, OnlyMoves, TypeInv, TypeOK

LEMMA NoAttempt ==
  ASSUME TypeInv
  PROVE  /\ health.seq \in Nat /\ health.cur \in Nat
         /\ \A t \in Threads : th[t].att \in Nat
  BY DEF TypeInv, TypeOK, ThreadType

(* One thread takes the next attempt, or no attempt is taken.              *)
LEMMA AttemptsFrom ==
  ASSUME TypeInv, \A u \in Threads : AttemptOK(u), NEW t \in Threads, OnlyMoves(t),
         \/ th'[t].att \in {0, th[t].att} /\ health'.seq = health.seq
         \/ th'[t].att \in {0, health.seq + 1} /\ health'.seq = health.seq + 1,
         th'[t].pc \in CheckLabels => th'[t].att # 0
  PROVE  \A u \in Threads : AttemptOK(u)'
  <1>1. /\ health.seq \in Nat
        /\ \A u \in Threads : th[u].att \in Nat /\ th[u].att <= health.seq
    BY NoAttempt DEF AttemptOK
  <1>2. \A u \in Threads : th'[u].att \in Nat /\ th'[u].att <= health'.seq
    BY <1>1 DEF OnlyMoves
  <1>3. \A u, v \in Threads : th'[u].att # 0 /\ th'[v].att = th'[u].att => v = u
    <2> SUFFICES ASSUME NEW u \in Threads, u # t, th'[u].att # 0, th'[t].att = th'[u].att
                 PROVE  FALSE
      BY DEF OnlyMoves, AttemptOK
    <2>1. th'[u] = th[u]
      BY DEF OnlyMoves
    <2> QED BY <1>1, <2>1 DEF AttemptOK
  <1>4. \A u \in Threads : th'[u].pc \in CheckLabels => th'[u].att # 0
    BY DEF OnlyMoves, AttemptOK
  <1> QED BY <1>2, <1>3, <1>4 DEF AttemptOK

(* What a step of another thread may do to the attempts: the thread holds  *)
(* the record and leaves them alone, nobody does and it takes or forgets   *)
(* one, or it gives up its own.                                            *)
AttemptStep(t) ==
  \/ /\ health' = health
     /\ rec' = rec \/ Holding(t) \/ rec.phase # "waiting_for_health"
  \/ /\ Holding(t) \/ ~Taken(rec)
     /\ health'.cur \in {0, health.seq + 1}
  \/ /\ th[t].pc \in CheckLabels /\ health'.seq = health.seq
     /\ IF CurrentAttempt(t) THEN health'.cur = 0 ELSE health' = health /\ rec' = rec

LEMMA AttemptInvFrom ==
  ASSUME TypeInv, OneWriter, AttemptInv, NEW t \in Threads, OnlyMoves(t),
         tomb' = "none" => tomb = "none",
         \/ th'[t].att \in {0, th[t].att} /\ health'.seq = health.seq
         \/ th'[t].att \in {0, health.seq + 1} /\ health'.seq = health.seq + 1,
         th'[t].pc \in CheckLabels => th'[t].att # 0,
         AttemptStep(t),
         tomb = "none" => CurrentOK(t)'
  PROVE  AttemptInv'
  <1>1. \A u \in Threads : AttemptOK(u)'
    BY AttemptsFrom DEF AttemptInv
  <1>2. ASSUME tomb = "none", tomb' = "none", NEW u \in Threads, u # t PROVE CurrentOK(u)'
    <2>1. /\ th'[u] = th[u] /\ CurrentOK(u)
          /\ th[u].att \in Nat /\ health.seq \in Nat /\ th[u].att <= health.seq
          /\ th[u].pc \in CheckLabels => th[u].att # 0
          /\ th[t].att = th[u].att => th[u].att = 0
      BY <1>2, NoAttempt DEF AttemptInv, AttemptOK, OnlyMoves
    <2>2. th[u].pc \in BeforeWait => ~Holding(t) /\ Taken(rec)
      BY <1>2, HeldIsCurrent DEF Holding, HoldingLabels, BeforeWait
    <2>3. Awaits(u) => ~Holding(t) /\ rec.phase = "waiting_for_health" /\ rec = th[u].svc
      BY <1>2, <2>1, HeldIsCurrent DEF CurrentOK, Taken
    <2>4. th[t].pc \in CheckLabels => th[t].att # 0
      BY DEF AttemptInv, AttemptOK
    <2>5. CASE /\ health' = health
               /\ rec' = rec \/ Holding(t) \/ rec.phase # "waiting_for_health"
      BY <2>1, <2>2, <2>3, <2>5 DEF CurrentOK, Awaits
    <2>6. CASE (Holding(t) \/ ~Taken(rec)) /\ health'.cur \in {0, health.seq + 1}
      BY <2>1, <2>2, <2>6 DEF CurrentOK, Awaits
    <2>7. CASE /\ th[t].pc \in CheckLabels
               /\ IF CurrentAttempt(t) THEN health'.cur = 0
                                       ELSE health' = health /\ rec' = rec
      BY <2>1, <2>2, <2>3, <2>4, <2>7 DEF CurrentOK, Awaits, CurrentAttempt
    <2> QED BY <2>5, <2>6, <2>7 DEF AttemptStep
  <1> QED BY <1>1, <1>2 DEF AttemptInv

(* A step that takes and forgets no attempt and comes neither before a     *)
(* health check nor to one.                                                *)
LEMMA AttemptsStay ==
  ASSUME TypeInv, OneWriter, AttemptInv, NEW t \in Threads, OnlyMoves(t),
         tomb' = "none" => tomb = "none",
         th'[t].att \in {0, th[t].att}, health' = health,
         th'[t].pc \notin CheckLabels, th'[t].pc \notin BeforeWait,
         rec' = rec \/ Holding(t) \/ rec.phase # "waiting_for_health"
  PROVE  AttemptInv'
  BY AttemptInvFrom DEF AttemptStep, CurrentOK, Awaits

(* A call claims a record that nobody holds.                               *)
LEMMA ClaimTakes ==
  ASSUME TypeInv, OneWriter, AttemptInv, NEW t \in Threads,
         NEW l, NEW r, NEW s, NEW a, Claims(t, l, r, s, a),
         ~Taken(rec), tomb' = "none" => tomb = "none", l \notin CheckLabels,
         \/ /\ a = 0 /\ health'.seq = health.seq
            /\ health'.cur = 0 \/ (health' = health /\ rec.phase # "waiting_for_health")
         \/ a = health.seq + 1 /\ NextHealthAttempt
  PROVE  AttemptInv'
  <1>1. OnlyMoves(t) /\ th'[t].pc = l /\ th'[t].att = a /\ rec' = s
    BY ClaimSets
  <1>2. NextHealthAttempt => health'.seq = health.seq + 1 /\ health'.cur = health.seq + 1
    BY DEF NextHealthAttempt
  <1>3. AttemptStep(t)
    BY <1>2 DEF AttemptStep
  <1>4. CurrentOK(t)'
    BY <1>1, <1>2 DEF CurrentOK, Awaits
  <1> QED BY <1>1, <1>2, <1>3, <1>4, AttemptInvFrom

LEMMA AttemptInvStep ==
  ASSUME TypeInv, OneWriter, AttemptInv, [Next]_vars
  PROVE  AttemptInv'
<1>Quiet1. ASSUME NEW t \in Threads,
                 \/ ProvisionLookup(t)
                 \/ HasVersion(t)
                 \/ UpgradeFromCall(t)
                 \/ Reconcile(t)
                 \/ DeployDomains(t)
                 \/ Provision(t)
                 \/ Upgrade(t)
          PROVE  AttemptInv'
  <2>1. CASE Provision(t) \/ Upgrade(t)
    <3>1. PICK l \in {"lookup", "upgradeImage"}, r \in Requests :
            th' = [th EXCEPT ![t].pc = l, ![t].req = r]
      BY <2>1 DEF Provision, Upgrade
    <3>2. OnlyMoves(t) /\ th'[t].pc = l /\ th'[t].att = th[t].att
      BY <3>1 DEF OnlyMoves, TypeInv, TypeOK, ThreadType
    <3> QED BY <2>1, <3>2, AttemptsStay
            DEF Provision, Upgrade, CheckLabels, BeforeWait
  <2>2. CASE HasVersion(t)
    <3>1. ClaimLabel[th[t].pc] \in {"claim", "upgradeClaim", "redeployClaim"}
      BY <2>2 DEF HasVersion, ClaimLabel
    <3> QED BY <2>2, <3>1, GoKeeps, DoneForgets, AttemptsStay
            DEF HasVersion, CheckLabels, BeforeWait
  <2>3. CASE ProvisionLookup(t)
    BY <2>3, GoKeeps, AttemptsStay DEF ProvisionLookup, CheckLabels, BeforeWait
  <2>4. CASE UpgradeFromCall(t) \/ Reconcile(t)
    BY <2>4, GoKeeps, DoneForgets, AttemptsStay
    DEF UpgradeFromCall, Reconcile, CheckLabels, BeforeWait
  <2>5. CASE DeployDomains(t)
    BY <2>5, GoWithKeeps, DoneForgets, AttemptsStay DEF DeployDomains, CheckLabels, BeforeWait
  <2> QED BY <1>Quiet1, <2>1, <2>2, <2>3, <2>4, <2>5
<1>Quiet2. ASSUME NEW t \in Threads,
                 \/ RemovePreviousSlot(t)
                 \/ DrainOldDeploy(t)
                 \/ RouteTarget(t)
                 \/ PutDraining(t)
                 \/ PutRunning(t)
                 \/ RecordFailure(t)
          PROVE  AttemptInv'
  <2>1. Holding(t)
    BY <1>Quiet2
    DEF RemovePreviousSlot, DrainOldDeploy, RouteTarget, PutDraining, PutRunning, RecordFailure,
        At, Holding, HoldingLabels
  <2>2. CASE RouteTarget(t)
    <3>1. AfterRoute[th[t].svc.op] \in {"putRunning", "removeOld", "putDraining"}
      BY <2>2 DEF RouteTarget, At, AfterRoute, TypeInv, LocalOK, TargetLabels, Deploys
    <3> QED BY <2>1, <2>2, <3>1, GoKeeps, AttemptsStay
            DEF RouteTarget, Fails, CheckLabels, BeforeWait
  <2>3. CASE RemovePreviousSlot(t) \/ DrainOldDeploy(t)
    BY <2>1, <2>3, GoKeeps, AttemptsStay
    DEF RemovePreviousSlot, DrainOldDeploy, Fails, CheckLabels, BeforeWait
  <2>4. CASE PutDraining(t)
    BY <2>1, <2>4, GoWithKeeps, DoneForgets, AttemptsStay
    DEF PutDraining, host, CheckLabels, BeforeWait
  <2>5. CASE PutRunning(t) \/ RecordFailure(t)
    BY <2>1, <2>5, DoneForgets, AttemptsStay
    DEF PutRunning, RecordFailure, host, CheckLabels, BeforeWait
  <2> QED BY <1>Quiet2, <2>2, <2>3, <2>4, <2>5
<1>Quiet3. ASSUME NEW t \in Threads,
                 \/ StopContainers(t)
                 \/ PutTargetState(t)
                 \/ FinishRouting(t)
                 \/ Unroute(t)
                 \/ PutStopped(t)
          PROVE  AttemptInv'
  <2>1. Holding(t)
    BY <1>Quiet3
    DEF StopContainers, PutTargetState, FinishRouting, Unroute, PutStopped,
        At, Holding, HoldingLabels
  <2>2. CASE StopContainers(t) \/ Unroute(t)
    BY <2>1, <2>2, GoKeeps, AttemptsStay
    DEF StopContainers, Unroute, Fails, CheckLabels, BeforeWait
  <2>3. CASE PutTargetState(t) \/ FinishRouting(t) \/ PutStopped(t)
    BY <2>1, <2>3, GoWithKeeps, DoneForgets, AttemptsStay
    DEF PutTargetState, FinishRouting, PutStopped, CheckLabels, BeforeWait
  <2> QED BY <1>Quiet3, <2>2, <2>3
<1>Quiet4. ASSUME NEW t \in Threads,
                 \/ RemoveContainers(t)
                 \/ RemoveRoute(t)
                 \/ DestroyDataset(t)
                 \/ RemoveMountpoint(t)
                 \/ Bury(t)
                 \/ FinishDelete(t)
                 \/ PutTombstone(t)
          PROVE  AttemptInv'
  <2>1. CASE RemoveContainers(t) \/ RemoveRoute(t) \/ DestroyDataset(t) \/ RemoveMountpoint(t)
    BY <2>1, GoKeeps, AttemptsStay
    DEF RemoveContainers, RemoveRoute, DestroyDataset, RemoveMountpoint, Fails,
        CheckLabels, BeforeWait
  <2>2. CASE Bury(t)
    <3>1. Holding(t)
      BY <2>2 DEF Bury, At, Holding, HoldingLabels
    <3> QED BY <2>2, <3>1, GoKeeps, DoneForgets, AttemptsStay
            DEF Bury, PutFails, CheckLabels, BeforeWait
  <2>3. CASE FinishDelete(t)
    BY <2>3, GoKeeps, AttemptsStay DEF FinishDelete, CheckLabels, BeforeWait
  <2>4. CASE PutTombstone(t)
    <3>1. tomb' = "none" => tomb = "none"
      BY <2>4 DEF PutTombstone
    <3> QED BY <2>4, <3>1, DoneForgets, AttemptsStay
            DEF PutTombstone, CheckLabels, BeforeWait
  <2> QED BY <1>Quiet4, <2>1, <2>2, <2>3, <2>4
<1>Domains. ASSUME NEW t \in Threads, RedeployTerminated(t) \/ ApplyDomains(t) PROVE AttemptInv'
  <2>1. CASE RedeployTerminated(t)
    BY <2>1, GoKeeps, DoneForgets, AttemptsStay
    DEF RedeployTerminated, Puts, PutFails, CheckLabels, BeforeWait
  <2>2. CASE ApplyDomains(t)
    <3>1. th[t].svc.phase \in {"running", "stopped"}
      BY <2>2 DEF ApplyDomains, At, TypeInv, LocalOK
    <3>2. rec' = rec \/ rec.phase # "waiting_for_health"
      BY <2>2, <3>1 DEF ApplyDomains, UnchangedSince, PutFails
    <3> QED BY <2>2, <3>2, DoneForgets, AttemptsStay
            DEF ApplyDomains, CheckLabels, BeforeWait
  <2> QED BY <1>Domains, <2>1, <2>2
<1>Prepare. ASSUME NEW t \in Threads,
                  \/ PrepareStorage(t)
                  \/ EnsureIsolation(t)
                  \/ RestoreLiveRoute(t)
                  \/ RemoveTarget(t)
                  \/ StartSlot(t)
           PROVE  AttemptInv'
  <2>1. /\ th[t].pc \in BeforeWait /\ Holding(t)
        /\ health' = health /\ rec' = rec /\ tomb' = tomb
    BY <1>Prepare
    DEF PrepareStorage, EnsureIsolation, RestoreLiveRoute, RemoveTarget, StartSlot,
        At, BeforeWait, Holding, HoldingLabels, host
  <2>2. PICK l \in (BeforeWait \union {"failing"}) : Go(t, l)
    <3>1. CASE PrepareStorage(t)
      BY <3>1 DEF PrepareStorage, Fails, BeforeWait
    <3>2. CASE EnsureIsolation(t)
      BY <3>2 DEF EnsureIsolation, Fails, BeforeWait
    <3>3. CASE RestoreLiveRoute(t) \/ RemoveTarget(t) \/ StartSlot(t)
      BY <3>3 DEF RestoreLiveRoute, RemoveTarget, StartSlot, Fails, BeforeWait
    <3> QED BY <1>Prepare, <3>1, <3>2, <3>3
  <2>3. OnlyMoves(t) /\ th'[t].pc = l /\ th'[t].att = th[t].att
    BY <2>2, GoKeeps
  <2>4. l \notin CheckLabels
    BY DEF BeforeWait, CheckLabels
  <2>5. tomb = "none" => CurrentOK(t)'
    BY <2>1, <2>3, <2>4 DEF AttemptInv, CurrentOK, Awaits
  <2> QED BY <2>1, <2>3, <2>4, <2>5, AttemptInvFrom DEF AttemptStep
<1>PutWaiting. ASSUME NEW t \in Threads, PutWaiting(t) PROVE AttemptInv'
  <2> DEFINE s == [th[t].svc EXCEPT !.phase = "waiting_for_health"]
             fresh == th[t].att = 0
             a == IF fresh THEN health.seq + 1 ELSE th[t].att
  <2>1. Holding(t) /\ th[t].pc \in BeforeWait /\ tomb' = tomb
    BY <1>PutWaiting DEF PutWaiting, At, Holding, HoldingLabels, BeforeWait
  <2>2. CASE PutFails /\ Go(t, "failing") /\ UNCHANGED health
    BY <2>1, <2>2, GoKeeps, AttemptsStay DEF PutFails, CheckLabels, BeforeWait
  <2>3. CASE /\ Puts(s)
             /\ IF fresh THEN NextHealthAttempt ELSE UNCHANGED health
             /\ th' = [th EXCEPT ![t].pc = "health", ![t].svc = s, ![t].att = a]
    <3>1. OnlyMoves(t) /\ th'[t].pc = "health" /\ th'[t].svc = s /\ th'[t].att = a
      BY <2>3 DEF OnlyMoves, TypeInv, TypeOK, ThreadType
    <3>2. rec' = s /\ s.phase = "waiting_for_health"
      BY <2>3, CopyType DEF Puts, RecType
    <3>3. a # 0 /\ health.seq \in Nat
      BY NoAttempt
    <3>4. IF fresh THEN health'.cur = health.seq + 1 /\ health'.seq = health.seq + 1
                   ELSE health' = health
      BY <2>3 DEF NextHealthAttempt
    <3>5. AttemptStep(t)
      BY <2>1, <3>4 DEF AttemptStep
    <3>6. CurrentOK(t)'
      BY <3>1, <3>2 DEF CurrentOK, Awaits, BeforeWait
    <3> QED BY <2>1, <3>1, <3>3, <3>4, <3>5, <3>6, AttemptInvFrom
  <2> QED BY <1>PutWaiting, <2>2, <2>3 DEF PutWaiting
<1>CheckHealth. ASSUME NEW t \in Threads, CheckHealth(t) PROVE AttemptInv'
  <2>1. /\ th[t].pc = "health" /\ health' = health /\ rec' = rec /\ tomb' = tomb
    BY <1>CheckHealth DEF CheckHealth, At
  <2>2. /\ OnlyMoves(t) /\ th'[t].pc = "verdict"
        /\ th'[t].svc = th[t].svc /\ th'[t].att = th[t].att
    <3>1. CASE Go(t, "verdict")
      BY <3>1, GoKeeps
    <3>2. CASE th' = [th EXCEPT ![t].pc = "verdict", ![t].passed = TRUE]
      BY <3>2 DEF OnlyMoves, TypeInv, TypeOK, ThreadType
    <3> QED BY <1>CheckHealth, <3>1, <3>2 DEF CheckHealth
  <2>3. tomb = "none" => CurrentOK(t)'
    BY <2>1, <2>2 DEF AttemptInv, CurrentOK, Awaits, CheckLabels, BeforeWait
  <2>4. th[t].att # 0
    BY <2>1 DEF AttemptInv, AttemptOK, CheckLabels
  <2> QED BY <2>1, <2>2, <2>3, <2>4, AttemptInvFrom DEF AttemptStep
<1>HealthVerdict. ASSUME NEW t \in Threads, HealthVerdict(t) PROVE AttemptInv'
  <2>1. /\ th[t].pc \in CheckLabels /\ tomb' = tomb
        /\ health'.seq = health.seq
        /\ IF CurrentAttempt(t) THEN health'.cur = 0 ELSE health' = health /\ rec' = rec
    BY <1>HealthVerdict
    DEF HealthVerdict, At, CheckLabels, ForgetAttempt, VerdictApplies, TypeInv, TypeOK
  <2>2. /\ OnlyMoves(t) /\ th'[t].pc \in {"route", "idle"}
        /\ th'[t].att \in {0, th[t].att}
    BY <1>HealthVerdict, GoWithKeeps, DoneForgets DEF HealthVerdict
  <2>3. CurrentOK(t)'
    BY <2>2 DEF CurrentOK, Awaits, CheckLabels, BeforeWait
  <2>4. th'[t].pc \notin CheckLabels
    BY <2>2 DEF CheckLabels
  <2> QED BY <2>1, <2>2, <2>3, <2>4, AttemptInvFrom DEF AttemptStep
<1>ProvisionClaim. ASSUME NEW t \in Threads, ProvisionClaim(t) PROVE AttemptInv'
  <2> DEFINE r == th[t].req
             again == [rec EXCEPT !.phase = "provisioning", !.op = "provision",
                                  !.tgt = "blue", !.tver = r.ver]
  <2>1. CASE rec = NoRec /\ Claims(t, "storage", r, FreshRecord(r), 0)
    <3>1. ~Taken(rec) /\ rec.phase # "waiting_for_health"
      BY <2>1, NoRecFacts
    <3>2. health' = health /\ tomb' = tomb
      BY <1>ProvisionClaim DEF ProvisionClaim
    <3> DEFINE f == FreshRecord(r)
    <3>3. Claims(t, "storage", r, f, 0)
      BY <2>1
    <3> HIDE DEF f, r
    <3> QED BY <3>1, <3>2, <3>3, ClaimTakes DEF CheckLabels
  <2>2. CASE ProvisionRetries(rec, r) /\ Claims(t, "storage", r, again, 0)
    <3>1. rec.phase \notin Busy
      BY <2>2 DEF ProvisionRetries
    <3>2. ~Taken(rec) /\ rec.phase # "waiting_for_health"
      BY <3>1 DEF Taken, Busy
    <3> HIDE DEF again, r
    <3> QED BY <1>ProvisionClaim, <2>2, <3>2, ClaimTakes DEF ProvisionClaim, CheckLabels
  <2>3. CASE Done(t) /\ UNCHANGED rec
    BY <1>ProvisionClaim, <2>3, DoneForgets, AttemptsStay
    DEF ProvisionClaim, CheckLabels, BeforeWait
  <2> QED BY <1>ProvisionClaim, <2>1, <2>2, <2>3 DEF ProvisionClaim, PutFails
<1>UpgradeClaim. ASSUME NEW t \in Threads, UpgradeClaim(t) PROVE AttemptInv'
  <2> DEFINE r == th[t].req
  <2>1. CASE /\ UpgradeAllowed(rec, r) /\ NextHealthAttempt
             /\ Claims(t, "isolate", r, UpgradeRecord(rec, r), health.seq + 1)
    <3>1. ~Taken(rec)
      BY <2>1 DEF UpgradeAllowed, Replaceable, Taken
    <3> QED BY <1>UpgradeClaim, <2>1, <3>1, ClaimTakes DEF UpgradeClaim, CheckLabels
  <2>2. CASE Done(t) /\ UNCHANGED <<rec, health>>
    BY <1>UpgradeClaim, <2>2, DoneForgets, AttemptsStay
    DEF UpgradeClaim, CheckLabels, BeforeWait
  <2> QED BY <1>UpgradeClaim, <2>1, <2>2 DEF UpgradeClaim, PutFails
<1>Resume. ASSUME NEW t \in Threads, Resume(t) \/ ResumeFromCall(t) PROVE AttemptInv'
  <2>1. tomb' = tomb
    BY <1>Resume DEF Resume, ResumeFromCall
  <2>2. ASSUME NEW r, ResumeClaim(t, r) PROVE AttemptInv'
    <3> DEFINE s == [rec EXCEPT !.phase = "starting", !.op = "resume",
                                !.tgt = Opposite(rec.live), !.tver = rec.ver,
                                !.tdom = NoDomain]
    <3>1. ~Taken(rec) /\ NextHealthAttempt /\ Claims(t, "isolate", r, s, health.seq + 1)
      BY <2>2 DEF ResumeClaim, Resumable, Taken
    <3> HIDE DEF s
    <3> QED BY <2>1, <3>1, ClaimTakes DEF CheckLabels
  <2>3. ASSUME NEW r, ResumeRedeploys(t, r) PROVE AttemptInv'
    <3>1. OnlyMoves(t) /\ th'[t].pc = "upgrade" /\ th'[t].att = th[t].att
      BY <2>3 DEF ResumeRedeploys, OnlyMoves, TypeInv, TypeOK, ThreadType
    <3>2. health' = health /\ rec' = rec
      BY <2>3 DEF ResumeRedeploys
    <3> QED BY <2>1, <3>1, <3>2, AttemptsStay DEF CheckLabels, BeforeWait
  <2>4. CASE Done(t) /\ UNCHANGED <<rec, health>>
    BY <2>1, <2>4, DoneForgets, AttemptsStay DEF CheckLabels, BeforeWait
  <2> QED BY <1>Resume, <2>2, <2>3, <2>4 DEF Resume, ResumeFromCall, PutFails
<1>ChangeState. ASSUME NEW t \in Threads, ChangeState(t) PROVE AttemptInv'
  <2>1. PICK r \in Requests :
          /\ StateChangeAllowed(rec, TargetState[r.kind])
          /\ Claims(t, "stop", r, [rec EXCEPT !.phase = "stopping", !.tdom = NoDomain,
                                              !.op = TargetState[r.kind]], 0)
    BY <1>ChangeState DEF ChangeState
  <2>2. ~Taken(rec)
    BY <2>1 DEF StateChangeAllowed, Replaceable, Taken
  <2>3. health'.cur = 0 /\ health'.seq = health.seq /\ tomb' = tomb
    BY <1>ChangeState DEF ChangeState, TypeInv, TypeOK
  <2> DEFINE s == [rec EXCEPT !.phase = "stopping", !.tdom = NoDomain,
                              !.op = TargetState[r.kind]]
  <2>4. Claims(t, "stop", r, s, 0)
    BY <2>1
  <2> HIDE DEF s
  <2> QED BY <2>2, <2>3, <2>4, ClaimTakes DEF CheckLabels
<1>Delete. ASSUME NEW t \in Threads, Delete(t) PROVE AttemptInv'
  <2> DEFINE s == [rec EXCEPT !.phase = "deleting", !.op = "delete"]
  <2>1. PICK r \in Requests :
          \/ /\ tomb = "none" /\ Deletable(rec) /\ Claims(t, "wipe", r, s, 0)
             /\ UNCHANGED tomb
          \/ tomb = "failed" /\ tomb' = "deleting" /\ Go(t, "finishDelete") /\ UNCHANGED rec
          \/ tomb = "deleted" /\ UNCHANGED <<tomb, th>>
    BY <1>Delete DEF Delete
  <2>2. health' = health
    BY <1>Delete DEF Delete
  <2>3. CASE /\ tomb = "none" /\ Deletable(rec) /\ Claims(t, "wipe", r, s, 0)
             /\ UNCHANGED tomb
    <3>1. rec.phase \notin Busy
      BY <2>3 DEF Deletable
    <3>2. ~Taken(rec) /\ rec.phase # "waiting_for_health"
      BY <3>1 DEF Taken, Busy
    <3> HIDE DEF s
    <3> QED BY <2>2, <2>3, <3>2, ClaimTakes DEF CheckLabels
  <2>4. CASE tomb = "failed" /\ tomb' = "deleting" /\ Go(t, "finishDelete") /\ UNCHANGED rec
    BY <2>2, <2>4, GoKeeps, AttemptsStay DEF CheckLabels, BeforeWait
  <2>5. CASE tomb = "deleted" /\ UNCHANGED <<tomb, th>>
    BY <2>2, <2>5 DEF AttemptInv, AttemptOK
  <2> QED BY <2>1, <2>3, <2>4, <2>5
<1>Restart. ASSUME Restart PROVE AttemptInv'
  <2>1. \A t \in Threads : th'[t].pc = "idle" /\ th'[t].att = 0
    BY <1>Restart DEF Restart, Idle
  <2>2. health'.seq = 0
    BY <1>Restart DEF Restart
  <2> QED BY <2>1, <2>2 DEF AttemptInv, AttemptOK, CurrentOK, Awaits, CheckLabels, BeforeWait
<1>Stutter. CASE UNCHANGED vars
  BY <1>Stutter DEF vars, AttemptInv, AttemptOK, CurrentOK, Awaits
<1> QED
  BY <1>Quiet1, <1>Quiet2, <1>Quiet3, <1>Quiet4, <1>Domains, <1>Prepare, <1>PutWaiting,
     <1>CheckHealth, <1>HealthVerdict, <1>ProvisionClaim, <1>UpgradeClaim, <1>Resume,
     <1>ChangeState, <1>Delete, <1>Restart, <1>Stutter
  DEF Next, Call, Work

(* The attempt a thread waits for is the record's, in every state.         *)
THEOREM AttemptsAreCurrent == Spec => []AttemptInv
  <1>1. Init => AttemptInv
    BY DEF Init, Idle, AttemptInv, AttemptOK, CurrentOK, Awaits, CheckLabels, BeforeWait
  <1>2. TypeInv /\ OneWriter /\ AttemptInv /\ [Next]_vars => AttemptInv'
    BY AttemptInvStep
  <1> QED BY <1>1, <1>2, StrongTypes, OneWriterHolds, PTL DEF Spec

-----------------------------------------------------------------------------
(* BusyHasOwner.                                                           *)

Owns(t) ==
  \/ Holding(t)
  \/ /\ rec.phase = "waiting_for_health" /\ th[t].svc.op = rec.op
     /\ Awaits(t)

LEMMA OwnerIsOwner ==
  BusyHasOwner <=> (tomb = "none" /\ rec.phase \in Busy => \E t \in Threads : Owns(t))
  BY DEF BusyHasOwner, Owns, Awaits, CheckLabels

(* After a step its thread owns the record, or the record is not busy, or  *)
(* the step took the record from no owner.                                 *)
LEMMA OwnedFrom ==
  ASSUME BusyHasOwner, NEW t \in Threads, OnlyMoves(t), tomb' = "none" => tomb = "none",
         tomb = "none" =>
           \/ Owns(t)'
           \/ rec'.phase \notin Busy
           \/ /\ ~Owns(t) /\ rec'.phase = rec.phase /\ rec'.op = rec.op
              /\ \A u \in Threads \ {t} : Awaits(u) => th[u].att = health'.cur
  PROVE  BusyHasOwner'
  <1> SUFFICES ASSUME tomb' = "none", rec'.phase \in Busy, ~Owns(t)'
               PROVE  \E u \in Threads : Owns(u)'
    BY DEF BusyHasOwner, Owns, Awaits, CheckLabels, Holding
  <1>1. /\ ~Owns(t) /\ rec'.phase = rec.phase /\ rec'.op = rec.op /\ tomb = "none"
        /\ \A u \in Threads \ {t} : Awaits(u) => th[u].att = health'.cur
    OBVIOUS
  <1>2. PICK u \in Threads : Owns(u)
    BY <1>1, OwnerIsOwner
  <1>3. u # t /\ th'[u] = th[u]
    BY <1>1, <1>2 DEF OnlyMoves
  <1> QED BY <1>1, <1>2, <1>3 DEF Owns, Holding, Awaits

(* A thread that neither holds the record nor has its verdict to give      *)
(* leaves phase, operation and attempt.                                    *)
LEMMA StrangerGoes ==
  ASSUME BusyHasOwner, NEW t \in Threads, OnlyMoves(t), tomb' = tomb,
         th[t].pc \notin HoldingLabels, th[t].pc \notin CheckLabels,
         rec'.phase = rec.phase, rec'.op = rec.op, health' = health
  PROVE  BusyHasOwner'
  BY OwnedFrom DEF Owns, Holding, Awaits

(* A holder that goes on as one.                                           *)
LEMMA HolderStays ==
  ASSUME BusyHasOwner, NEW t \in Threads, OnlyMoves(t), tomb' = "none" => tomb = "none",
         th'[t].pc \in HoldingLabels
  PROVE  BusyHasOwner'
  BY OwnedFrom DEF Owns, Holding

(* A step that leaves the record at rest.                                  *)
LEMMA NobodyNeeded ==
  ASSUME BusyHasOwner, tomb' = "none" => rec'.phase \notin Busy
  PROVE  BusyHasOwner'
  BY DEF BusyHasOwner

LEMMA BusyHasOwnerStep ==
  ASSUME "repo" \notin Faults,
         TypeInv, OneWriter, DeleteInv, AttemptInv, BusyHasOwner, [Next]_vars
  PROVE  BusyHasOwner'
<1>Faultless. ~PutFails /\ ~Fault("repo")
  BY DEF PutFails, Fault
<1>Strangers. ASSUME NEW t \in Threads,
                    \/ ProvisionLookup(t)
                    \/ HasVersion(t)
                    \/ UpgradeFromCall(t)
                    \/ Reconcile(t)
                    \/ DeployDomains(t)
                    \/ Provision(t)
                    \/ Upgrade(t)
             PROVE  BusyHasOwner'
  <2>1. OnlyMoves(t)
    <3>1. CASE \E l, r : th' = [th EXCEPT ![t].pc = l, ![t].req = r]
      BY <3>1 DEF OnlyMoves, TypeInv, TypeOK
    <3>2. CASE Done(t) \/ (\E l : Go(t, l)) \/ (\E l, s : GoWith(t, l, s))
      BY <3>2, DoneForgets, GoKeeps, GoWithKeeps
    <3> QED BY <1>Strangers, <3>1, <3>2
            DEF ProvisionLookup, HasVersion, UpgradeFromCall, Reconcile, DeployDomains,
                Provision, Upgrade
  <2>2. th[t].pc \in {"idle", "lookup", "image", "upgradeImage", "redeployImage", "upgrade",
                      "reconcile", "domains"}
    BY <1>Strangers
    DEF ProvisionLookup, HasVersion, ClaimLabel, UpgradeFromCall, Reconcile, DeployDomains,
        Provision, Upgrade, Arrives, At
  <2>3. rec' = rec /\ health' = health /\ tomb' = tomb
    BY <1>Strangers
    DEF ProvisionLookup, HasVersion, UpgradeFromCall, Reconcile, DeployDomains,
        Provision, Upgrade
  <2> QED BY <2>1, <2>2, <2>3, StrangerGoes DEF HoldingLabels, CheckLabels
<1>Domains. ASSUME NEW t \in Threads, RedeployTerminated(t) \/ ApplyDomains(t)
            PROVE  BusyHasOwner'
  <2>1. /\ th[t].pc \in {"redeployClaim", "applyDomains"}
        /\ health' = health /\ tomb' = tomb
    BY <1>Domains DEF RedeployTerminated, ApplyDomains, At
  <2>2. OnlyMoves(t)
    BY <1>Domains, GoKeeps, DoneForgets DEF RedeployTerminated, ApplyDomains
  <2>3. rec'.phase = rec.phase /\ rec'.op = rec.op
    <3>1. rec \in RecType
      BY DEF TypeInv, TypeOK
    <3>2. ASSUME NEW x, NEW y, rec' = [rec EXCEPT !.dom = x, !.ver = y]
          PROVE  rec'.phase = rec.phase /\ rec'.op = rec.op
      BY <3>1, <3>2 DEF RecType
    <3>3. ASSUME NEW x, rec' = [rec EXCEPT !.dom = x]
          PROVE  rec'.phase = rec.phase /\ rec'.op = rec.op
      BY <3>1, <3>3 DEF RecType
    <3> QED BY <1>Domains, <1>Faultless, <3>2, <3>3 DEF RedeployTerminated, ApplyDomains, Puts
  <2> QED BY <2>1, <2>2, <2>3, StrangerGoes DEF HoldingLabels, CheckLabels
<1>Claims. ASSUME NEW t \in Threads, ProvisionClaim(t) \/ UpgradeClaim(t) PROVE BusyHasOwner'
  <2>1. tomb' = tomb /\ th[t].pc \in {"claim", "upgradeClaim"}
    BY <1>Claims DEF ProvisionClaim, UpgradeClaim, At
  <2>2. ASSUME NEW l \in {"storage", "isolate"}, NEW r, NEW s, NEW a, Claims(t, l, r, s, a)
        PROVE  BusyHasOwner'
    BY <2>1, <2>2, ClaimSets, HolderStays DEF HoldingLabels
  <2>3. CASE Done(t) /\ UNCHANGED <<rec, health>>
    BY <2>1, <2>3, DoneForgets, StrangerGoes DEF HoldingLabels, CheckLabels
  <2> QED BY <1>Claims, <1>Faultless, <2>2, <2>3 DEF ProvisionClaim, UpgradeClaim
<1>Resume. ASSUME NEW t \in Threads, Resume(t) \/ ResumeFromCall(t) PROVE BusyHasOwner'
  <2>1. tomb' = tomb /\ th[t].pc \in {"idle", "resume"}
    BY <1>Resume DEF Resume, ResumeFromCall, Arrives, At
  <2>2. ASSUME NEW r, ResumeClaim(t, r) PROVE BusyHasOwner'
    BY <2>1, <2>2, ClaimSets, HolderStays DEF ResumeClaim, HoldingLabels
  <2>3. ASSUME NEW r, ResumeRedeploys(t, r) PROVE BusyHasOwner'
    <3>1. OnlyMoves(t)
      BY <2>3 DEF ResumeRedeploys, OnlyMoves, TypeInv, TypeOK
    <3> QED BY <2>1, <2>3, <3>1, StrangerGoes DEF ResumeRedeploys, HoldingLabels, CheckLabels
  <2>4. CASE Done(t) /\ UNCHANGED <<rec, health>>
    BY <2>1, <2>4, DoneForgets, StrangerGoes DEF HoldingLabels, CheckLabels
  <2> QED BY <1>Resume, <1>Faultless, <2>2, <2>3, <2>4 DEF Resume, ResumeFromCall
<1>ChangeState. ASSUME NEW t \in Threads, ChangeState(t) PROVE BusyHasOwner'
  <2>1. \E r, s : Claims(t, "stop", r, s, 0)
    BY <1>ChangeState DEF ChangeState
  <2> QED BY <1>ChangeState, <2>1, ClaimSets, HolderStays DEF ChangeState, HoldingLabels
<1>Delete. ASSUME NEW t \in Threads, Delete(t) PROVE BusyHasOwner'
  <2>1. CASE tomb' # "none"
    BY <2>1 DEF BusyHasOwner
  <2>2. CASE tomb' = "none"
    <3>1. \E r, s : Claims(t, "wipe", r, s, 0)
      BY <1>Delete, <2>2 DEF Delete
    <3>2. tomb = "none"
      BY <1>Delete, <2>2 DEF Delete
    <3> QED BY <3>1, <3>2, ClaimSets, HolderStays DEF HoldingLabels
  <2> QED BY <2>1, <2>2
<1>Holders1. ASSUME NEW t \in Threads,
                   \/ PrepareStorage(t)
                   \/ StartSlot(t)
                   \/ EnsureIsolation(t)
                   \/ RestoreLiveRoute(t)
                   \/ RemoveTarget(t)
                   \/ RemovePreviousSlot(t)
                   \/ DrainOldDeploy(t)
                   \/ StopContainers(t)
                   \/ Unroute(t)
            PROVE  BusyHasOwner'
  <2>1. tomb' = tomb
    BY <1>Holders1
    DEF PrepareStorage, StartSlot, EnsureIsolation, RestoreLiveRoute, RemoveTarget,
        RemovePreviousSlot, DrainOldDeploy, StopContainers, Unroute
  <2>2. PICK l \in HoldingLabels : Go(t, l)
    <3>1. CASE PrepareStorage(t) \/ StartSlot(t) \/ RestoreLiveRoute(t) \/ RemoveTarget(t)
      BY <3>1 DEF PrepareStorage, StartSlot, RestoreLiveRoute, RemoveTarget, Fails, HoldingLabels
    <3>2. CASE EnsureIsolation(t)
      BY <3>2 DEF EnsureIsolation, Fails, HoldingLabels
    <3>3. CASE RemovePreviousSlot(t) \/ DrainOldDeploy(t)
      BY <3>3 DEF RemovePreviousSlot, DrainOldDeploy, Fails, HoldingLabels
    <3>4. CASE StopContainers(t) \/ Unroute(t)
      BY <3>4 DEF StopContainers, Unroute, Fails, HoldingLabels
    <3> QED BY <1>Holders1, <3>1, <3>2, <3>3, <3>4
  <2> QED BY <2>1, <2>2, GoKeeps, HolderStays
<1>Holders2. ASSUME NEW t \in Threads,
                   \/ RemoveContainers(t)
                   \/ RemoveRoute(t)
                   \/ DestroyDataset(t)
                   \/ RemoveMountpoint(t)
            PROVE  BusyHasOwner'
  <2>1. tomb' = tomb
    BY <1>Holders2 DEF RemoveContainers, RemoveRoute, DestroyDataset, RemoveMountpoint
  <2>2. PICK l \in HoldingLabels : Go(t, l)
    BY <1>Holders2
    DEF RemoveContainers, RemoveRoute, DestroyDataset, RemoveMountpoint, Fails, HoldingLabels
  <2> QED BY <2>1, <2>2, GoKeeps, HolderStays
<1>RouteTarget. ASSUME NEW t \in Threads, RouteTarget(t) PROVE BusyHasOwner'
  <2>1. AfterRoute[th[t].svc.op] \in HoldingLabels
    BY <1>RouteTarget
    DEF RouteTarget, At, AfterRoute, HoldingLabels, TypeInv, LocalOK, TargetLabels, Deploys
  <2>2. \E l \in HoldingLabels : Go(t, l)
    BY <1>RouteTarget, <2>1 DEF RouteTarget, Fails, HoldingLabels
  <2> QED BY <1>RouteTarget, <2>2, GoKeeps, HolderStays DEF RouteTarget
<1>PutDraining. ASSUME NEW t \in Threads, PutDraining(t) PROVE BusyHasOwner'
  <2>1. \E s : GoWith(t, "drain", s)
    BY <1>PutDraining, <1>Faultless DEF PutDraining
  <2> QED BY <1>PutDraining, <2>1, GoWithKeeps, HolderStays DEF PutDraining, HoldingLabels
<1>PutTargetState. ASSUME NEW t \in Threads, PutTargetState(t) PROVE BusyHasOwner'
  <2>1. \E s : GoWith(t, "settle", s)
    BY <1>PutTargetState, <1>Faultless DEF PutTargetState
  <2> QED BY <1>PutTargetState, <2>1, GoWithKeeps, HolderStays DEF PutTargetState, HoldingLabels
<1>FinishRouting. ASSUME NEW t \in Threads, FinishRouting(t) PROVE BusyHasOwner'
  <2>1. th[t].pc = "settle" /\ tomb' = tomb /\ rec' = rec
    BY <1>FinishRouting DEF FinishRouting, At
  <2>2. CASE tomb # "none"
    BY <2>1, <2>2 DEF BusyHasOwner
  <2>3. CASE tomb = "none"
    <3>1. Taken(rec) /\ rec = th[t].svc
      BY <2>1, <2>3, HeldIsCurrent DEF Holding, HoldingLabels
    <3>2. GoWith(t, "unroute", rec)
      BY <1>FinishRouting, <3>1 DEF FinishRouting, Taken
    <3> QED BY <2>1, <3>2, GoWithKeeps, HolderStays DEF HoldingLabels
  <2> QED BY <2>2, <2>3
<1>PutWaiting. ASSUME NEW t \in Threads, PutWaiting(t) PROVE BusyHasOwner'
  <2> DEFINE s == [th[t].svc EXCEPT !.phase = "waiting_for_health"]
             fresh == th[t].att = 0
             a == IF fresh THEN health.seq + 1 ELSE th[t].att
  <2>1. /\ rec' = s /\ th' = [th EXCEPT ![t].pc = "health", ![t].svc = s, ![t].att = a]
        /\ IF fresh THEN NextHealthAttempt ELSE UNCHANGED health
        /\ tomb' = tomb /\ th[t].pc = "putWaiting"
    BY <1>PutWaiting, <1>Faultless DEF PutWaiting, Puts, At
  <2>2. OnlyMoves(t) /\ th'[t].pc = "health" /\ th'[t].svc = s /\ th'[t].att = a
    BY <2>1 DEF OnlyMoves, TypeInv, TypeOK, ThreadType
  <2>3. s.phase = "waiting_for_health"
    BY CopyType DEF RecType
  <2>4. tomb = "none" => a = health'.cur
    BY <2>1 DEF NextHealthAttempt, AttemptInv, CurrentOK, BeforeWait
  <2>5. tomb = "none" => Owns(t)'
    BY <2>1, <2>2, <2>3, <2>4 DEF Owns, Awaits, CheckLabels
  <2> QED BY <2>1, <2>2, <2>5, OwnedFrom
<1>CheckHealth. ASSUME NEW t \in Threads, CheckHealth(t) PROVE BusyHasOwner'
  <2>1. /\ th[t].pc = "health" /\ health' = health /\ rec' = rec /\ tomb' = tomb
    BY <1>CheckHealth DEF CheckHealth, At
  <2>2. /\ OnlyMoves(t) /\ th'[t].pc = "verdict"
        /\ th'[t].svc = th[t].svc /\ th'[t].att = th[t].att
    <3>1. CASE Go(t, "verdict")
      BY <3>1, GoKeeps
    <3>2. CASE th' = [th EXCEPT ![t].pc = "verdict", ![t].passed = TRUE]
      BY <3>2 DEF OnlyMoves, TypeInv, TypeOK, ThreadType
    <3> QED BY <1>CheckHealth, <3>1, <3>2 DEF CheckHealth
  <2>3. Owns(t) => Owns(t)'
    BY <2>1, <2>2 DEF Owns, Holding, HoldingLabels, Awaits, CheckLabels
  <2>4. \A u \in Threads : Awaits(u) => th[u].att = health'.cur
    BY <2>1 DEF Awaits
  <2> QED BY <2>1, <2>2, <2>3, <2>4, OwnedFrom
<1>HealthVerdict. ASSUME NEW t \in Threads, HealthVerdict(t) PROVE BusyHasOwner'
  <2>1. th[t].pc = "verdict" /\ tomb' = tomb
    BY <1>HealthVerdict DEF HealthVerdict, At
  <2>2. CASE ~VerdictApplies(t) /\ Done(t) /\ UNCHANGED rec
    <3>1. OnlyMoves(t) /\ ~Owns(t)
      BY <2>1, <2>2, DoneForgets
      DEF VerdictApplies, CurrentAttempt, Owns, Awaits, Holding, HoldingLabels
    <3>2. ASSUME NEW u \in Threads \ {t}, Awaits(u) PROVE th[u].att = health'.cur
      <4>1. th[t].att # 0 /\ th[u].att = health.cur /\ th[u].att # th[t].att
        BY <2>1, <3>2 DEF AttemptInv, AttemptOK, Awaits, CheckLabels
      <4> QED BY <1>HealthVerdict, <4>1 DEF HealthVerdict, ForgetAttempt, CurrentAttempt
    <3> QED BY <2>1, <2>2, <3>1, <3>2, OwnedFrom
  <2>3. CASE rec' = [rec EXCEPT !.phase = "failed"]
    <3>1. rec'.phase = "failed"
      BY <2>3 DEF TypeInv, TypeOK, RecType
    <3> QED BY <3>1, NobodyNeeded DEF Busy
  <2>4. CASE \E s : GoWith(t, "route", s)
    BY <2>1, <2>4, GoWithKeeps, HolderStays DEF HoldingLabels
  <2> QED BY <1>HealthVerdict, <1>Faultless, <2>2, <2>3, <2>4 DEF HealthVerdict, Puts
<1>Ends. ASSUME NEW t \in Threads, PutRunning(t) \/ RecordFailure(t) \/ PutStopped(t)
         PROVE  BusyHasOwner'
  <2>1. rec'.phase \in {"running", "failed", "stopped"}
    BY <1>Ends, <1>Faultless, CopyType DEF PutRunning, RecordFailure, PutStopped, Puts, RecType
  <2> QED BY <2>1, NobodyNeeded DEF Busy
<1>Buries. ASSUME NEW t \in Threads, Bury(t) \/ FinishDelete(t) \/ PutTombstone(t)
           PROVE  BusyHasOwner'
  <2>1. tomb' # "none"
    BY <1>Buries, <1>Faultless
    DEF Bury, FinishDelete, PutTombstone, DeleteInv, BuriedLabels, At
  <2> QED BY <2>1, NobodyNeeded
<1>Restart. ASSUME Restart PROVE BusyHasOwner'
  <2>1. rec'.phase \notin Busy
    BY <1>Restart DEF Restart, Interrupted, Busy, TypeInv, TypeOK, RecType
  <2> QED BY <2>1, NobodyNeeded
<1>Stutter. CASE UNCHANGED vars
  BY <1>Stutter DEF vars, BusyHasOwner, Holding
<1> QED
  BY <1>Strangers, <1>Domains, <1>Claims, <1>Resume, <1>ChangeState, <1>Delete,
     <1>Holders1, <1>Holders2, <1>RouteTarget, <1>PutDraining, <1>PutTargetState,
     <1>FinishRouting, <1>PutWaiting, <1>CheckHealth, <1>HealthVerdict, <1>Ends,
     <1>Buries, <1>Restart, <1>Stutter
  DEF Next, Call, Work

(* As long as the repository can be written, a busy record has somebody    *)
(* who will take it out of its phase.                                      *)
THEOREM BusyHasOwnerHolds ==
  ASSUME "repo" \notin Faults
  PROVE  Spec => []BusyHasOwner
  <1>1. Init => BusyHasOwner
    BY NoRecFacts DEF Init, BusyHasOwner, Busy
  <1>2. /\ TypeInv /\ OneWriter /\ DeleteInv /\ AttemptInv /\ BusyHasOwner /\ [Next]_vars
        => BusyHasOwner'
    BY BusyHasOwnerStep
  <1> QED BY <1>1, <1>2, StrongTypes, OneWriterHolds, DeletesInOrder, AttemptsAreCurrent, PTL
          DEF Spec

=============================================================================
