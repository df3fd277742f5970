----------------------- MODULE LifecycleRecord_proofs -----------------------
(* That Lifecycle implements ServiceLife, for any number of threads, calls *)
(* and failures: KeepsPromise of LifecycleRecord.                          *)
EXTENDS LifecycleRecord, Lifecycle_proofs

StateChanges == {"suspended", "terminated"}

(* What the fields of a record on disk say of each other.                  *)
WellFormed(s) ==
  /\ s.state \in States /\ s.phase \in Phases /\ s.ver \in Versions
  /\ s.phase \in {"provisioning", "starting", "waiting_for_health", "draining"} =>
       s.op \in Deploys
  /\ s.phase = "stopping" => s.op \in StateChanges
  /\ s.phase = "routing" => s.op \in Deploys \union StateChanges
  /\ s.phase = "deleting" => s.op = "delete"
  /\ s.phase \in Busy /\ s.op \in Deploys => s.tver \in Versions
  /\ s.op = "upgrade" => s.state = "active"

(* The labels at which a call may still come to claim the record.          *)
AskingLabels ==
  {"lookup", "image", "claim", "reconcile", "upgrade", "upgradeImage",
   "upgradeClaim", "redeployImage", "redeployClaim", "resume"}

(* What a thread's label says of the phase and the operation of its copy,  *)
(* and of the version it was asked for.                                    *)
StageOK(x) ==
  /\ x.pc = "storage" => x.svc.phase = "provisioning"
  /\ x.pc \in {"isolate", "restore", "removeTarget"} => x.svc.phase = "starting"
  /\ x.pc \in {"start", "putWaiting"} => x.svc.phase \in {"provisioning", "starting"}
  /\ x.pc \in {"route", "removeOld", "putDraining"} => x.svc.phase = "routing"
  /\ x.pc = "drain" => x.svc.phase = "draining"
  /\ x.pc = "putRunning" => x.svc.phase \in {"routing", "draining"}
  /\ x.pc \in {"stop", "putTarget"} => x.svc.phase = "stopping"
  /\ x.pc \in {"settle", "unroute", "putStopped"} =>
       x.svc.phase = "routing" /\ x.svc.state = x.svc.op
  /\ x.pc \in {"restore", "putDraining", "drain"} => x.svc.op = "upgrade"
  /\ x.pc = "removeOld" => x.svc.op = "resume"
  /\ x.pc \in AskingLabels => x.req.ver \in Versions

(* A thread that records a failure has the state the record has, or the    *)
(* one it could not write there.                                           *)
FailureOK(t) ==
  At(t, "failing") =>
    \/ th[t].svc.state = rec.state
    \/ rec.phase = "stopping" /\ th[t].svc.state = rec.op

RecordInv ==
  tomb = "none" =>
    /\ rec = NoRec \/ WellFormed(rec)
    /\ \A t \in Threads : StageOK(th[t]) /\ FailureOK(t)

-----------------------------------------------------------------------------
LEMMA NoRecFacts ==
  NoRec.state = "absent" /\ NoRec.phase = "none" /\ NoRec.op = "" /\ ~Taken(NoRec)
  BY DEF NoRec, Taken, Busy

LEMMA GoesOn ==
  ASSUME TypeInv, NEW t \in Threads, NEW l, Go(t, l)
  PROVE  /\ OnlyMoves(t) /\ th'[t].pc = l /\ th'[t].svc = th[t].svc
         /\ th'[t].req = th[t].req
  BY DEF Go, OnlyMoves, TypeInv, TypeOK, ThreadType

LEMMA GoesOnWith ==
  ASSUME TypeInv, NEW t \in Threads, NEW l, NEW s, GoWith(t, l, s)
  PROVE  OnlyMoves(t) /\ th'[t].pc = l /\ th'[t].svc = s /\ th'[t].req = th[t].req
  BY DEF GoWith, OnlyMoves, TypeInv, TypeOK, ThreadType

LEMMA ReturnIsOK ==
  ASSUME TypeInv, NEW t \in Threads, Done(t)
  PROVE  OnlyMoves(t) /\ StageOK(th'[t]) /\ th'[t].pc = "idle"
  BY DoneMoves DEF StageOK, AskingLabels

(* The copy of a thread that holds the record of a service that has no     *)
(* tombstone is that record.                                               *)
LEMMA HeldIsCurrent ==
  ASSUME OneWriter, tomb = "none", NEW t \in Threads, Holding(t)
  PROVE  /\ Taken(rec)
         /\ \A u \in Threads : Holding(u) => u = t
         /\ th[t].pc # "failing" => th[t].svc = rec
  BY DEF OneWriter, CopyIsCurrent, At, Taken

LEMMA HeldIsWellFormed ==
  ASSUME OneWriter, RecordInv, tomb = "none", NEW t \in Threads, Holding(t),
         th[t].pc # "failing"
  PROVE  WellFormed(th[t].svc) /\ StageOK(th[t])
  <1>1. Taken(rec) /\ th[t].svc = rec
    BY HeldIsCurrent
  <1> QED BY <1>1, NoRecFacts DEF RecordInv

(* A step moves one thread to a label that tells the truth about it, and   *)
(* leaves the record as it was or, where nobody else holds it, well formed.*)
LEMMA RecordInvFrom ==
  ASSUME OneWriter, RecordInv, NEW t \in Threads, OnlyMoves(t),
         tomb' = "none" => tomb = "none",
         tomb = "none" => StageOK(th'[t]),
         tomb = "none" /\ th'[t].pc = "failing" =>
           /\ rec' = rec
           /\ \/ th'[t].svc.state = rec.state
              \/ rec.phase = "stopping" /\ th'[t].svc.state = rec.op,
         tomb = "none" =>
           \/ rec' = rec
           \/ Holding(t) /\ (rec' = NoRec \/ WellFormed(rec'))
           \/ ~Taken(rec) /\ (rec' = NoRec \/ WellFormed(rec'))
  PROVE  RecordInv'
  <1> SUFFICES ASSUME tomb' = "none", tomb = "none"
               PROVE  /\ rec' = NoRec \/ WellFormed(rec')
                      /\ \A u \in Threads : StageOK(th'[u]) /\ FailureOK(u)'
    BY DEF RecordInv, WellFormed, StageOK
  <1>1. rec' = NoRec \/ WellFormed(rec')
    BY DEF RecordInv
  <1>2. StageOK(th'[t]) /\ FailureOK(t)'
    BY DEF FailureOK, At
  <1>3. ASSUME NEW u \in Threads, u # t PROVE StageOK(th'[u]) /\ FailureOK(u)'
    <2>1. th'[u] = th[u] /\ StageOK(th[u]) /\ FailureOK(u)
      BY <1>3 DEF OnlyMoves, RecordInv
    <2>2. CASE th[u].pc # "failing"
      BY <2>1, <2>2 DEF FailureOK, At
    <2>3. CASE th[u].pc = "failing"
      <3>1. Holding(u)
        BY <2>3 DEF Holding, HoldingLabels
      <3>2. Taken(rec) /\ ~Holding(t)
        BY <1>3, <3>1, HeldIsCurrent
      <3>3. rec' = rec
        BY <3>2
      <3> QED BY <2>1, <3>3 DEF FailureOK, At
    <2> QED BY <2>2, <2>3
  <1> QED BY <1>1, <1>2, <1>3

(* A holder goes on with the copy it has.                                  *)
LEMMA HolderGoes ==
  ASSUME TypeInv, OneWriter, RecordInv, NEW t \in Threads, NEW l, Go(t, l),
         Holding(t), th[t].pc # "failing", rec' = rec, tomb' = tomb,
         tomb = "none" => StageOK(th'[t])
  PROVE  RecordInv'
  <1>1. OnlyMoves(t) /\ th'[t].svc = th[t].svc
    BY GoesOn
  <1>2. tomb = "none" => th[t].svc = rec
    BY HeldIsCurrent
  <1> QED BY <1>1, <1>2, RecordInvFrom

(* A new deployment of a service that has a record.                        *)
LEMMA UpgradeIsWellFormed ==
  ASSUME NEW s \in RecType, WellFormed(s), NEW r \in RequestType, r.ver \in Versions,
         UpgradeAllowed(s, r)
  PROVE  /\ WellFormed(UpgradeRecord(s, r)) /\ Taken(UpgradeRecord(s, r))
         /\ UpgradeRecord(s, r).phase = "starting"
  <1> DEFINE pending == ReplaceableActivation(s)
             op == IF pending THEN s.op ELSE "upgrade"
             tgt == IF op = "provision" THEN s.live ELSE Opposite(s.live)
             kept == IF pending \/ s.phase = "waiting_for_health" THEN s.tdom ELSE NoDomain
             dom == IF r.dom # NoDomain THEN r.dom ELSE kept
             u == [s EXCEPT !.phase = "starting", !.op = op, !.tgt = tgt,
                            !.tver = r.ver, !.tdom = dom]
  <1>1. UpgradeRecord(s, r) = u
    BY DEF UpgradeRecord
  <1>2. op \in Deploys /\ (op = "upgrade" => s.state = "active")
    BY DEF UpgradeAllowed, ReplaceableActivation, Deploys
  <1> HIDE DEF op, tgt, dom
  <1>3. /\ u.phase = "starting" /\ u.op = op /\ u.tver = r.ver
        /\ u.state = s.state /\ u.ver = s.ver
    BY DEF RecType
  <1> QED BY <1>1, <1>2, <1>3 DEF WellFormed, Taken, Busy, Phases

LEMMA ResumeIsWellFormed ==
  ASSUME TypeInv, OneWriter, RecordInv, NEW t \in Threads, NEW r, ResumeClaim(t, r),
         tomb' = tomb
  PROVE  RecordInv'
  <1> DEFINE s == [rec EXCEPT !.phase = "starting", !.op = "resume",
                              !.tgt = Opposite(rec.live), !.tver = rec.ver,
                              !.tdom = NoDomain]
  <1>1. OnlyMoves(t) /\ th'[t].pc = "isolate" /\ th'[t].svc = s /\ rec' = s
    BY ClaimMoves DEF ResumeClaim
  <1>2. rec \in RecType /\ ~Taken(rec) /\ rec # NoRec
    BY NoRecFacts DEF ResumeClaim, Resumable, Taken, TypeInv, TypeOK
  <1>3. /\ s.phase = "starting" /\ s.op = "resume" /\ s.tver = rec.ver
        /\ s.state = rec.state /\ s.ver = rec.ver
    BY <1>2 DEF RecType
  <1>4. tomb = "none" => WellFormed(s)
    BY <1>2, <1>3 DEF RecordInv, WellFormed, Deploys, Phases
  <1>5. StageOK(th'[t])
    BY <1>1, <1>3 DEF StageOK, AskingLabels
  <1> QED BY <1>1, <1>2, <1>4, <1>5, RecordInvFrom

LEMMA RecordInvStep ==
  ASSUME TypeInv, OneWriter, DeleteInv, RecordInv, [Next]_vars
  PROVE  RecordInv'
<1>ProvisionLookup. ASSUME NEW t \in Threads, ProvisionLookup(t) PROVE RecordInv'
  <2>1. OnlyMoves(t) /\ th'[t].pc \in {"image", "reconcile"} /\ th'[t].req = th[t].req
    BY <1>ProvisionLookup, GoesOn DEF ProvisionLookup
  <2>2. tomb = "none" => StageOK(th'[t])
    BY <1>ProvisionLookup, <2>1 DEF ProvisionLookup, At, RecordInv, StageOK, AskingLabels
  <2> QED BY <1>ProvisionLookup, <2>1, <2>2, RecordInvFrom DEF ProvisionLookup
<1>HasVersion. ASSUME NEW t \in Threads, HasVersion(t) PROVE RecordInv'
  <2>1. CASE Done(t)
    BY <1>HasVersion, <2>1, ReturnIsOK, RecordInvFrom DEF HasVersion
  <2>2. CASE Go(t, ClaimLabel[th[t].pc])
    <3>1. /\ th[t].pc \in AskingLabels
          /\ ClaimLabel[th[t].pc] \in {"claim", "upgradeClaim", "redeployClaim"}
      BY <1>HasVersion DEF HasVersion, ClaimLabel, AskingLabels
    <3>2. tomb = "none" => StageOK(th'[t])
      BY <2>2, <3>1, GoesOn DEF RecordInv, StageOK, AskingLabels
    <3> QED BY <1>HasVersion, <2>2, <3>1, <3>2, GoesOn, RecordInvFrom DEF HasVersion
  <2> QED BY <1>HasVersion, <2>1, <2>2 DEF HasVersion
<1>ProvisionClaim. ASSUME NEW t \in Threads, ProvisionClaim(t) PROVE RecordInv'
  <2> DEFINE r == th[t].req
             again == [rec EXCEPT !.phase = "provisioning", !.op = "provision",
                                  !.tgt = "blue", !.tver = r.ver]
  <2>1. rec \in RecType /\ (tomb = "none" => r.ver \in Versions)
    BY <1>ProvisionClaim
    DEF ProvisionClaim, At, RecordInv, StageOK, AskingLabels, TypeInv, TypeOK
  <2>2. CASE rec = NoRec /\ Claims(t, "storage", r, FreshRecord(r), 0)
    <3>1. ~Taken(rec)
      BY <2>2 DEF Taken, NoRec, Busy
    <3>2. tomb = "none" => WellFormed(FreshRecord(r)) /\ FreshRecord(r).phase = "provisioning"
      BY <2>1 DEF FreshRecord, WellFormed, States, Phases, Deploys
    <3>3. /\ OnlyMoves(t) /\ th'[t].pc = "storage"
          /\ th'[t].svc = FreshRecord(r) /\ rec' = FreshRecord(r)
      BY <2>2, ClaimMoves
    <3>4. tomb = "none" => StageOK(th'[t])
      BY <3>2, <3>3 DEF StageOK, AskingLabels
    <3> QED BY <1>ProvisionClaim, <3>1, <3>2, <3>3, <3>4, RecordInvFrom DEF ProvisionClaim
  <2>3. CASE rec # NoRec /\ ProvisionRetries(rec, r) /\ Claims(t, "storage", r, again, 0)
    <3>1. ~Taken(rec)
      BY <2>3 DEF Taken, ProvisionRetries
    <3>2. /\ again.phase = "provisioning" /\ again.op = "provision" /\ again.tver = r.ver
          /\ again.state = rec.state /\ again.ver = rec.ver
      BY <2>1 DEF RecType
    <3>3. tomb = "none" => WellFormed(again)
      BY <2>1, <2>3, <3>2 DEF RecordInv, WellFormed, Phases, Deploys
    <3>4. /\ OnlyMoves(t) /\ th'[t].pc = "storage" /\ th'[t].svc = again /\ rec' = again
      BY <2>3, ClaimMoves
    <3>5. StageOK(th'[t])
      BY <3>2, <3>4 DEF StageOK, AskingLabels
    <3> QED BY <1>ProvisionClaim, <3>1, <3>3, <3>4, <3>5, RecordInvFrom DEF ProvisionClaim
  <2>4. CASE Done(t) /\ UNCHANGED rec
    BY <1>ProvisionClaim, <2>4, ReturnIsOK, RecordInvFrom DEF ProvisionClaim
  <2> QED BY <1>ProvisionClaim, <2>2, <2>3, <2>4 DEF ProvisionClaim, PutFails
<1>PrepareStorage. ASSUME NEW t \in Threads, PrepareStorage(t) PROVE RecordInv'
  <2>1. Holding(t) /\ th[t].pc # "failing"
    BY <1>PrepareStorage DEF PrepareStorage, At, Holding, HoldingLabels
  <2>2. ASSUME NEW l, Go(t, l), tomb = "none", l = "failing" \/ l = "start" PROVE StageOK(th'[t])
    BY <1>PrepareStorage, <2>1, <2>2, GoesOn, HeldIsWellFormed
    DEF PrepareStorage, At, StageOK, AskingLabels
  <2> QED BY <1>PrepareStorage, <2>1, <2>2, HolderGoes DEF PrepareStorage, Fails
<1>StartSlot. ASSUME NEW t \in Threads, StartSlot(t) PROVE RecordInv'
  <2>1. Holding(t) /\ th[t].pc # "failing"
    BY <1>StartSlot DEF StartSlot, At, Holding, HoldingLabels
  <2>2. ASSUME NEW l, Go(t, l), tomb = "none", l = "failing" \/ l = "putWaiting" PROVE StageOK(th'[t])
    BY <1>StartSlot, <2>1, <2>2, GoesOn, HeldIsWellFormed
    DEF StartSlot, At, StageOK, AskingLabels
  <2> QED BY <1>StartSlot, <2>1, <2>2, HolderGoes DEF StartSlot, Fails
<1>PutWaiting. ASSUME NEW t \in Threads, PutWaiting(t) PROVE RecordInv'
  <2> DEFINE s == [th[t].svc EXCEPT !.phase = "waiting_for_health"]
  <2>1. Holding(t) /\ th[t].pc = "putWaiting" /\ th[t].svc \in RecType
    BY <1>PutWaiting, CopyType DEF PutWaiting, At, Holding, HoldingLabels
  <2>2. CASE PutFails /\ Go(t, "failing")
    <3>1. StageOK(th'[t])
      BY <2>2, GoesOn DEF StageOK, AskingLabels
    <3> QED BY <1>PutWaiting, <2>1, <2>2, <3>1, HolderGoes DEF PutWaiting, PutFails
  <2>3. CASE Puts(s) /\ ~(PutFails /\ Go(t, "failing"))
    <3>1. OnlyMoves(t) /\ th'[t].pc = "health"
      BY <1>PutWaiting, <2>3 DEF PutWaiting, OnlyMoves, TypeInv, TypeOK, ThreadType
    <3>2. StageOK(th'[t])
      BY <3>1 DEF StageOK, AskingLabels
    <3>3. /\ s.phase = "waiting_for_health" /\ s.op = th[t].svc.op
          /\ s.tver = th[t].svc.tver /\ s.state = th[t].svc.state /\ s.ver = th[t].svc.ver
      BY <2>1 DEF RecType
    <3>4. th[t].svc.op \in Deploys
      BY <2>1 DEF TypeInv, LocalOK, TargetLabels
    <3>5. tomb = "none" => WellFormed(s)
      BY <2>1, <3>3, <3>4, HeldIsWellFormed DEF WellFormed, StageOK, Phases, Busy
    <3> QED BY <1>PutWaiting, <2>1, <2>3, <3>1, <3>2, <3>5, RecordInvFrom
            DEF PutWaiting, Puts
  <2> QED BY <1>PutWaiting, <2>2, <2>3 DEF PutWaiting
<1>CheckHealth. ASSUME NEW t \in Threads, CheckHealth(t) PROVE RecordInv'
  <2>1. OnlyMoves(t) /\ th'[t].pc = "verdict"
    BY <1>CheckHealth, GoMoves DEF CheckHealth, OnlyMoves, TypeInv, TypeOK, ThreadType
  <2>2. StageOK(th'[t])
    BY <2>1 DEF StageOK, AskingLabels
  <2> QED BY <1>CheckHealth, <2>1, <2>2, RecordInvFrom DEF CheckHealth
<1>HealthVerdict. ASSUME NEW t \in Threads, HealthVerdict(t) PROVE RecordInv'
  <2>1. CASE UNCHANGED rec /\ Done(t)
    BY <1>HealthVerdict, <2>1, ReturnIsOK, RecordInvFrom DEF HealthVerdict
  <2>2. ASSUME VerdictApplies(t), NEW p \in {"failed", "routing"}
        PROVE  LET s == [rec EXCEPT !.phase = p] IN
                 /\ s.phase = p /\ ~Taken(rec)
                 /\ tomb = "none" => WellFormed(s)
    <3> DEFINE s == [rec EXCEPT !.phase = p]
    <3>1. rec \in RecType /\ rec.phase = "waiting_for_health"
      BY <2>2 DEF VerdictApplies, TypeInv, TypeOK
    <3>2. /\ s.phase = p /\ s.op = rec.op /\ s.tver = rec.tver
          /\ s.state = rec.state /\ s.ver = rec.ver
      BY <3>1 DEF RecType
    <3>3. tomb = "none" => WellFormed(rec)
      BY <3>1, NoRecFacts DEF RecordInv
    <3>4. tomb = "none" => WellFormed(s)
      BY <3>1, <3>2, <3>3 DEF WellFormed, Phases, Busy
    <3> QED BY <3>1, <3>2, <3>4 DEF Taken
  <2>3. CASE VerdictApplies(t) /\ Puts([rec EXCEPT !.phase = "failed"]) /\ Done(t)
    BY <1>HealthVerdict, <2>2, <2>3, ReturnIsOK, RecordInvFrom DEF HealthVerdict, Puts
  <2>4. CASE /\ VerdictApplies(t) /\ Puts([rec EXCEPT !.phase = "routing"])
             /\ GoWith(t, "route", [rec EXCEPT !.phase = "routing"])
    <3>1. /\ OnlyMoves(t) /\ th'[t].pc = "route"
          /\ th'[t].svc = [rec EXCEPT !.phase = "routing"]
      BY <2>4, GoesOnWith
    <3>2. StageOK(th'[t])
      BY <2>2, <2>4, <3>1 DEF StageOK, AskingLabels
    <3> QED BY <1>HealthVerdict, <2>2, <2>4, <3>1, <3>2, RecordInvFrom
            DEF HealthVerdict, Puts
  <2> QED BY <1>HealthVerdict, <2>1, <2>3, <2>4 DEF HealthVerdict, PutFails
<1>RouteTarget. ASSUME NEW t \in Threads, RouteTarget(t) PROVE RecordInv'
  <2>1. Holding(t) /\ th[t].pc = "route" /\ th[t].svc.op \in Deploys
    BY <1>RouteTarget
    DEF RouteTarget, At, Holding, HoldingLabels, TypeInv, LocalOK, TargetLabels
  <2>2. ASSUME Go(t, AfterRoute[th[t].svc.op]), tomb = "none" PROVE StageOK(th'[t])
    <3>1. /\ th[t].svc.op = "provision" => AfterRoute[th[t].svc.op] = "putRunning"
          /\ th[t].svc.op = "resume" => AfterRoute[th[t].svc.op] = "removeOld"
          /\ th[t].svc.op = "upgrade" => AfterRoute[th[t].svc.op] = "putDraining"
      BY DEF AfterRoute
    <3>2. th[t].svc.phase = "routing"
      BY <2>1, <2>2, HeldIsWellFormed DEF StageOK
    <3> QED BY <2>1, <2>2, <3>1, <3>2, GoesOn DEF StageOK, AskingLabels, Deploys
  <2>3. ASSUME Go(t, "failing") PROVE StageOK(th'[t])
    BY <2>3, GoesOn DEF StageOK, AskingLabels
  <2> QED BY <1>RouteTarget, <2>1, <2>2, <2>3, HolderGoes DEF RouteTarget, Fails
<1>RemovePreviousSlot. ASSUME NEW t \in Threads, RemovePreviousSlot(t) PROVE RecordInv'
  <2>1. Holding(t) /\ th[t].pc # "failing"
    BY <1>RemovePreviousSlot DEF RemovePreviousSlot, At, Holding, HoldingLabels
  <2>2. ASSUME NEW l, Go(t, l), tomb = "none", l = "failing" \/ l = "putRunning" PROVE StageOK(th'[t])
    BY <1>RemovePreviousSlot, <2>1, <2>2, GoesOn, HeldIsWellFormed
    DEF RemovePreviousSlot, At, StageOK, AskingLabels
  <2> QED BY <1>RemovePreviousSlot, <2>1, <2>2, HolderGoes DEF RemovePreviousSlot, Fails
<1>PutDraining. ASSUME NEW t \in Threads, PutDraining(t) PROVE RecordInv'
  <2> DEFINE s == [th[t].svc EXCEPT !.phase = "draining", !.tdom = NoDomain,
                                     !.dom = RoutingDomain(th[t].svc)]
  <2>1. /\ Holding(t) /\ th[t].pc = "putDraining"
        /\ th[t].svc \in RecType /\ th[t].svc.op \in Deploys
    BY <1>PutDraining, CopyType
    DEF PutDraining, At, Holding, HoldingLabels, TypeInv, LocalOK, TargetLabels
  <2>2. CASE Puts(s) /\ GoWith(t, "drain", s)
    <3>1. /\ s.phase = "draining" /\ s.op = th[t].svc.op
          /\ s.tver = th[t].svc.tver /\ s.state = th[t].svc.state /\ s.ver = th[t].svc.ver
      BY <2>1 DEF RecType
    <3>2. tomb = "none" => WellFormed(s) /\ s.op = "upgrade"
      BY <2>1, <3>1, HeldIsWellFormed DEF WellFormed, StageOK, Phases, Busy
    <3>3. OnlyMoves(t) /\ th'[t].pc = "drain" /\ th'[t].svc = s /\ rec' = s
      BY <2>2, GoesOnWith DEF Puts
    <3> HIDE DEF s
    <3>4. tomb = "none" => StageOK(th'[t])
      BY <3>1, <3>2, <3>3 DEF StageOK, AskingLabels
    <3> QED BY <1>PutDraining, <2>1, <3>2, <3>3, <3>4, RecordInvFrom DEF PutDraining
  <2>3. CASE PutFails /\ Done(t)
    BY <1>PutDraining, <2>3, ReturnIsOK, RecordInvFrom DEF PutDraining, PutFails
  <2> QED BY <1>PutDraining, <2>2, <2>3 DEF PutDraining
<1>DrainOldDeploy. ASSUME NEW t \in Threads, DrainOldDeploy(t) PROVE RecordInv'
  <2>1. Holding(t) /\ th[t].pc # "failing"
    BY <1>DrainOldDeploy DEF DrainOldDeploy, At, Holding, HoldingLabels
  <2>2. ASSUME NEW l, Go(t, l), tomb = "none", l = "failing" \/ l = "putRunning" PROVE StageOK(th'[t])
    BY <1>DrainOldDeploy, <2>1, <2>2, GoesOn, HeldIsWellFormed
    DEF DrainOldDeploy, At, StageOK, AskingLabels
  <2> QED BY <1>DrainOldDeploy, <2>1, <2>2, HolderGoes DEF DrainOldDeploy, Fails
<1>PutRunning. ASSUME NEW t \in Threads, PutRunning(t) PROVE RecordInv'
  <2> DEFINE c == th[t].svc
             state == IF c.op = "upgrade" THEN c.state ELSE "active"
             ver == IF c.tver # 0 THEN c.tver ELSE c.ver
             s == [c EXCEPT !.state = state, !.phase = "running", !.op = "",
                            !.live = c.tgt, !.tgt = "", !.ver = ver, !.tver = 0,
                            !.dom = RoutingDomain(c), !.tdom = NoDomain]
  <2>1. Holding(t) /\ th[t].pc = "putRunning" /\ c \in RecType
    BY <1>PutRunning, CopyType DEF PutRunning, At, Holding, HoldingLabels
  <2>2. CASE Puts(s) /\ Done(t)
    <3>1. s.state = state /\ s.phase = "running" /\ s.op = "" /\ s.ver = ver
      BY <2>1 DEF RecType
    <3>2. tomb = "none" => WellFormed(c)
      BY <2>1, HeldIsWellFormed
    <3>3. tomb = "none" => state \in States /\ ver \in Versions
      BY <2>1, <3>2 DEF WellFormed, States, RecType
    <3> HIDE DEF s, state, ver, c
    <3>4. tomb = "none" => WellFormed(s)
      BY <3>1, <3>3 DEF WellFormed, Phases, Busy, Deploys
    <3> QED BY <1>PutRunning, <2>1, <2>2, <3>4, ReturnIsOK, RecordInvFrom
            DEF PutRunning, Puts
  <2>3. CASE PutFails /\ Done(t)
    BY <1>PutRunning, <2>3, ReturnIsOK, RecordInvFrom DEF PutRunning, PutFails
  <2> QED BY <1>PutRunning, <2>2, <2>3 DEF PutRunning
<1>RecordFailure. ASSUME NEW t \in Threads, RecordFailure(t) PROVE RecordInv'
  <2> DEFINE s == [th[t].svc EXCEPT !.phase = "failed"]
  <2>1. Holding(t) /\ th[t].pc = "failing" /\ th[t].svc \in RecType
    BY <1>RecordFailure, CopyType DEF RecordFailure, At, Holding, HoldingLabels
  <2>2. CASE Puts(s) /\ Done(t)
    <3>1. tomb = "none" => s = [rec EXCEPT !.state = th[t].svc.state, !.phase = "failed"]
      BY <2>1 DEF OneWriter, CopyIsCurrent, At, RecType, TypeInv, TypeOK
    <3>2. tomb = "none" => /\ s.state = th[t].svc.state /\ s.phase = "failed"
                           /\ s.op = rec.op /\ s.ver = rec.ver
      BY <3>1 DEF RecType, TypeInv, TypeOK
    <3>3. tomb = "none" => WellFormed(rec)
      BY <2>1, HeldIsCurrent, NoRecFacts DEF RecordInv
    <3>4. tomb = "none" => \/ th[t].svc.state = rec.state
                           \/ rec.phase = "stopping" /\ th[t].svc.state = rec.op
      BY <2>1 DEF RecordInv, FailureOK, At
    <3> HIDE DEF s
    <3>5. tomb = "none" => WellFormed(s)
      BY <3>2, <3>3, <3>4
      DEF WellFormed, Phases, States, StateChanges, Busy
    <3> QED BY <1>RecordFailure, <2>1, <2>2, <3>5, ReturnIsOK, RecordInvFrom
            DEF RecordFailure, Puts
  <2>3. CASE PutFails /\ Done(t)
    BY <1>RecordFailure, <2>3, ReturnIsOK, RecordInvFrom DEF RecordFailure, PutFails
  <2> QED BY <1>RecordFailure, <2>2, <2>3 DEF RecordFailure
<1>UpgradeFromCall. ASSUME NEW t \in Threads, UpgradeFromCall(t) PROVE RecordInv'
  <2>1. CASE Done(t)
    BY <1>UpgradeFromCall, <2>1, ReturnIsOK, RecordInvFrom DEF UpgradeFromCall
  <2>2. CASE Go(t, "upgradeImage")
    <3>1. tomb = "none" => StageOK(th'[t])
      BY <1>UpgradeFromCall, <2>2, GoesOn
      DEF UpgradeFromCall, At, RecordInv, StageOK, AskingLabels
    <3> QED BY <1>UpgradeFromCall, <2>2, <3>1, GoesOn, RecordInvFrom DEF UpgradeFromCall
  <2> QED BY <1>UpgradeFromCall, <2>1, <2>2 DEF UpgradeFromCall
<1>UpgradeClaim. ASSUME NEW t \in Threads, UpgradeClaim(t) PROVE RecordInv'
  <2> DEFINE r == th[t].req
             s == UpgradeRecord(rec, r)
  <2>1. CASE UpgradeAllowed(rec, r) /\ Claims(t, "isolate", r, s, health.seq + 1)
    <3>1. rec \in RecType /\ r \in RequestType /\ (tomb = "none" => r.ver \in Versions)
      BY <1>UpgradeClaim, CopyType
      DEF UpgradeClaim, At, RecordInv, StageOK, AskingLabels, TypeInv, TypeOK
    <3>2. ~Taken(rec) /\ rec # NoRec
      BY <2>1, NoRecFacts
      DEF Taken, UpgradeAllowed, Replaceable, ReplaceableActivation
    <3>3. tomb = "none" => WellFormed(s) /\ s.phase = "starting"
      BY <2>1, <3>1, <3>2, UpgradeIsWellFormed DEF RecordInv
    <3>4. OnlyMoves(t) /\ th'[t].pc = "isolate" /\ th'[t].svc = s /\ rec' = s
      BY <2>1, ClaimMoves
    <3>5. tomb = "none" => StageOK(th'[t])
      BY <3>3, <3>4 DEF StageOK, AskingLabels
    <3> QED BY <1>UpgradeClaim, <3>2, <3>3, <3>4, <3>5, RecordInvFrom DEF UpgradeClaim
  <2>2. CASE Done(t) /\ UNCHANGED rec
    BY <1>UpgradeClaim, <2>2, ReturnIsOK, RecordInvFrom DEF UpgradeClaim
  <2> QED BY <1>UpgradeClaim, <2>1, <2>2 DEF UpgradeClaim, PutFails
<1>EnsureIsolation. ASSUME NEW t \in Threads, EnsureIsolation(t) PROVE RecordInv'
  <2>1. Holding(t) /\ th[t].pc = "isolate"
    BY <1>EnsureIsolation DEF EnsureIsolation, At, Holding, HoldingLabels
  <2>2. ASSUME NEW l \in {"restore", "removeTarget", "failing"}, Go(t, l), tomb = "none",
               l = "restore" => th[t].svc.op = "upgrade"
        PROVE  StageOK(th'[t])
    BY <2>1, <2>2, GoesOn, HeldIsWellFormed DEF StageOK, AskingLabels
  <2> QED BY <1>EnsureIsolation, <2>1, <2>2, HolderGoes DEF EnsureIsolation, Fails
<1>RestoreLiveRoute. ASSUME NEW t \in Threads, RestoreLiveRoute(t) PROVE RecordInv'
  <2>1. Holding(t) /\ th[t].pc # "failing"
    BY <1>RestoreLiveRoute DEF RestoreLiveRoute, At, Holding, HoldingLabels
  <2>2. ASSUME NEW l, Go(t, l), tomb = "none", l = "failing" \/ l = "removeTarget" PROVE StageOK(th'[t])
    BY <1>RestoreLiveRoute, <2>1, <2>2, GoesOn, HeldIsWellFormed
    DEF RestoreLiveRoute, At, StageOK, AskingLabels
  <2> QED BY <1>RestoreLiveRoute, <2>1, <2>2, HolderGoes DEF RestoreLiveRoute, Fails
<1>RemoveTarget. ASSUME NEW t \in Threads, RemoveTarget(t) PROVE RecordInv'
  <2>1. Holding(t) /\ th[t].pc # "failing"
    BY <1>RemoveTarget DEF RemoveTarget, At, Holding, HoldingLabels
  <2>2. ASSUME NEW l, Go(t, l), tomb = "none", l = "failing" \/ l = "start" PROVE StageOK(th'[t])
    BY <1>RemoveTarget, <2>1, <2>2, GoesOn, HeldIsWellFormed
    DEF RemoveTarget, At, StageOK, AskingLabels
  <2> QED BY <1>RemoveTarget, <2>1, <2>2, HolderGoes DEF RemoveTarget, Fails
<1>Reconcile. ASSUME NEW t \in Threads, Reconcile(t) PROVE RecordInv'
  <2>1. CASE Done(t)
    BY <1>Reconcile, <2>1, ReturnIsOK, RecordInvFrom DEF Reconcile
  <2>2. ASSUME NEW l \in {"upgrade", "domains", "redeployImage"}, Go(t, l)
        PROVE  RecordInv'
    <3>1. tomb = "none" => StageOK(th'[t])
      BY <1>Reconcile, <2>2, GoesOn DEF Reconcile, At, RecordInv, StageOK, AskingLabels
    <3> QED BY <1>Reconcile, <2>2, <3>1, GoesOn, RecordInvFrom DEF Reconcile
  <2> QED BY <1>Reconcile, <2>1, <2>2 DEF Reconcile
<1>RedeployTerminated. ASSUME NEW t \in Threads, RedeployTerminated(t) PROVE RecordInv'
  <2> DEFINE r == th[t].req
             s == [rec EXCEPT !.dom = r.dom, !.ver = r.ver]
  <2>1. CASE /\ rec.state = "terminated" /\ rec.phase = "stopped"
             /\ Puts(s) /\ Go(t, "resume")
    <3>1. /\ rec \in RecType /\ rec # NoRec /\ ~Taken(rec)
          /\ tomb = "none" => r.ver \in Versions
      BY <1>RedeployTerminated, <2>1, NoRecFacts
      DEF RedeployTerminated, At, RecordInv, StageOK, AskingLabels, TypeInv, TypeOK,
          Taken, Busy
    <3>2. s.state = rec.state /\ s.phase = rec.phase /\ s.op = rec.op /\ s.ver = r.ver
      BY <3>1 DEF RecType
    <3>3. tomb = "none" => WellFormed(s)
      BY <2>1, <3>1, <3>2 DEF RecordInv, WellFormed, Busy
    <3>4. tomb = "none" => StageOK(th'[t])
      BY <2>1, <3>1, GoesOn DEF StageOK, AskingLabels
    <3> QED BY <1>RedeployTerminated, <2>1, <3>1, <3>3, <3>4, GoesOn, RecordInvFrom
            DEF RedeployTerminated, Puts
  <2>2. CASE Done(t) /\ UNCHANGED rec
    BY <1>RedeployTerminated, <2>2, ReturnIsOK, RecordInvFrom DEF RedeployTerminated
  <2> QED BY <1>RedeployTerminated, <2>1, <2>2 DEF RedeployTerminated, PutFails
<1>DeployDomains. ASSUME NEW t \in Threads, DeployDomains(t) PROVE RecordInv'
  <2>1. CASE Done(t)
    BY <1>DeployDomains, <2>1, ReturnIsOK, RecordInvFrom DEF DeployDomains
  <2>2. CASE GoWith(t, "applyDomains", rec)
    <3>1. StageOK(th'[t])
      BY <2>2, GoesOnWith DEF StageOK, AskingLabels
    <3> QED BY <1>DeployDomains, <2>2, <3>1, GoesOnWith, RecordInvFrom DEF DeployDomains
  <2> QED BY <1>DeployDomains, <2>1, <2>2 DEF DeployDomains
<1>ApplyDomains. ASSUME NEW t \in Threads, ApplyDomains(t) PROVE RecordInv'
  <2> DEFINE s == [rec EXCEPT !.dom = th[t].req.dom]
  <2>1. CASE UnchangedSince(th[t].svc) /\ rec' = s
    <3>1. rec.phase \in {"running", "stopped"}
      BY <1>ApplyDomains, <2>1 DEF ApplyDomains, At, UnchangedSince, TypeInv, LocalOK
    <3>2. rec \in RecType /\ rec # NoRec /\ ~Taken(rec)
      BY <3>1, NoRecFacts DEF TypeInv, TypeOK, Taken, Busy
    <3>3. /\ s.state = rec.state /\ s.phase = rec.phase /\ s.op = rec.op
          /\ s.ver = rec.ver /\ s.tver = rec.tver
      BY <3>2 DEF RecType
    <3>4. tomb = "none" => WellFormed(s)
      BY <3>2, <3>3 DEF RecordInv, WellFormed
    <3> QED BY <1>ApplyDomains, <2>1, <3>2, <3>4, ReturnIsOK, RecordInvFrom
            DEF ApplyDomains
  <2>2. CASE rec' = rec
    BY <1>ApplyDomains, <2>2, ReturnIsOK, RecordInvFrom DEF ApplyDomains
  <2> QED BY <1>ApplyDomains, <2>1, <2>2 DEF ApplyDomains, Puts, PutFails
<1>ResumeFromCall. ASSUME NEW t \in Threads, ResumeFromCall(t) PROVE RecordInv'
  <2>1. CASE ResumeClaim(t, th[t].req)
    BY <1>ResumeFromCall, <2>1, ResumeIsWellFormed DEF ResumeFromCall
  <2>2. CASE Done(t) /\ UNCHANGED rec
    BY <1>ResumeFromCall, <2>2, ReturnIsOK, RecordInvFrom DEF ResumeFromCall
  <2> QED BY <1>ResumeFromCall, <2>1, <2>2 DEF ResumeFromCall, PutFails
<1>StopContainers. ASSUME NEW t \in Threads, StopContainers(t) PROVE RecordInv'
  <2>1. Holding(t) /\ th[t].pc # "failing"
    BY <1>StopContainers DEF StopContainers, At, Holding, HoldingLabels
  <2>2. ASSUME NEW l, Go(t, l), tomb = "none", l = "failing" \/ l = "putTarget" PROVE StageOK(th'[t])
    BY <1>StopContainers, <2>1, <2>2, GoesOn, HeldIsWellFormed
    DEF StopContainers, At, StageOK, AskingLabels
  <2> QED BY <1>StopContainers, <2>1, <2>2, HolderGoes DEF StopContainers, Fails
<1>PutTargetState. ASSUME NEW t \in Threads, PutTargetState(t) PROVE RecordInv'
  <2> DEFINE c == th[t].svc
             s == [c EXCEPT !.state = c.op, !.phase = "routing"]
  <2>1. /\ Holding(t) /\ th[t].pc = "putTarget"
        /\ c \in RecType /\ c.op \in {"suspended", "terminated"}
    BY <1>PutTargetState, CopyType
    DEF PutTargetState, At, Holding, HoldingLabels, TypeInv, LocalOK, StateLabels
  <2>2. /\ s.state = c.op /\ s.phase = "routing" /\ s.op = c.op /\ s.ver = c.ver
        /\ s.tver = c.tver
    BY <2>1 DEF RecType
  <2>3. tomb = "none" => c = rec /\ WellFormed(c) /\ c.phase = "stopping"
    BY <2>1, HeldIsCurrent, HeldIsWellFormed DEF StageOK
  <2> HIDE DEF s, c
  <2>4. tomb = "none" => WellFormed(s)
    BY <2>1, <2>2, <2>3
    DEF WellFormed, Phases, States, Busy, Deploys, StateChanges
  <2>5. CASE Puts(s) /\ GoWith(t, "settle", s)
    <3>1. OnlyMoves(t) /\ th'[t].pc = "settle" /\ th'[t].svc = s
      BY <2>5, GoesOnWith
    <3>2. StageOK(th'[t])
      BY <2>2, <3>1 DEF StageOK, AskingLabels
    <3> QED BY <1>PutTargetState, <2>1, <2>4, <2>5, <3>1, <3>2, RecordInvFrom
            DEF PutTargetState, Puts
  <2>6. CASE PutFails /\ GoWith(t, "failing", s)
    <3>1. OnlyMoves(t) /\ th'[t].pc = "failing" /\ th'[t].svc = s
      BY <2>6, GoesOnWith
    <3>2. StageOK(th'[t])
      BY <3>1 DEF StageOK, AskingLabels
    <3>3. tomb = "none" => rec.phase = "stopping" /\ th'[t].svc.state = rec.op
      BY <2>2, <2>3, <3>1
    <3> QED BY <1>PutTargetState, <2>6, <3>1, <3>2, <3>3, RecordInvFrom
            DEF PutTargetState, PutFails
  <2> QED BY <1>PutTargetState, <2>5, <2>6 DEF PutTargetState, s, c
<1>FinishRouting. ASSUME NEW t \in Threads, FinishRouting(t) PROVE RecordInv'
  <2>1. Holding(t) /\ th[t].pc = "settle"
    BY <1>FinishRouting DEF FinishRouting, At, Holding, HoldingLabels
  <2>2. CASE Done(t)
    BY <1>FinishRouting, <2>2, ReturnIsOK, RecordInvFrom DEF FinishRouting
  <2>3. CASE GoWith(t, "unroute", rec)
    <3>1. OnlyMoves(t) /\ th'[t].pc = "unroute" /\ th'[t].svc = rec
      BY <2>3, GoesOnWith
    <3>2. tomb = "none" => rec.phase = "routing" /\ rec.state = rec.op
      BY <2>1, HeldIsCurrent, HeldIsWellFormed DEF StageOK
    <3>3. tomb = "none" => StageOK(th'[t])
      BY <3>1, <3>2 DEF StageOK, AskingLabels
    <3> QED BY <1>FinishRouting, <3>1, <3>3, RecordInvFrom DEF FinishRouting
  <2> QED BY <1>FinishRouting, <2>2, <2>3 DEF FinishRouting
<1>Unroute. ASSUME NEW t \in Threads, Unroute(t) PROVE RecordInv'
  <2>1. Holding(t) /\ th[t].pc # "failing"
    BY <1>Unroute DEF Unroute, At, Holding, HoldingLabels
  <2>2. ASSUME NEW l, Go(t, l), tomb = "none", l = "failing" \/ l = "putStopped" PROVE StageOK(th'[t])
    BY <1>Unroute, <2>1, <2>2, GoesOn, HeldIsWellFormed
    DEF Unroute, At, StageOK, AskingLabels
  <2> QED BY <1>Unroute, <2>1, <2>2, HolderGoes DEF Unroute, Fails
<1>PutStopped. ASSUME NEW t \in Threads, PutStopped(t) PROVE RecordInv'
  <2> DEFINE s == [th[t].svc EXCEPT !.phase = "stopped", !.op = "", !.tgt = "",
                                    !.tver = 0, !.tdom = NoDomain]
  <2>1. Holding(t) /\ th[t].pc = "putStopped" /\ th[t].svc \in RecType
    BY <1>PutStopped, CopyType DEF PutStopped, At, Holding, HoldingLabels
  <2>2. CASE Puts(s) /\ Done(t)
    <3>1. /\ s.state = th[t].svc.state /\ s.phase = "stopped" /\ s.op = ""
          /\ s.ver = th[t].svc.ver
      BY <2>1 DEF RecType
    <3>2. tomb = "none" => WellFormed(s)
      BY <2>1, <3>1, HeldIsWellFormed DEF WellFormed, Phases, Busy
    <3> QED BY <1>PutStopped, <2>1, <2>2, <3>2, ReturnIsOK, RecordInvFrom
            DEF PutStopped, Puts
  <2>3. CASE PutFails /\ Done(t)
    BY <1>PutStopped, <2>3, ReturnIsOK, RecordInvFrom DEF PutStopped, PutFails
  <2> QED BY <1>PutStopped, <2>2, <2>3 DEF PutStopped
<1>RemoveContainers. ASSUME NEW t \in Threads, RemoveContainers(t) PROVE RecordInv'
  <2>1. Holding(t) /\ th[t].pc # "failing"
    BY <1>RemoveContainers DEF RemoveContainers, At, Holding, HoldingLabels
  <2>2. ASSUME NEW l, Go(t, l), tomb = "none", l = "failing" \/ l = "unserve" PROVE StageOK(th'[t])
    BY <1>RemoveContainers, <2>1, <2>2, GoesOn, HeldIsWellFormed
    DEF RemoveContainers, At, StageOK, AskingLabels
  <2> QED BY <1>RemoveContainers, <2>1, <2>2, HolderGoes DEF RemoveContainers, Fails
<1>RemoveRoute. ASSUME NEW t \in Threads, RemoveRoute(t) PROVE RecordInv'
  <2>1. Holding(t) /\ th[t].pc # "failing"
    BY <1>RemoveRoute DEF RemoveRoute, At, Holding, HoldingLabels
  <2>2. ASSUME NEW l, Go(t, l), tomb = "none", l = "failing" \/ l = "destroy" PROVE StageOK(th'[t])
    BY <1>RemoveRoute, <2>1, <2>2, GoesOn, HeldIsWellFormed
    DEF RemoveRoute, At, StageOK, AskingLabels
  <2> QED BY <1>RemoveRoute, <2>1, <2>2, HolderGoes DEF RemoveRoute, Fails
<1>DestroyDataset. ASSUME NEW t \in Threads, DestroyDataset(t) PROVE RecordInv'
  <2>1. Holding(t) /\ th[t].pc # "failing"
    BY <1>DestroyDataset DEF DestroyDataset, At, Holding, HoldingLabels
  <2>2. ASSUME NEW l, Go(t, l), tomb = "none", l = "failing" \/ l = "unmount" PROVE StageOK(th'[t])
    BY <1>DestroyDataset, <2>1, <2>2, GoesOn, HeldIsWellFormed
    DEF DestroyDataset, At, StageOK, AskingLabels
  <2> QED BY <1>DestroyDataset, <2>1, <2>2, HolderGoes DEF DestroyDataset, Fails
<1>RemoveMountpoint. ASSUME NEW t \in Threads, RemoveMountpoint(t) PROVE RecordInv'
  <2>1. Holding(t) /\ th[t].pc # "failing"
    BY <1>RemoveMountpoint DEF RemoveMountpoint, At, Holding, HoldingLabels
  <2>2. ASSUME NEW l, Go(t, l), tomb = "none", l = "failing" \/ l = "bury" PROVE StageOK(th'[t])
    BY <1>RemoveMountpoint, <2>1, <2>2, GoesOn, HeldIsWellFormed
    DEF RemoveMountpoint, At, StageOK, AskingLabels
  <2> QED BY <1>RemoveMountpoint, <2>1, <2>2, HolderGoes DEF RemoveMountpoint, Fails
<1>Bury. ASSUME NEW t \in Threads, Bury(t) PROVE RecordInv'
  <2>1. CASE tomb' = "deleting"
    BY <2>1 DEF RecordInv
  <2>2. CASE Done(t) /\ UNCHANGED <<rec, tomb>>
    BY <2>2, ReturnIsOK, RecordInvFrom
  <2> QED BY <1>Bury, <2>1, <2>2 DEF Bury, PutFails
<1>FinishDelete. ASSUME NEW t \in Threads, FinishDelete(t) PROVE RecordInv'
  <2>1. tomb # "none" /\ tomb' = tomb
    BY <1>FinishDelete DEF FinishDelete, At, DeleteInv, BuriedLabels
  <2> QED BY <2>1 DEF RecordInv
<1>PutTombstone. ASSUME NEW t \in Threads, PutTombstone(t) PROVE RecordInv'
  <2>1. tomb' # "none"
    BY <1>PutTombstone DEF PutTombstone, At, DeleteInv, BuriedLabels
  <2> QED BY <2>1 DEF RecordInv
<1>Provision. ASSUME NEW t \in Threads, Provision(t) PROVE RecordInv'
  <2>1. PICK r \in Requests : /\ r.kind = "provision"
                              /\ th' = [th EXCEPT ![t].pc = "lookup", ![t].req = r]
    BY <1>Provision DEF Provision
  <2>2. OnlyMoves(t) /\ th'[t].pc = "lookup" /\ th'[t].req = r
    BY <2>1 DEF OnlyMoves, TypeInv, TypeOK, ThreadType
  <2>3. StageOK(th'[t])
    BY <2>1, <2>2, ConstantsAssumption DEF StageOK, AskingLabels
  <2> QED BY <1>Provision, <2>2, <2>3, RecordInvFrom DEF Provision
<1>Upgrade. ASSUME NEW t \in Threads, Upgrade(t) PROVE RecordInv'
  <2>1. PICK r \in Requests : /\ r.kind = "upgrade"
                              /\ th' = [th EXCEPT ![t].pc = "upgradeImage", ![t].req = r]
    BY <1>Upgrade DEF Upgrade
  <2>2. OnlyMoves(t) /\ th'[t].pc = "upgradeImage" /\ th'[t].req = r
    BY <2>1 DEF OnlyMoves, TypeInv, TypeOK, ThreadType
  <2>3. StageOK(th'[t])
    BY <2>1, <2>2, ConstantsAssumption DEF StageOK, AskingLabels
  <2> QED BY <1>Upgrade, <2>2, <2>3, RecordInvFrom DEF Upgrade
<1>Resume. ASSUME NEW t \in Threads, Resume(t) PROVE RecordInv'
  <2>1. PICK r \in Requests : ResumeClaim(t, r) \/ ResumeRedeploys(t, r)
    BY <1>Resume DEF Resume
  <2>2. CASE ResumeClaim(t, r)
    BY <1>Resume, <2>2, ResumeIsWellFormed DEF Resume
  <2>3. CASE ResumeRedeploys(t, r)
    <3>1. r \in RequestType /\ th[t] \in ThreadType
      BY ConstantsAssumption DEF TypeInv, TypeOK
    <3>2. [r EXCEPT !.kind = "upgrade", !.ver = rec.ver].ver = rec.ver
      BY <3>1 DEF RequestType
    <3>3. OnlyMoves(t) /\ th'[t].pc = "upgrade" /\ th'[t].req.ver = rec.ver /\ rec' = rec
      BY <2>3, <3>1, <3>2 DEF ResumeRedeploys, OnlyMoves, TypeInv, TypeOK, ThreadType
    <3>4. tomb = "none" => rec.ver \in Versions
      BY <2>3, NoRecFacts DEF ResumeRedeploys, RecordInv, WellFormed
    <3>5. tomb = "none" => StageOK(th'[t])
      BY <3>3, <3>4 DEF StageOK, AskingLabels
    <3> QED BY <1>Resume, <3>3, <3>5, RecordInvFrom DEF Resume
  <2> QED BY <2>1, <2>2, <2>3
<1>ChangeState. ASSUME NEW t \in Threads, ChangeState(t) PROVE RecordInv'
  <2>1. PICK r \in Requests :
          /\ r.kind \in {"suspend", "terminate"}
          /\ StateChangeAllowed(rec, TargetState[r.kind])
          /\ Claims(t, "stop", r, [rec EXCEPT !.phase = "stopping", !.tdom = NoDomain,
                                              !.op = TargetState[r.kind]], 0)
    BY <1>ChangeState DEF ChangeState
  <2> DEFINE s == [rec EXCEPT !.phase = "stopping", !.tdom = NoDomain,
                              !.op = TargetState[r.kind]]
  <2>2. rec \in RecType /\ ~Taken(rec) /\ rec # NoRec /\ TargetState[r.kind] \in StateChanges
    BY <2>1 DEF StateChangeAllowed, Replaceable, Taken, TypeInv, TypeOK, TargetState,
       StateChanges
  <2>3. /\ s.phase = "stopping" /\ s.op \in StateChanges
        /\ s.state = rec.state /\ s.ver = rec.ver
    BY <2>2 DEF RecType
  <2>4. OnlyMoves(t) /\ th'[t].pc = "stop" /\ th'[t].svc = s /\ rec' = s
    BY <2>1, ClaimMoves
  <2> HIDE DEF s
  <2>5. tomb = "none" => WellFormed(s)
    BY <2>2, <2>3 DEF RecordInv, WellFormed, Phases, StateChanges, Deploys
  <2>6. StageOK(th'[t])
    BY <2>3, <2>4 DEF StageOK, AskingLabels
  <2> QED BY <1>ChangeState, <2>2, <2>4, <2>5, <2>6, RecordInvFrom DEF ChangeState
<1>Delete. ASSUME NEW t \in Threads, Delete(t) PROVE RecordInv'
  <2> DEFINE s == [rec EXCEPT !.phase = "deleting", !.op = "delete"]
  <2>1. CASE tomb' # "none"
    BY <2>1 DEF RecordInv
  <2>2. CASE tomb' = "none"
    <3>1. PICK r \in Requests : tomb = "none" /\ Deletable(rec) /\ Claims(t, "wipe", r, s, 0)
      BY <1>Delete, <2>2 DEF Delete
    <3>2. rec \in RecType /\ ~Taken(rec) /\ rec # NoRec
      BY <3>1, NoRecFacts DEF Deletable, Taken, TypeInv, TypeOK
    <3>3. /\ s.phase = "deleting" /\ s.op = "delete"
          /\ s.state = rec.state /\ s.ver = rec.ver
      BY <3>2 DEF RecType
    <3>4. OnlyMoves(t) /\ th'[t].pc = "wipe" /\ th'[t].svc = s /\ rec' = s
      BY <3>1, ClaimMoves
    <3> HIDE DEF s
    <3>5. WellFormed(s)
      BY <3>1, <3>2, <3>3 DEF RecordInv, WellFormed, Phases, Deploys
    <3>6. StageOK(th'[t])
      BY <3>4 DEF StageOK, AskingLabels
    <3> QED BY <3>1, <3>2, <3>4, <3>5, <3>6, RecordInvFrom
  <2> QED BY <2>1, <2>2
<1>Restart. ASSUME Restart PROVE RecordInv'
  <2>0. tomb' = "none" => tomb = "none"
    BY <1>Restart DEF Restart
  <2> SUFFICES ASSUME tomb' = "none", tomb = "none"
               PROVE  /\ rec' = NoRec \/ WellFormed(rec')
                      /\ \A u \in Threads : StageOK(th'[u]) /\ FailureOK(u)'
    BY <2>0 DEF RecordInv, WellFormed, StageOK
  <2>1. rec \in RecType
    BY DEF TypeInv, TypeOK
  <2>2. rec' = rec \/ (rec # NoRec /\ rec' = [rec EXCEPT !.phase = "failed"])
    BY <1>Restart, NoRecFacts DEF Restart, Interrupted, Busy
  <2>3. ASSUME rec # NoRec, rec' = [rec EXCEPT !.phase = "failed"]
        PROVE  WellFormed(rec')
    <3>1. /\ rec'.phase = "failed" /\ rec'.op = rec.op
          /\ rec'.state = rec.state /\ rec'.ver = rec.ver
      BY <2>1, <2>3 DEF RecType
    <3> QED BY <2>3, <3>1 DEF RecordInv, WellFormed, Phases, Busy
  <2>4. rec' = NoRec \/ WellFormed(rec')
    BY <2>2, <2>3 DEF RecordInv
  <2>5. \A t \in Threads : th'[t].pc = "idle"
    BY <1>Restart DEF Restart, Idle
  <2> QED BY <2>4, <2>5 DEF StageOK, AskingLabels, FailureOK, At
<1>Stutter. ASSUME UNCHANGED vars PROVE RecordInv'
  BY <1>Stutter DEF vars, RecordInv, FailureOK, At, StageOK
<1> QED
  BY <1>ProvisionLookup, <1>HasVersion, <1>ProvisionClaim, <1>PrepareStorage,
     <1>StartSlot, <1>PutWaiting, <1>CheckHealth, <1>HealthVerdict, <1>RouteTarget,
     <1>RemovePreviousSlot, <1>PutDraining, <1>DrainOldDeploy, <1>PutRunning,
     <1>RecordFailure, <1>UpgradeFromCall, <1>UpgradeClaim, <1>EnsureIsolation,
     <1>RestoreLiveRoute, <1>RemoveTarget, <1>Reconcile, <1>RedeployTerminated,
     <1>DeployDomains, <1>ApplyDomains, <1>ResumeFromCall, <1>StopContainers,
     <1>PutTargetState, <1>FinishRouting, <1>Unroute, <1>PutStopped,
     <1>RemoveContainers, <1>RemoveRoute, <1>DestroyDataset, <1>RemoveMountpoint,
     <1>Bury, <1>FinishDelete, <1>PutTombstone, <1>Provision, <1>Upgrade, <1>Resume,
     <1>ChangeState, <1>Delete,
     <1>Restart, <1>Stutter
  DEF Next, Call, Work

(* What the record says of itself, and the threads that write it back say  *)
(* of it, in every state of the specification.                             *)
THEOREM RecordIsWellFormed == Spec => []RecordInv
  <1>1. Init => RecordInv
    <2> SUFFICES ASSUME Init, NEW t \in Threads
                 PROVE  rec = NoRec /\ th[t].pc = "idle"
      BY DEF RecordInv, StageOK, AskingLabels, FailureOK, At, Init
    <2> QED BY DEF Init, Idle
  <1>2. TypeInv /\ OneWriter /\ DeleteInv /\ RecordInv /\ [Next]_vars => RecordInv'
    BY RecordInvStep
  <1> QED BY <1>1, <1>2, StrongTypes, OneWriterHolds, DeletesInOrder, PTL DEF Spec

-----------------------------------------------------------------------------
(* The refinement mapping.  As long as there is a record and no tombstone, *)
(* ServiceLife sees the record's View.                                     *)
View(r) ==
  [state |-> r.state, phase |-> Stage[r.phase], op |-> r.op,
   ver |-> r.ver, tver |-> r.tver]

LEMMA StageFacts ==
  /\ \A p \in {"provisioning", "starting", "stopping", "deleting"} : Stage[p] = "begun"
  /\ Stage["waiting_for_health"] = "waiting"
  /\ \A p \in {"routing", "draining"} : Stage[p] = "ending"
  /\ \A p \in {"running", "stopped", "failed"} : Stage[p] = p
  BY DEF Stage

LEMMA SeenIsView ==
  /\ tomb = "none" /\ rec # NoRec => Seen = View(rec)
  /\ tomb # "none" \/ rec = NoRec => Seen = Promise!Gone
  /\ tomb' = "none" /\ rec' # NoRec => Seen' = View(rec')
  /\ tomb' # "none" \/ rec' = NoRec => Seen' = Promise!Gone
  BY DEF Seen, View, Promise!Gone

LEMMA ViewFacts ==
  ASSUME NEW r \in RecType, WellFormed(r)
  PROVE  /\ r # NoRec /\ View(r) # Promise!Gone
         /\ r.phase \notin Busy <=> View(r).phase \in {"running", "stopped", "failed"}
         /\ View(r).phase = "waiting" <=> r.phase = "waiting_for_health"
         /\ View(r).phase = "stopped" <=> r.phase = "stopped"
         /\ View(r).phase = "failed" <=> r.phase = "failed"
         /\ View(r).state = r.state /\ View(r).op = r.op
         /\ View(r).ver = r.ver /\ View(r).tver = r.tver
  <1>1. r # NoRec /\ View(r) # Promise!Gone
    BY NoRecFacts DEF WellFormed, View, Promise!Gone, States
  <1>2. r.phase \in Phases
    BY DEF WellFormed
  <1> QED BY <1>1, <1>2, StageFacts DEF View, Phases, Busy

(* A step that ServiceLife allows, or does not see.                        *)
Promised == Seen' = Seen \/ Seen' \in Promise!Successors(Seen)

(* The changes ServiceRecord makes to such a record.                       *)
WithOperation(v, p, o, w) == [v EXCEPT !.phase = p, !.op = o, !.tver = w]
WithState(v, p, x) == [v EXCEPT !.phase = p, !.state = x]
WithVersion(v, x, w) == [v EXCEPT !.state = x, !.ver = w]

LEMMA ViewChanges ==
  ASSUME NEW r, NEW p, NEW o, NEW w
  PROVE  /\ WithOperation(View(r), p, o, w) =
              [state |-> r.state, phase |-> p, op |-> o, ver |-> r.ver, tver |-> w]
         /\ WithState(View(r), p, o) =
              [state |-> o, phase |-> p, op |-> r.op, ver |-> r.ver, tver |-> r.tver]
  <1> DEFINE v == [View(r) EXCEPT !.phase = p]
             u == [v EXCEPT !.op = o]
  <1>1. v = [state |-> r.state, phase |-> p, op |-> r.op, ver |-> r.ver, tver |-> r.tver]
    BY DEF View
  <1> HIDE DEF v
  <1>2. u = [state |-> r.state, phase |-> p, op |-> o, ver |-> r.ver, tver |-> r.tver]
    BY <1>1
  <1>3. [v EXCEPT !.state = o] =
          [state |-> o, phase |-> p, op |-> r.op, ver |-> r.ver, tver |-> r.tver]
    BY <1>1
  <1> HIDE DEF u
  <1>4. [u EXCEPT !.tver = w] =
          [state |-> r.state, phase |-> p, op |-> o, ver |-> r.ver, tver |-> w]
    BY <1>2
  <1> QED BY <1>3, <1>4 DEF WithOperation, WithState, u, v

LEMMA ViewWithOperation ==
  ASSUME NEW r, NEW s, NEW p, Stage[s.phase] = p, s.state = r.state, s.ver = r.ver
  PROVE  View(s) = WithOperation(View(r), p, s.op, s.tver)
  <1>1. View(s) = [state |-> r.state, phase |-> p, op |-> s.op,
                   ver |-> r.ver, tver |-> s.tver]
    BY DEF View
  <1> QED BY <1>1, ViewChanges

LEMMA Begins ==
  ASSUME NEW r \in RecType, WellFormed(r), NEW s \in RecType,
         s.phase \in {"provisioning", "starting", "stopping", "deleting"},
         s.state = r.state, s.ver = r.ver
  PROVE  View(s) = Promise!Begun(View(r), s.op, s.tver)
  <1>1. Stage[s.phase] = "begun"
    BY StageFacts
  <1>2. View(s) = WithOperation(View(r), "begun", s.op, s.tver)
    BY <1>1, ViewWithOperation
  <1> QED BY <1>2 DEF Promise!Begun, WithOperation

(* What becomes of an operation.                                           *)
LEMMA Continues ==
  ASSUME NEW r \in RecType, WellFormed(r), NEW s \in RecType,
         s.op = r.op, s.ver = r.ver, s.tver = r.tver,
         \/ /\ r.phase \in {"provisioning", "starting"} /\ s.phase = "waiting_for_health"
            /\ s.state = r.state
         \/ /\ r.phase = "waiting_for_health" /\ s.phase = "routing"
            /\ s.state = r.state
         \/ /\ r.phase = "stopping" /\ s.phase = "routing"
            /\ s.state = r.op
  PROVE  View(s) \in Promise!Successors(View(r))
  <1>1. CASE /\ r.phase \in {"provisioning", "starting"} /\ s.phase = "waiting_for_health"
             /\ s.state = r.state
    <2>1. r.op \in Deploys /\ View(r).phase = "begun" /\ View(r).op = r.op
      BY <1>1, StageFacts DEF WellFormed, View
    <2>2. View(s) = [View(r) EXCEPT !.phase = "waiting"]
      BY <1>1, StageFacts DEF View
    <2> QED BY <2>1, <2>2
            DEF Deploys, Promise!Deploys, Promise!Successors, Promise!Continues, Promise!Maybe
  <1>2. CASE /\ r.phase = "waiting_for_health" /\ s.phase = "routing"
             /\ s.state = r.state
    <2>1. View(r).phase = "waiting" /\ View(s) = [View(r) EXCEPT !.phase = "ending"]
      BY <1>2, StageFacts DEF View
    <2> QED BY <2>1 DEF Promise!Successors, Promise!Continues, Promise!Maybe
  <1>3. CASE /\ r.phase = "stopping" /\ s.phase = "routing"
             /\ s.state = r.op
    <2>1. r.op \in StateChanges /\ View(r).phase = "begun" /\ View(r).op = r.op
      BY <1>3, StageFacts DEF WellFormed, View
    <2>2. View(s) = [state |-> r.op, phase |-> "ending", op |-> r.op,
                     ver |-> r.ver, tver |-> r.tver]
      BY <1>3, StageFacts DEF View
    <2>3. View(s) = WithState(View(r), "ending", r.op)
      BY <2>2, ViewChanges
    <2> QED BY <2>1, <2>3 DEF WithState, StateChanges, Promise!StateChanges,
               Promise!Successors, Promise!Continues, Promise!Maybe
  <1> QED BY <1>1, <1>2, <1>3

LEMMA EndsRunning ==
  ASSUME NEW r \in RecType, WellFormed(r), NEW s \in RecType,
         r.phase \in {"routing", "draining"}, r.op \in Deploys,
         s.state = "active", s.phase = "running", s.op = "",
         s.ver = r.tver, s.tver = 0
  PROVE  View(s) \in Promise!Successors(View(r))
  <1>1. View(r).phase = "ending" /\ View(r).op = r.op /\ View(r).tver = r.tver
    BY StageFacts DEF View
  <1>2. View(s) = [state |-> "active", phase |-> "running", op |-> "",
                   ver |-> View(r).tver, tver |-> 0]
    BY <1>1, StageFacts DEF View
  <1> QED BY <1>1, <1>2
          DEF Deploys, Promise!Deploys, Promise!Successors, Promise!Succeeds, Promise!Maybe

LEMMA EndsStopped ==
  ASSUME NEW r \in RecType, WellFormed(r), NEW s \in RecType,
         r.phase = "routing", r.op \in StateChanges,
         s.state = r.state, s.phase = "stopped", s.op = "",
         s.ver = r.ver, s.tver = 0
  PROVE  View(s) \in Promise!Successors(View(r))
  <1>1. View(r).phase = "ending" /\ View(r).op = r.op
    BY StageFacts DEF View
  <1>2. View(s) = WithOperation(View(r), "stopped", s.op, s.tver)
    BY StageFacts, ViewWithOperation
  <1> QED BY <1>1, <1>2
          DEF WithOperation, StateChanges, Promise!StateChanges, Promise!Successors, Promise!Succeeds,
              Promise!Maybe

LEMMA EndsFailed ==
  ASSUME NEW r \in RecType, WellFormed(r), NEW s \in RecType,
         r.phase \in Busy, s.phase = "failed",
         s.state = r.state \/ (r.phase = "stopping" /\ s.state = r.op),
         s.op = r.op, s.ver = r.ver, s.tver = r.tver
  PROVE  View(s) \in Promise!Successors(View(r))
  <1>1. ~Promise!Free(View(r)) /\ View(r) # Promise!Gone
    BY ViewFacts DEF Promise!Free
  <1>2. View(s) = WithState(View(r), "failed", s.state)
    <2>1. View(s) = [state |-> s.state, phase |-> "failed", op |-> r.op,
                     ver |-> r.ver, tver |-> r.tver]
      BY StageFacts DEF View
    <2> QED BY <2>1, ViewChanges
  <1>3. \/ s.state = View(r).state
        \/ /\ View(r).phase = "begun" /\ View(r).op \in Promise!StateChanges
           /\ s.state = View(r).op
    BY StageFacts DEF View, WellFormed, StateChanges, Promise!StateChanges
  <1>4. View(s) \in Promise!FailsAs(View(r))
    BY <1>2, <1>3 DEF Promise!FailsAs, WithState
  <1> QED BY <1>1, <1>4 DEF Promise!Successors, Promise!Fails

(* Which calls take a service over.                                        *)
LEMMA BeginsProvision ==
  ASSUME NEW r \in RecType, WellFormed(r), NEW s \in RecType, NEW q, ProvisionRetries(r, q),
         s.phase = "provisioning", s.op = "provision", s.tver = q.ver,
         s.state = r.state, s.ver = r.ver
  PROVE  View(s) \in Promise!Successors(View(r))
  <1>1. View(s) = Promise!Begun(View(r), "provision", View(r).ver)
    BY Begins, ViewFacts DEF ProvisionRetries
  <1>2. Promise!MayProvision(View(r))
    BY ViewFacts DEF ProvisionRetries, Promise!MayProvision, WellFormed, Phases, Busy
  <1>3. View(r) # Promise!Gone
    BY ViewFacts
  <1> QED BY <1>1, <1>2, <1>3 DEF Promise!Successors, Promise!Claims, Promise!Maybe

LEMMA BeginsUpgrade ==
  ASSUME NEW r \in RecType, WellFormed(r), NEW q \in RequestType, q.ver \in Versions,
         UpgradeAllowed(r, q)
  PROVE  View(UpgradeRecord(r, q)) \in Promise!Successors(View(r))
  <1> DEFINE s == UpgradeRecord(r, q)
             op == IF ReplaceableActivation(r) THEN r.op ELSE "upgrade"
  <1>1. /\ s \in RecType /\ s.phase = "starting" /\ s.op = op /\ s.tver = q.ver
        /\ s.state = r.state /\ s.ver = r.ver
    <2>1. s \in RecType /\ s.phase = "starting"
      BY UpgradeRecordType
    <2>2. /\ s.op = op /\ s.tver = q.ver
          /\ s.state = r.state /\ s.ver = r.ver
      BY DEF UpgradeRecord, RecType
    <2> QED BY <2>1, <2>2
  <1> HIDE DEF s
  <1>2. ReplaceableActivation(r) <=> Promise!Pending(View(r))
    BY ViewFacts DEF ReplaceableActivation, Promise!Pending
  <1>3. View(s) = Promise!Upgraded(View(r), q.ver)
    BY <1>1, <1>2, Begins, ViewFacts DEF Promise!Upgraded
  <1>4. Promise!MayUpgrade(View(r))
    BY <1>2, ViewFacts DEF UpgradeAllowed, Replaceable, Promise!MayUpgrade, Promise!Free
  <1>5. View(r) # Promise!Gone
    BY ViewFacts
  <1> QED BY <1>3, <1>4, <1>5 DEF Promise!Successors, Promise!Claims, s

LEMMA BeginsResume ==
  ASSUME NEW r \in RecType, WellFormed(r), NEW s \in RecType, Resumable(r),
         s.phase = "starting", s.op = "resume", s.tver = r.ver,
         s.state = r.state, s.ver = r.ver
  PROVE  View(s) \in Promise!Successors(View(r))
  <1>1. View(s) = Promise!Begun(View(r), "resume", View(r).ver)
    BY Begins, ViewFacts
  <1>2. Promise!MayResume(View(r)) /\ View(r) # Promise!Gone
    BY ViewFacts DEF Resumable, Promise!MayResume, Promise!Free, Promise!StateChanges
  <1> QED BY <1>1, <1>2 DEF Promise!Successors, Promise!Claims, Promise!Maybe

LEMMA BeginsStateChange ==
  ASSUME NEW r \in RecType, WellFormed(r), NEW s \in RecType, NEW x \in StateChanges,
         StateChangeAllowed(r, x),
         s.phase = "stopping", s.op = x, s.tver = r.tver,
         s.state = r.state, s.ver = r.ver
  PROVE  View(s) \in Promise!Successors(View(r))
  <1>1. View(s) = Promise!Begun(View(r), x, View(r).tver)
    BY Begins, ViewFacts
  <1>2. Promise!MayChangeTo(View(r), x)
    BY ViewFacts DEF StateChangeAllowed, Replaceable, Promise!MayChangeTo, Promise!Free
  <1>3. View(r) # Promise!Gone /\ x \in Promise!StateChanges
    BY ViewFacts DEF StateChanges, Promise!StateChanges
  <1> QED BY <1>1, <1>2, <1>3 DEF Promise!Successors, Promise!Claims

LEMMA BeginsDelete ==
  ASSUME NEW r \in RecType, WellFormed(r), NEW s \in RecType, Deletable(r),
         s.phase = "deleting", s.op = "delete", s.tver = r.tver,
         s.state = r.state, s.ver = r.ver
  PROVE  View(s) \in Promise!Successors(View(r))
  <1>1. View(s) = Promise!Begun(View(r), "delete", View(r).tver)
    BY Begins, ViewFacts
  <1>2. Promise!MayDelete(View(r)) /\ View(r) # Promise!Gone
    BY ViewFacts DEF Deletable, Promise!MayDelete, Promise!Free
  <1> QED BY <1>1, <1>2 DEF Promise!Successors, Promise!Claims, Promise!Maybe

LEMMA Retargets ==
  ASSUME NEW r \in RecType, WellFormed(r), NEW s \in RecType, NEW v \in Versions,
         r.state = "terminated", r.phase = "stopped",
         s.phase = r.phase, s.op = r.op, s.tver = r.tver, s.state = r.state, s.ver = v
  PROVE  View(s) \in Promise!Successors(View(r))
  <1>1. View(s) = [View(r) EXCEPT !.ver = v]
    BY DEF View
  <1>2. View(r).state = "terminated" /\ View(r).phase = "stopped"
    BY ViewFacts
  <1> QED BY <1>1, <1>2 DEF Promise!Successors, Promise!Retargets

(* A call that finds no record makes the first one.                        *)
LEMMA FirstView ==
  ASSUME NEW g, NEW k1, NEW k2, NEW k3, NEW k4, NEW k5,
         g = [state |-> k1, phase |-> k2, op |-> k3, ver |-> k4, tver |-> k5],
         NEW x, NEW p, NEW o, NEW v
  PROVE  WithOperation(WithVersion(g, x, v), p, o, v)
           = [state |-> x, phase |-> p, op |-> o, ver |-> v, tver |-> v]
  <1> DEFINE a == [g EXCEPT !.state = x]
             u == [a EXCEPT !.ver = v]
             b == [u EXCEPT !.phase = p]
             c == [b EXCEPT !.op = o]
             d == [c EXCEPT !.tver = v]
  <1>1. a = [state |-> x, phase |-> k2, op |-> k3, ver |-> k4, tver |-> k5]
    OBVIOUS
  <1> HIDE DEF a
  <1>2. u = [state |-> x, phase |-> k2, op |-> k3, ver |-> v, tver |-> k5]
    BY <1>1
  <1> HIDE DEF u
  <1>3. b = [state |-> x, phase |-> p, op |-> k3, ver |-> v, tver |-> k5]
    BY <1>2
  <1> HIDE DEF b
  <1>4. c = [state |-> x, phase |-> p, op |-> o, ver |-> v, tver |-> k5]
    BY <1>3
  <1> HIDE DEF c
  <1>5. d = [state |-> x, phase |-> p, op |-> o, ver |-> v, tver |-> v]
    BY <1>4
  <1> QED BY <1>5 DEF WithOperation, WithVersion, a, u, b, c, d

LEMMA Creates ==
  ASSUME NEW r \in RequestType, r.ver \in Versions
  PROVE  View(FreshRecord(r)) \in Promise!Successors(Promise!Gone)
  <1> DEFINE v == r.ver
  <1>1. View(FreshRecord(r)) = [state |-> "active", phase |-> "begun", op |-> "provision",
                                ver |-> v, tver |-> v]
    BY StageFacts DEF View, FreshRecord
  <1>2. WithOperation(WithVersion(Promise!Gone, "active", v), "begun", "provision", v)
          = [state |-> "active", phase |-> "begun", op |-> "provision",
             ver |-> v, tver |-> v]
    <2> DEFINE g == Promise!Gone
    <2>1. PICK k1, k2, k3, k4, k5 :
            g = [state |-> k1, phase |-> k2, op |-> k3, ver |-> k4, tver |-> k5]
      BY DEF Promise!Gone
    <2> HIDE DEF g
    <2>2. WithOperation(WithVersion(g, "active", v), "begun", "provision", v)
            = [state |-> "active", phase |-> "begun", op |-> "provision",
               ver |-> v, tver |-> v]
      BY <2>1, FirstView
    <2> QED BY <2>2 DEF g
  <1>3. View(FreshRecord(r)) = Promise!Created(v)
    BY <1>1, <1>2 DEF Promise!Created, Promise!Begun, WithOperation, WithVersion
  <1> QED BY <1>3 DEF Promise!Successors, Promise!Claims

(* A step that leaves the record and the tombstone alone is not seen.      *)
LEMMA Unseen ==
  ASSUME UNCHANGED <<rec, tomb>>
  PROVE  Promised
  BY DEF Promised, Seen

(* A step from one record to another, when there is no tombstone.          *)
LEMMA SeenStep ==
  ASSUME tomb = "none", tomb' = "none", rec # NoRec, rec' # NoRec,
         View(rec') = View(rec) \/ View(rec') \in Promise!Successors(View(rec))
  PROVE  Promised
  BY SeenIsView DEF Promised

(* The service of a tombstone stays gone.                                  *)
LEMMA StaysGone ==
  ASSUME tomb # "none", tomb' # "none"
  PROVE  Promised
  BY SeenIsView DEF Promised

(* A thread that holds the record of a service without a tombstone writes  *)
(* its copy, changed, or leaves the record as it is.                       *)
LEMMA HolderSeen ==
  ASSUME TypeInv, TypeInv', OneWriter, RecordInv, NEW t \in Threads, Holding(t),
         th[t].pc # "failing", UNCHANGED tomb, rec' # NoRec,
         WellFormed(th[t].svc) /\ StageOK(th[t]) =>
           \/ View(rec') = View(th[t].svc)
           \/ View(rec') \in Promise!Successors(View(th[t].svc))
  PROVE  Promised
  <1>1. CASE tomb = "none"
    <2>1. Taken(rec) /\ th[t].svc = rec
      BY <1>1, HeldIsCurrent
    <2>2. WellFormed(rec) /\ StageOK(th[t]) /\ rec # NoRec
      BY <1>1, <2>1, HeldIsWellFormed, NoRecFacts
    <2> QED BY <1>1, <2>1, <2>2, SeenStep
  <1>2. CASE tomb # "none"
    BY <1>2, StaysGone
  <1> QED BY <1>1, <1>2

LEMMA ResumeSeen ==
  ASSUME TypeInv, TypeInv', RecordInv, NEW t \in Threads, NEW r, ResumeClaim(t, r),
         UNCHANGED tomb
  PROVE  Promised
  <1> DEFINE s == [rec EXCEPT !.phase = "starting", !.op = "resume",
                              !.tgt = Opposite(rec.live), !.tver = rec.ver,
                              !.tdom = NoDomain]
  <1>1. rec' = s /\ rec \in RecType /\ rec' \in RecType
    BY DEF ResumeClaim, Claims, TypeInv, TypeOK
  <1>2. /\ s.phase = "starting" /\ s.op = "resume" /\ s.tver = rec.ver
        /\ s.state = rec.state /\ s.ver = rec.ver
    BY <1>1 DEF RecType
  <1>3. Resumable(rec) /\ rec # NoRec /\ rec' # NoRec
    BY <1>1, <1>2, NoRecFacts DEF ResumeClaim, Resumable
  <1> HIDE DEF s
  <1>4. CASE tomb = "none"
    <2>1. WellFormed(rec)
      BY <1>3, <1>4 DEF RecordInv
    <2> QED BY <1>1, <1>2, <1>3, <1>4, <2>1, BeginsResume, SeenStep
  <1>5. CASE tomb # "none"
    BY <1>5, StaysGone
  <1> QED BY <1>4, <1>5

(* A delete that is about to bury the service writes the tombstone.        *)
LEMMA BurySeen ==
  ASSUME TypeInv, OneWriter, DeleteInv, RecordInv, NEW t \in Threads, At(t, "bury"),
         tomb' # "none"
  PROVE  Promised
  <1>1. th[t].pc = "bury" /\ Holding(t) /\ Deleting(t)
    BY DEF At, Holding, HoldingLabels, DeleteInv, WipeLabels
  <1>2. tomb = "none" /\ rec = th[t].svc /\ Taken(rec)
    BY <1>1, HeldIsCurrent DEF Deleting
  <1>3. WellFormed(rec) /\ rec # NoRec /\ rec.phase = "deleting" /\ rec.op = "delete"
    BY <1>1, <1>2, NoRecFacts DEF RecordInv, Deleting, WellFormed
  <1>4. Seen = View(rec) /\ View(rec).phase = "begun" /\ View(rec).op = "delete"
    BY <1>2, <1>3, SeenIsView, StageFacts DEF View
  <1>5. Promise!Gone \in Promise!Successors(Seen)
    BY <1>4 DEF Promise!Successors, Promise!Succeeds, Promise!Maybe
  <1> QED BY <1>5, SeenIsView DEF Promised

LEMMA PromisedStep ==
  ASSUME TypeInv, TypeInv', OneWriter, DeleteInv, RecordInv, [Next]_vars
  PROVE  Promised
<1>Quiet1. ASSUME NEW t \in Threads,
                 \/ ProvisionLookup(t)
                 \/ HasVersion(t)
                 \/ PrepareStorage(t)
                 \/ StartSlot(t)
                 \/ CheckHealth(t)
                 \/ RouteTarget(t)
                 \/ RemovePreviousSlot(t)
                 \/ DrainOldDeploy(t)
          PROVE  Promised
  BY <1>Quiet1, Unseen
  DEF ProvisionLookup, HasVersion, PrepareStorage, StartSlot, CheckHealth, RouteTarget, RemovePreviousSlot, DrainOldDeploy
<1>Quiet2. ASSUME NEW t \in Threads,
                 \/ UpgradeFromCall(t)
                 \/ EnsureIsolation(t)
                 \/ RestoreLiveRoute(t)
                 \/ RemoveTarget(t)
                 \/ Reconcile(t)
                 \/ DeployDomains(t)
                 \/ StopContainers(t)
                 \/ FinishRouting(t)
          PROVE  Promised
  BY <1>Quiet2, Unseen
  DEF UpgradeFromCall, EnsureIsolation, RestoreLiveRoute, RemoveTarget, Reconcile, DeployDomains, StopContainers, FinishRouting
<1>Quiet3. ASSUME NEW t \in Threads,
                 \/ Unroute(t)
                 \/ RemoveContainers(t)
                 \/ RemoveRoute(t)
                 \/ DestroyDataset(t)
                 \/ RemoveMountpoint(t)
                 \/ FinishDelete(t)
                 \/ Provision(t)
                 \/ Upgrade(t)
          PROVE  Promised
  BY <1>Quiet3, Unseen
  DEF Unroute, RemoveContainers, RemoveRoute, DestroyDataset, RemoveMountpoint, FinishDelete, Provision, Upgrade
<1>ProvisionClaim. ASSUME NEW t \in Threads, ProvisionClaim(t) PROVE Promised
  <2> DEFINE r == th[t].req
             again == [rec EXCEPT !.phase = "provisioning", !.op = "provision",
                                  !.tgt = "blue", !.tver = r.ver]
  <2>1. /\ rec \in RecType /\ rec' \in RecType /\ r \in RequestType
        /\ tomb' = tomb /\ (tomb = "none" => r.ver \in Versions)
    BY <1>ProvisionClaim, CopyType
    DEF ProvisionClaim, At, RecordInv, StageOK, AskingLabels, TypeInv, TypeOK
  <2>2. CASE tomb # "none"
    BY <2>1, <2>2, StaysGone
  <2>3. CASE tomb = "none" /\ rec = NoRec /\ rec' = FreshRecord(r)
    <3>1. FreshRecord(r).state = "active"
      BY DEF FreshRecord
    <3>2. rec' # NoRec
      BY <2>3, <3>1, NoRecFacts
    <3> QED BY <2>1, <2>3, <3>2, Creates, SeenIsView DEF Promised
  <2>4. CASE tomb = "none" /\ rec # NoRec /\ ProvisionRetries(rec, r) /\ rec' = again
    <3>1. WellFormed(rec)
      BY <2>4 DEF RecordInv
    <3>2. /\ again.phase = "provisioning" /\ again.op = "provision" /\ again.tver = r.ver
          /\ again.state = rec.state /\ again.ver = rec.ver
      BY <2>1 DEF RecType
    <3>3. rec' # NoRec
      BY <2>4, <3>2, NoRecFacts
    <3> HIDE DEF again
    <3> QED BY <2>1, <2>4, <3>1, <3>2, <3>3, BeginsProvision, SeenStep
  <2>5. CASE UNCHANGED rec
    BY <2>1, <2>5, Unseen
  <2> QED BY <1>ProvisionClaim, <2>2, <2>3, <2>4, <2>5
          DEF ProvisionClaim, Claims, PutFails
<1>PutWaiting. ASSUME NEW t \in Threads, PutWaiting(t) PROVE Promised
  <2> DEFINE c == th[t].svc
             s == [c EXCEPT !.phase = "waiting_for_health"]
  <2>1. /\ Holding(t) /\ th[t].pc = "putWaiting" /\ c \in RecType
        /\ c.op \in Deploys /\ rec' \in RecType /\ tomb' = tomb
    BY <1>PutWaiting, CopyType DEF PutWaiting, At, Holding, HoldingLabels, TypeInv, TypeOK,
       LocalOK, TargetLabels
  <2>2. CASE rec' = s
    <3>1. /\ s.phase = "waiting_for_health" /\ s.op = c.op /\ s.tver = c.tver
          /\ s.state = c.state /\ s.ver = c.ver
      BY <2>1 DEF RecType
    <3>2. rec' # NoRec
      BY <2>2, <3>1, NoRecFacts
    <3>3. StageOK(th[t]) => c.phase \in {"provisioning", "starting"}
      BY <2>1 DEF StageOK
    <3> HIDE DEF s
    <3> QED BY <2>1, <2>2, <3>1, <3>2, <3>3, Continues, HolderSeen
  <2>3. CASE rec' = rec
    BY <2>1, <2>3, Unseen
  <2> QED BY <1>PutWaiting, <2>2, <2>3 DEF PutWaiting, Puts, PutFails
<1>HealthVerdict. ASSUME NEW t \in Threads, HealthVerdict(t) PROVE Promised
  <2> DEFINE s(p) == [rec EXCEPT !.phase = p]
  <2>1. rec \in RecType /\ rec' \in RecType /\ tomb' = tomb
    BY <1>HealthVerdict DEF HealthVerdict, TypeInv, TypeOK
  <2>2. ASSUME NEW p \in {"failed", "routing"}, VerdictApplies(t), rec' = s(p)
        PROVE  Promised
    <3>1. rec.phase = "waiting_for_health" /\ rec # NoRec
      BY <2>2, NoRecFacts DEF VerdictApplies
    <3>2. /\ rec'.phase = p /\ rec'.op = rec.op /\ rec'.tver = rec.tver
          /\ rec'.state = rec.state /\ rec'.ver = rec.ver
      BY <2>1, <2>2 DEF RecType
    <3>3. rec' # NoRec
      BY <3>2, NoRecFacts
    <3>4. CASE tomb = "none"
      <4>1. WellFormed(rec)
        BY <3>1, <3>4 DEF RecordInv
      <4>2. View(rec') \in Promise!Successors(View(rec))
        BY <2>1, <3>1, <3>2, <4>1, Continues, EndsFailed DEF Busy
      <4> QED BY <2>1, <3>1, <3>3, <3>4, <4>2, SeenStep
    <3>5. CASE tomb # "none"
      BY <2>1, <3>5, StaysGone
    <3> QED BY <3>4, <3>5
  <2>3. CASE rec' = rec
    BY <2>1, <2>3, Unseen
  <2> QED BY <1>HealthVerdict, <2>2, <2>3 DEF HealthVerdict, Puts, PutFails
<1>PutDraining. ASSUME NEW t \in Threads, PutDraining(t) PROVE Promised
  <2> DEFINE c == th[t].svc
             s == [c EXCEPT !.phase = "draining", !.tdom = NoDomain,
                            !.dom = RoutingDomain(c)]
  <2>1. /\ Holding(t) /\ th[t].pc = "putDraining" /\ c \in RecType
        /\ rec' \in RecType /\ tomb' = tomb
    BY <1>PutDraining, CopyType
    DEF PutDraining, At, Holding, HoldingLabels, TypeInv, TypeOK
  <2>2. CASE rec' = s
    <3>1. /\ s.phase = "draining" /\ s.op = c.op /\ s.tver = c.tver
          /\ s.state = c.state /\ s.ver = c.ver
      BY <2>1 DEF RecType
    <3>2. rec' # NoRec
      BY <2>2, <3>1, NoRecFacts
    <3>3. StageOK(th[t]) => c.phase = "routing"
      BY <2>1 DEF StageOK
    <3> HIDE DEF s
    <3>4. StageOK(th[t]) => View(s) = View(c)
      BY <3>1, <3>3, StageFacts DEF View
    <3> QED BY <2>1, <2>2, <3>2, <3>4, HolderSeen
  <2>3. CASE rec' = rec
    BY <2>1, <2>3, Unseen
  <2> QED BY <1>PutDraining, <2>2, <2>3 DEF PutDraining, Puts, PutFails
<1>PutRunning. ASSUME NEW t \in Threads, PutRunning(t) PROVE Promised
  <2> DEFINE c == th[t].svc
             state == IF c.op = "upgrade" THEN c.state ELSE "active"
             ver == IF c.tver # 0 THEN c.tver ELSE c.ver
             s == [c EXCEPT !.state = state, !.phase = "running", !.op = "",
                            !.live = c.tgt, !.tgt = "", !.ver = ver, !.tver = 0,
                            !.dom = RoutingDomain(c), !.tdom = NoDomain]
  <2>1. /\ Holding(t) /\ th[t].pc = "putRunning" /\ c \in RecType
        /\ c.op \in Deploys /\ rec' \in RecType /\ tomb' = tomb
    BY <1>PutRunning, CopyType DEF PutRunning, At, Holding, HoldingLabels, TypeInv, TypeOK,
       LocalOK, TargetLabels
  <2>2. CASE rec' = s
    <3>1. s.state = state /\ s.phase = "running" /\ s.op = "" /\ s.ver = ver /\ s.tver = 0
      BY <2>1 DEF RecType
    <3>2. rec' # NoRec
      BY <2>2, <3>1, NoRecFacts
    <3>3. WellFormed(c) /\ StageOK(th[t]) =>
            /\ c.phase \in {"routing", "draining"} /\ c.tver \in Versions
            /\ state = "active"
      BY <2>1 DEF StageOK, WellFormed, Busy
    <3>4. \A v \in Versions : v # 0
      BY ConstantsAssumption
    <3>5. WellFormed(c) /\ StageOK(th[t]) => ver = c.tver
      BY <3>3, <3>4
    <3> HIDE DEF s, state, ver, c
    <3>6. WellFormed(c) /\ StageOK(th[t]) => View(s) \in Promise!Successors(View(c))
      BY <2>1, <2>2, <3>1, <3>3, <3>5, EndsRunning
    <3> QED BY <2>1, <2>2, <3>2, <3>6, HolderSeen DEF c
  <2>3. CASE rec' = rec
    BY <2>1, <2>3, Unseen
  <2> QED BY <1>PutRunning, <2>2, <2>3 DEF PutRunning, Puts, PutFails
<1>RecordFailure. ASSUME NEW t \in Threads, RecordFailure(t) PROVE Promised
  <2> DEFINE s == [th[t].svc EXCEPT !.phase = "failed"]
  <2>1. /\ Holding(t) /\ th[t].pc = "failing" /\ th[t].svc \in RecType
        /\ rec \in RecType /\ rec' \in RecType /\ tomb' = tomb
    BY <1>RecordFailure, CopyType
    DEF RecordFailure, At, Holding, HoldingLabels, TypeInv, TypeOK
  <2>2. CASE tomb = "none" /\ rec' = s
    <3>1. rec' = [rec EXCEPT !.state = th[t].svc.state, !.phase = "failed"]
      BY <2>1, <2>2 DEF OneWriter, CopyIsCurrent, At, RecType
    <3>2. /\ rec'.state = th[t].svc.state /\ rec'.phase = "failed"
          /\ rec'.op = rec.op /\ rec'.ver = rec.ver /\ rec'.tver = rec.tver
      BY <2>1, <3>1 DEF RecType
    <3>3. WellFormed(rec) /\ rec # NoRec /\ rec' # NoRec /\ rec.phase \in Busy
      BY <2>1, <2>2, <3>2, HeldIsCurrent, NoRecFacts DEF RecordInv, Taken
    <3>4. \/ th[t].svc.state = rec.state
          \/ rec.phase = "stopping" /\ th[t].svc.state = rec.op
      BY <2>1, <2>2 DEF RecordInv, FailureOK, At
    <3>5. View(rec') \in Promise!Successors(View(rec))
      BY <2>1, <3>2, <3>3, <3>4, EndsFailed
    <3> QED BY <2>1, <2>2, <3>3, <3>5, SeenStep
  <2>3. CASE tomb # "none"
    BY <2>1, <2>3, StaysGone
  <2>4. CASE rec' = rec
    BY <2>1, <2>4, Unseen
  <2> QED BY <1>RecordFailure, <2>2, <2>3, <2>4 DEF RecordFailure, Puts, PutFails
<1>UpgradeClaim. ASSUME NEW t \in Threads, UpgradeClaim(t) PROVE Promised
  <2> DEFINE r == th[t].req
  <2>1. /\ rec \in RecType /\ r \in RequestType
        /\ tomb' = tomb /\ (tomb = "none" => r.ver \in Versions)
    BY <1>UpgradeClaim, CopyType
    DEF UpgradeClaim, At, RecordInv, StageOK, AskingLabels, TypeInv, TypeOK
  <2>2. CASE tomb # "none"
    BY <2>1, <2>2, StaysGone
  <2>3. CASE tomb = "none" /\ UpgradeAllowed(rec, r) /\ rec' = UpgradeRecord(rec, r)
    <3>1. rec # NoRec
      BY <2>3, NoRecFacts DEF UpgradeAllowed, ReplaceableActivation
    <3>2. rec' # NoRec
      BY <2>1, <2>3, UpgradeRecordType, NoRecFacts
    <3>3. WellFormed(rec)
      BY <2>3, <3>1 DEF RecordInv
    <3> QED BY <2>1, <2>3, <3>1, <3>2, <3>3, BeginsUpgrade, SeenStep
  <2>4. CASE UNCHANGED rec
    BY <2>1, <2>4, Unseen
  <2> QED BY <1>UpgradeClaim, <2>2, <2>3, <2>4 DEF UpgradeClaim, Claims, PutFails
<1>RedeployTerminated. ASSUME NEW t \in Threads, RedeployTerminated(t) PROVE Promised
  <2> DEFINE r == th[t].req
             s == [rec EXCEPT !.dom = r.dom, !.ver = r.ver]
  <2>1. /\ rec \in RecType /\ rec' \in RecType
        /\ tomb' = tomb /\ (tomb = "none" => r.ver \in Versions)
    BY <1>RedeployTerminated
    DEF RedeployTerminated, At, RecordInv, StageOK, AskingLabels, TypeInv, TypeOK
  <2>2. CASE tomb # "none"
    BY <2>1, <2>2, StaysGone
  <2>3. CASE /\ tomb = "none" /\ rec.state = "terminated" /\ rec.phase = "stopped"
             /\ rec' = s
    <3>1. /\ s.phase = rec.phase /\ s.op = rec.op /\ s.tver = rec.tver
          /\ s.state = rec.state /\ s.ver = r.ver
      BY <2>1 DEF RecType
    <3>2. rec # NoRec /\ rec' # NoRec
      BY <2>3, <3>1, NoRecFacts
    <3>3. WellFormed(rec)
      BY <2>3, <3>2 DEF RecordInv
    <3> HIDE DEF s
    <3> QED BY <2>1, <2>3, <3>1, <3>2, <3>3, Retargets, SeenStep
  <2>4. CASE UNCHANGED rec
    BY <2>1, <2>4, Unseen
  <2> QED BY <1>RedeployTerminated, <2>2, <2>3, <2>4 DEF RedeployTerminated, Puts, PutFails
<1>ApplyDomains. ASSUME NEW t \in Threads, ApplyDomains(t) PROVE Promised
  <2> DEFINE s == [rec EXCEPT !.dom = th[t].req.dom]
  <2>1. /\ rec \in RecType /\ tomb' = tomb /\ th[t].svc.phase \in {"running", "stopped"}
    BY <1>ApplyDomains DEF ApplyDomains, At, TypeInv, TypeOK, LocalOK
  <2>2. CASE UnchangedSince(th[t].svc) /\ rec' = s
    <3>1. /\ s.state = rec.state /\ s.phase = rec.phase /\ s.op = rec.op
          /\ s.ver = rec.ver /\ s.tver = rec.tver
      BY <2>1 DEF RecType
    <3>2. View(rec') = View(rec)
      BY <2>2, <3>1 DEF View
    <3>3. rec # NoRec /\ rec' # NoRec
      BY <2>1, <2>2, <3>1, NoRecFacts DEF UnchangedSince
    <3>4. CASE tomb = "none"
      BY <2>1, <3>2, <3>3, <3>4, SeenStep
    <3>5. CASE tomb # "none"
      BY <2>1, <3>5, StaysGone
    <3> QED BY <3>4, <3>5
  <2>3. CASE rec' = rec
    BY <2>1, <2>3, Unseen
  <2> QED BY <1>ApplyDomains, <2>2, <2>3 DEF ApplyDomains, Puts, PutFails
<1>ResumeFromCall. ASSUME NEW t \in Threads, ResumeFromCall(t) PROVE Promised
  BY <1>ResumeFromCall, ResumeSeen, Unseen DEF ResumeFromCall, PutFails
<1>PutTargetState. ASSUME NEW t \in Threads, PutTargetState(t) PROVE Promised
  <2> DEFINE c == th[t].svc
             s == [c EXCEPT !.state = c.op, !.phase = "routing"]
  <2>1. /\ Holding(t) /\ th[t].pc = "putTarget" /\ c \in RecType
        /\ rec' \in RecType /\ tomb' = tomb
    BY <1>PutTargetState, CopyType
    DEF PutTargetState, At, Holding, HoldingLabels, TypeInv, TypeOK
  <2>2. CASE rec' = s
    <3>1. /\ s.phase = "routing" /\ s.op = c.op /\ s.tver = c.tver
          /\ s.state = c.op /\ s.ver = c.ver
      BY <2>1 DEF RecType
    <3>2. rec' # NoRec
      BY <2>2, <3>1, NoRecFacts
    <3>3. StageOK(th[t]) => c.phase = "stopping"
      BY <2>1 DEF StageOK
    <3> HIDE DEF s
    <3> QED BY <2>1, <2>2, <3>1, <3>2, <3>3, Continues, HolderSeen
  <2>3. CASE rec' = rec
    BY <2>1, <2>3, Unseen
  <2> QED BY <1>PutTargetState, <2>2, <2>3 DEF PutTargetState, Puts, PutFails
<1>PutStopped. ASSUME NEW t \in Threads, PutStopped(t) PROVE Promised
  <2> DEFINE c == th[t].svc
             s == [c EXCEPT !.phase = "stopped", !.op = "", !.tgt = "",
                            !.tver = 0, !.tdom = NoDomain]
  <2>1. /\ Holding(t) /\ th[t].pc = "putStopped" /\ c \in RecType
        /\ c.op \in StateChanges /\ rec' \in RecType /\ tomb' = tomb
    BY <1>PutStopped, CopyType DEF PutStopped, At, Holding, HoldingLabels, TypeInv, TypeOK,
       LocalOK, StateLabels, StateChanges
  <2>2. CASE rec' = s
    <3>1. /\ s.phase = "stopped" /\ s.op = "" /\ s.tver = 0
          /\ s.state = c.state /\ s.ver = c.ver
      BY <2>1 DEF RecType
    <3>2. rec' # NoRec
      BY <2>2, <3>1, NoRecFacts
    <3>3. StageOK(th[t]) => c.phase = "routing"
      BY <2>1 DEF StageOK
    <3> HIDE DEF s
    <3>4. WellFormed(c) /\ StageOK(th[t]) => View(s) \in Promise!Successors(View(c))
      BY <2>1, <2>2, <3>1, <3>3, EndsStopped
    <3> QED BY <2>1, <2>2, <3>2, <3>4, HolderSeen
  <2>3. CASE rec' = rec
    BY <2>1, <2>3, Unseen
  <2> QED BY <1>PutStopped, <2>2, <2>3 DEF PutStopped, Puts, PutFails
<1>Bury. ASSUME NEW t \in Threads, Bury(t) PROVE Promised
  <2>1. At(t, "bury") /\ (tomb' = "deleting" \/ UNCHANGED <<rec, tomb>>)
    BY <1>Bury DEF Bury, PutFails
  <2> QED BY <2>1, BurySeen, Unseen
<1>PutTombstone. ASSUME NEW t \in Threads, PutTombstone(t) PROVE Promised
  <2>1. tomb # "none" /\ tomb' # "none"
    BY <1>PutTombstone DEF PutTombstone, At, DeleteInv, BuriedLabels
  <2> QED BY <2>1, StaysGone
<1>Resume. ASSUME NEW t \in Threads, Resume(t) PROVE Promised
  BY <1>Resume, ResumeSeen, Unseen DEF Resume, ResumeRedeploys
<1>ChangeState. ASSUME NEW t \in Threads, ChangeState(t) PROVE Promised
  <2>1. PICK r \in Requests :
          /\ r.kind \in {"suspend", "terminate"}
          /\ StateChangeAllowed(rec, TargetState[r.kind])
          /\ Claims(t, "stop", r, [rec EXCEPT !.phase = "stopping", !.tdom = NoDomain,
                                              !.op = TargetState[r.kind]], 0)
    BY <1>ChangeState DEF ChangeState
  <2> DEFINE x == TargetState[r.kind]
             s == [rec EXCEPT !.phase = "stopping", !.tdom = NoDomain, !.op = x]
  <2>2. /\ rec \in RecType /\ rec' \in RecType /\ rec' = s /\ tomb' = tomb
        /\ rec # NoRec /\ x \in StateChanges
    BY <1>ChangeState, <2>1 DEF ChangeState, Claims, StateChangeAllowed, TypeInv, TypeOK,
       TargetState, StateChanges
  <2> HIDE DEF x
  <2>3. /\ s.phase = "stopping" /\ s.op = x /\ s.tver = rec.tver
        /\ s.state = rec.state /\ s.ver = rec.ver
    BY <2>2 DEF RecType
  <2>4. rec' # NoRec
    BY <2>2, <2>3, NoRecFacts
  <2> HIDE DEF s
  <2>5. CASE tomb = "none"
    <3>1. WellFormed(rec)
      BY <2>2, <2>5 DEF RecordInv
    <3>2. View(rec') \in Promise!Successors(View(rec))
      BY <2>1, <2>2, <2>3, <3>1, BeginsStateChange DEF x
    <3> QED BY <2>2, <2>4, <2>5, <3>2, SeenStep
  <2>6. CASE tomb # "none"
    BY <2>2, <2>6, StaysGone
  <2> QED BY <2>5, <2>6
<1>Delete. ASSUME NEW t \in Threads, Delete(t) PROVE Promised
  <2> DEFINE s == [rec EXCEPT !.phase = "deleting", !.op = "delete"]
  <2>1. CASE tomb = "none"
    <3>1. PICK r \in Requests : Deletable(rec) /\ Claims(t, "wipe", r, s, 0)
      BY <1>Delete, <2>1 DEF Delete
    <3>2. rec' = s /\ tomb' = tomb /\ rec \in RecType /\ rec' \in RecType /\ rec # NoRec
      BY <1>Delete, <2>1, <3>1, NoRecFacts
      DEF Delete, Claims, Deletable, TypeInv, TypeOK
    <3>3. /\ s.phase = "deleting" /\ s.op = "delete" /\ s.tver = rec.tver
          /\ s.state = rec.state /\ s.ver = rec.ver
      BY <3>2 DEF RecType
    <3>4. rec' # NoRec /\ WellFormed(rec)
      BY <2>1, <3>2, <3>3, NoRecFacts DEF RecordInv
    <3> HIDE DEF s
    <3>5. View(rec') \in Promise!Successors(View(rec))
      BY <3>1, <3>2, <3>3, <3>4, BeginsDelete
    <3> QED BY <2>1, <3>2, <3>4, <3>5, SeenStep
  <2>2. CASE tomb # "none"
    <3>1. tomb' # "none"
      BY <1>Delete, <2>2 DEF Delete
    <3> QED BY <2>2, <3>1, StaysGone
  <2> QED BY <2>1, <2>2
<1>Restart. ASSUME Restart PROVE Promised
  <2>1. rec \in RecType /\ rec' \in RecType /\ rec' = Interrupted(rec)
    BY <1>Restart DEF Restart, TypeInv, TypeOK
  <2>2. CASE tomb # "none"
    <3>1. tomb' # "none"
      BY <1>Restart, <2>2 DEF Restart
    <3> QED BY <2>2, <3>1, StaysGone
  <2>3. CASE tomb = "none" /\ tomb' = "none" /\ rec.phase \notin Busy
    BY <2>1, <2>3, Unseen DEF Interrupted
  <2>4. CASE tomb = "none" /\ tomb' = "none" /\ rec.phase \in Busy
    <3>1. rec' = [rec EXCEPT !.phase = "failed"] /\ tomb' = "none"
      BY <2>1, <2>4 DEF Interrupted
    <3>2. /\ rec'.phase = "failed" /\ rec'.op = rec.op /\ rec'.tver = rec.tver
          /\ rec'.state = rec.state /\ rec'.ver = rec.ver
      BY <2>1, <3>1 DEF RecType
    <3>3. rec # NoRec /\ rec' # NoRec /\ WellFormed(rec)
      BY <2>4, <3>2, NoRecFacts DEF RecordInv, Busy
    <3>4. View(rec') \in Promise!Successors(View(rec))
      BY <2>1, <2>4, <3>2, <3>3, EndsFailed
    <3> QED BY <2>4, <3>1, <3>3, <3>4, SeenStep
  <2>5. CASE tomb = "none" /\ tomb' # "none"
    <3>1. PICK t \in Threads : At(t, "bury")
      BY <1>Restart, <2>5 DEF Restart
    <3> QED BY <2>5, <3>1, BurySeen
  <2> QED BY <2>2, <2>3, <2>4, <2>5
<1>Stutter. ASSUME UNCHANGED vars PROVE Promised
  BY <1>Stutter, Unseen DEF vars
<1> QED
  BY <1>Quiet1, <1>Quiet2, <1>Quiet3, <1>ProvisionClaim, <1>PutWaiting, <1>HealthVerdict,
     <1>PutDraining, <1>PutRunning, <1>RecordFailure, <1>UpgradeClaim,
     <1>RedeployTerminated, <1>ApplyDomains, <1>ResumeFromCall, <1>PutTargetState,
     <1>PutStopped, <1>Bury, <1>PutTombstone, <1>Resume, <1>ChangeState, <1>Delete,
     <1>Restart, <1>Stutter
  DEF Next, Call, Work

(* Whatever overlaps, fails or restarts: seen from outside, the record of  *)
(* a service goes only where ServiceRecord lets it (manager.go, as         *)
(* container-runtime.md:43-50 describes it).  Lifecycle implements         *)
(* ServiceLife for every number of threads, versions, calls and failures.  *)
THEOREM LifecycleKeepsPromise == Spec => KeepsPromise
  <1>1. Init => Promise!Init
    BY SeenIsView DEF Init, Promise!Init
  <1>2. TypeInv /\ TypeInv' /\ OneWriter /\ DeleteInv /\ RecordInv /\ [Next]_vars
          => [Promise!Next]_Seen
    BY PromisedStep DEF Promised, Promise!Next
  <1> QED BY <1>1, <1>2, StrongTypes, OneWriterHolds, DeletesInOrder, RecordIsWellFormed,
             PTL DEF Spec, KeepsPromise, Promise!Spec

=============================================================================
