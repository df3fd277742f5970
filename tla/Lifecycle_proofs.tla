-------------------------- MODULE Lifecycle_proofs --------------------------
(* Proofs about Lifecycle for any number of threads, versions, hostnames,  *)
(* calls and failures.                                                     *)
EXTENDS Lifecycle, TLAPS

-----------------------------------------------------------------------------
(* The strengthened type invariant: what a thread's label says of its copy.*)

Deploys == {"provision", "upgrade", "resume"}

TargetLabels ==
  {"storage", "isolate", "restore", "removeTarget", "start", "putWaiting",
   "health", "verdict", "route", "removeOld", "putDraining", "drain", "putRunning"}

StateLabels == {"stop", "putTarget", "settle", "unroute", "putStopped"}

LocalOK(x) ==
  /\ x.pc \in TargetLabels => x.svc.op \in Deploys /\ x.svc.tgt \in Slots
  /\ x.pc \in StateLabels => x.svc.op \in {"suspended", "terminated"}
  /\ x.pc = "applyDomains" => x.svc.phase \in {"running", "stopped"}

WaitingOK ==
  rec.phase = "waiting_for_health" => rec.op \in Deploys /\ rec.tgt \in Slots

ThreadsOK ==
  /\ th \in [Threads -> ThreadType]
  /\ \A u \in Threads : LocalOK(th[u])

TypeInv == TypeOK /\ WaitingOK /\ \A u \in Threads : LocalOK(th[u])

(* A step replaces what one thread is.                                     *)
LEMMA ThreadStep ==
  ASSUME TypeInv, NEW t \in Threads, NEW x \in ThreadType, LocalOK(x),
         th' = [th EXCEPT ![t] = x]
  PROVE  ThreadsOK'
  BY DEF TypeInv, TypeOK, ThreadsOK

(* A thread goes on to another label with the copy it has: among the labels*)
(* of a deployment, among those of a state change, or to one that says     *)
(* nothing of the copy.                                                    *)
LEMMA GoStep ==
  ASSUME TypeInv, NEW t \in Threads, NEW l \in Labels, Go(t, l),
         l \in TargetLabels => th[t].pc \in TargetLabels,
         l \in StateLabels => th[t].pc \in StateLabels,
         l # "applyDomains"
  PROVE  ThreadsOK'
  <1> DEFINE x == [th[t] EXCEPT !.pc = l]
  <1>1. x \in ThreadType
    BY DEF TypeInv, TypeOK, ThreadType
  <1>2. x.pc = l /\ x.svc = th[t].svc
    BY DEF TypeInv, TypeOK, ThreadType
  <1>3. LocalOK(x)
    BY <1>2 DEF LocalOK, TypeInv
  <1>4. th' = [th EXCEPT ![t] = x]
    BY DEF Go
  <1> QED BY <1>1, <1>3, <1>4, ThreadStep

(* A thread goes on to another label with a new copy.                      *)
LEMMA GoWithStep ==
  ASSUME TypeInv, NEW t \in Threads, NEW l \in Labels, NEW s \in RecType,
         GoWith(t, l, s),
         l \in TargetLabels => s.op \in Deploys /\ s.tgt \in Slots,
         l \in StateLabels => s.op \in {"suspended", "terminated"},
         l = "applyDomains" => s.phase \in {"running", "stopped"}
  PROVE  ThreadsOK'
  <1> DEFINE x == [th[t] EXCEPT !.pc = l, !.svc = s]
  <1>1. x \in ThreadType
    BY DEF TypeInv, TypeOK, ThreadType
  <1>2. x.pc = l /\ x.svc = s
    BY DEF TypeInv, TypeOK, ThreadType
  <1>3. LocalOK(x)
    BY <1>2 DEF LocalOK
  <1>4. th' = [th EXCEPT ![t] = x]
    BY DEF GoWith
  <1> QED BY <1>1, <1>3, <1>4, ThreadStep

(* The call, or its goroutine, returns.                                    *)
LEMMA DoneStep ==
  ASSUME TypeInv, NEW t \in Threads, Done(t)
  PROVE  ThreadsOK'
  <1>1. Idle \in ThreadType /\ LocalOK(Idle)
    BY DEF Idle, ThreadType, Labels, NoReq, RequestType, RequestKinds, NoRec, RecType,
           States, Phases, Operations, Slots, LocalOK, TargetLabels, StateLabels
  <1> QED BY <1>1, ThreadStep DEF Done

(* A call claims the record.                                               *)
LEMMA ClaimStep ==
  ASSUME TypeInv, NEW t \in Threads, NEW l \in Labels, NEW r \in RequestType,
         NEW s \in RecType, NEW a \in Nat, Claims(t, l, r, s, a),
         l \in TargetLabels => s.op \in Deploys /\ s.tgt \in Slots,
         l \in StateLabels => s.op \in {"suspended", "terminated"},
         l # "applyDomains"
  PROVE  ThreadsOK' /\ rec' = s
  <1> DEFINE x == [pc |-> l, req |-> r, svc |-> s, att |-> a, passed |-> FALSE]
  <1>1. x \in ThreadType /\ LocalOK(x)
    BY DEF ThreadType, LocalOK
  <1>2. th' = [th EXCEPT ![t] = x] /\ rec' = s
    BY DEF Claims
  <1> QED BY <1>1, <1>2, ThreadStep

(* An external call succeeds, or uses up a failure.                        *)
LEMMA FaultsLeft ==
  ASSUME TypeInv, NEW kind, NoFault \/ Fault(kind)
  PROVE  faults' \in Nat
  BY DEF TypeInv, TypeOK, NoFault, Fault

(* A record with another phase is a record.                                *)
LEMMA PhaseType ==
  ASSUME NEW s \in RecType, NEW p \in Phases
  PROVE  /\ [s EXCEPT !.phase = p] \in RecType
         /\ [s EXCEPT !.phase = p].phase = p
         /\ [s EXCEPT !.phase = p].op = s.op
         /\ [s EXCEPT !.phase = p].tgt = s.tgt
  BY DEF RecType

(* The values the actions give the resources have the resources' types.    *)
LEMMA ValueTypes ==
  /\ NoRec \in RecType /\ NoReq \in RequestType
  /\ NoCtr \in CtrType /\ NoRoute \in RouteType
  /\ \A s \in Slots, d \in Domains \union {NoDomain} : Proxy(s, d) \in RouteType
  /\ \A d \in Domains \union {NoDomain} : Page(d) \in RouteType
  <1>1. NoRec \in RecType
    BY DEF NoRec, RecType, States, Phases, Operations, Slots
  <1>2. NoReq \in RequestType
    BY DEF NoReq, RequestType, RequestKinds
  <1>3. NoCtr \in CtrType
    BY DEF NoCtr, CtrType
  <1>4. NoRoute \in RouteType
    BY DEF NoRoute, RouteType
  <1>5. \A s \in Slots, d \in Domains \union {NoDomain} : Proxy(s, d) \in RouteType
    BY DEF Proxy, RouteType
  <1>6. \A d \in Domains \union {NoDomain} : Page(d) \in RouteType
    BY DEF Page, RouteType
  <1> QED BY <1>1, <1>2, <1>3, <1>4, <1>5, <1>6

LEMMA DiskValues ==
  \A a, b \in BOOLEAN : [dataset |-> a, dir |-> b] \in DiskType
  BY DEF DiskType

(* A stopped container is a container.                                     *)
LEMMA StopType ==
  ASSUME NEW slots, NEW op, ctr \in [Slots -> CtrType], StopSlots(slots, op)
  PROVE  ctr' \in [Slots -> CtrType]
  <1>1. ASSUME NEW s \in Slots PROVE Stopped(ctr[s], op) \in CtrType
    BY ValueTypes DEF Stopped, Killed, CtrType
  <1> QED BY <1>1 DEF StopSlots

LEMMA HalfType ==
  ASSUME NEW slots, ctr \in [Slots -> CtrType], HalfRemove(slots)
  PROVE  ctr' \in [Slots -> CtrType]
  <1>1. ASSUME NEW s \in Slots PROVE Killed(ctr[s]) \in CtrType
    BY DEF Killed, CtrType
  <1>2. PICK dead, gone :
          ctr' = [s \in Slots |-> IF s \in gone THEN NoCtr
                                  ELSE IF s \in dead THEN Killed(ctr[s]) ELSE ctr[s]]
    BY DEF HalfRemove
  <1> QED BY <1>1, <1>2, ValueTypes

(* A thread's copy is a record.                                            *)
LEMMA CopyType ==
  ASSUME TypeInv, NEW t \in Threads
  PROVE  /\ th[t].svc \in RecType /\ th[t].req \in RequestType
         /\ th[t].svc.live \in Slots
         /\ th[t].svc.ver \in Versions \union {0} /\ th[t].svc.tver \in Versions \union {0}
         /\ th[t].svc.dom \in Domains \union {NoDomain}
         /\ th[t].svc.tdom \in Domains \union {NoDomain}
         /\ RoutingDomain(th[t].svc) \in Domains \union {NoDomain}
  <1>1. th[t].svc \in RecType /\ th[t].req \in RequestType
    BY DEF TypeInv, TypeOK, ThreadType
  <1> QED BY <1>1 DEF RecType, RoutingDomain

LEMMA RenamedType ==
  ASSUME TypeInv, NEW t \in Threads
  PROVE  RenamedRoute(t) \in RouteType
  <1>1. route \in RouteType /\ rec.live \in Slots
    BY DEF TypeInv, TypeOK, RecType
  <1>2. th[t].req.dom \in Domains \union {NoDomain}
    BY CopyType DEF RequestType
  <1> QED BY <1>1, <1>2, ValueTypes DEF RenamedRoute

(* An upgrade, and a resume, claim the record for a deployment.            *)
LEMMA UpgradeRecordType ==
  ASSUME NEW s \in RecType, NEW r \in RequestType
  PROVE  /\ UpgradeRecord(s, r) \in RecType
         /\ UpgradeRecord(s, r).phase = "starting"
         /\ UpgradeRecord(s, r).op \in Deploys
         /\ UpgradeRecord(s, r).tgt \in Slots
  <1> DEFINE op == IF ReplaceableActivation(s) THEN s.op ELSE "upgrade"
             tgt == IF op = "provision" THEN s.live ELSE Opposite(s.live)
             kept == IF ReplaceableActivation(s) \/ s.phase = "waiting_for_health"
                       THEN s.tdom ELSE NoDomain
             dom == IF r.dom # NoDomain THEN r.dom ELSE kept
             u == [s EXCEPT !.phase = "starting", !.op = op, !.tgt = tgt,
                            !.tver = r.ver, !.tdom = dom]
  <1>1. UpgradeRecord(s, r) = u
    BY DEF UpgradeRecord
  <1>2. op \in Deploys
    BY DEF ReplaceableActivation, Deploys
  <1>3. tgt \in Slots
    BY DEF Opposite, RecType, Slots
  <1>4. dom \in Domains \union {NoDomain} /\ r.ver \in Versions \union {0}
    BY DEF RecType, RequestType
  <1> HIDE DEF op, tgt, dom
  <1>5. op \in Operations /\ "starting" \in Phases
    BY <1>2 DEF Deploys, Operations, Phases
  <1>6. u \in RecType /\ u.phase = "starting" /\ u.op = op /\ u.tgt = tgt
    BY <1>3, <1>4, <1>5 DEF RecType
  <1> QED BY <1>1, <1>2, <1>3, <1>6

LEMMA ResumeClaimType ==
  ASSUME TypeInv, NEW t \in Threads, NEW r \in RequestType, ResumeClaim(t, r)
  PROVE  ThreadsOK' /\ rec' \in RecType /\ WaitingOK' /\ health' \in [seq : Nat, cur : Nat]
  <1> DEFINE s == [rec EXCEPT !.phase = "starting", !.op = "resume",
                              !.tgt = Opposite(rec.live), !.tver = rec.ver,
                              !.tdom = NoDomain]
  <1>1. rec \in RecType /\ health \in [seq : Nat, cur : Nat]
    BY DEF TypeInv, TypeOK
  <1>2. Opposite(rec.live) \in Slots
    BY <1>1 DEF Opposite, Slots, RecType
  <1>3. /\ s \in RecType /\ s.phase = "starting"
        /\ s.op \in Deploys /\ s.tgt \in Slots
    BY <1>1, <1>2 DEF RecType, Phases, Operations, Deploys
  <1>4. health.seq + 1 \in Nat /\ health' \in [seq : Nat, cur : Nat]
    BY <1>1 DEF ResumeClaim, NextHealthAttempt
  <1>5. ThreadsOK' /\ rec' = s
    BY <1>3, <1>4, ClaimStep DEF ResumeClaim, Labels, HoldingLabels, StateLabels
  <1> QED BY <1>3, <1>4, <1>5 DEF WaitingOK

(* What remains to be shown of a step once its thread is known to be right.*)
LEMMA TypeInvFrom ==
  ASSUME ThreadsOK', rec' \in RecType, WaitingOK',
         tomb' \in {"none", "deleting", "failed", "deleted"},
         health' \in [seq : Nat, cur : Nat],
         ctr' \in [Slots -> CtrType], route' \in RouteType,
         disk' \in DiskType,
         requests' \in Nat, faults' \in Nat
  PROVE  TypeInv'
  BY DEF TypeInv, TypeOK, ThreadsOK

-----------------------------------------------------------------------------
(* Every step keeps the strengthened type invariant.                       *)
LEMMA TypeInvStep ==
  ASSUME TypeInv, [Next]_vars
  PROVE  TypeInv'
<1>ProvisionLookup. ASSUME NEW t \in Threads, ProvisionLookup(t) PROVE TypeInv'
  <2>1. ThreadsOK'
    BY <1>ProvisionLookup, GoStep
    DEF ProvisionLookup, At, Labels, HoldingLabels, TargetLabels, StateLabels
  <2>2. faults' \in Nat
    BY <1>ProvisionLookup, FaultsLeft DEF ProvisionLookup, NoFault
  <2> QED BY <1>ProvisionLookup, <2>1, <2>2, TypeInvFrom
          DEF ProvisionLookup, TypeInv, TypeOK, WaitingOK, host
<1>HasVersion. ASSUME NEW t \in Threads, HasVersion(t) PROVE TypeInv'
  <2>1. ThreadsOK'
    BY <1>HasVersion, GoStep, DoneStep
    DEF HasVersion, ClaimLabel, At, Labels, HoldingLabels, TargetLabels, StateLabels
  <2>2. faults' \in Nat
    BY <1>HasVersion, FaultsLeft DEF HasVersion, ClaimLabel, NoFault
  <2> QED BY <1>HasVersion, <2>1, <2>2, TypeInvFrom
          DEF HasVersion, TypeInv, TypeOK, WaitingOK, host
<1>ProvisionClaim. ASSUME NEW t \in Threads, ProvisionClaim(t) PROVE TypeInv'
  <2> DEFINE r == th[t].req
             again == [rec EXCEPT !.phase = "provisioning", !.op = "provision",
                                  !.tgt = "blue", !.tver = r.ver]
  <2>1. /\ r \in RequestType /\ rec \in RecType
        /\ r.ver \in Versions \union {0} /\ r.dom \in Domains \union {NoDomain}
    BY CopyType DEF TypeInv, TypeOK, RequestType
  <2>2. /\ "active" \in States /\ "provisioning" \in Phases /\ "provision" \in Operations
        /\ "blue" \in Slots /\ "provision" \in Deploys
    BY DEF States, Phases, Operations, Slots, Deploys
  <2>3. /\ FreshRecord(r) \in RecType /\ FreshRecord(r).phase = "provisioning"
        /\ FreshRecord(r).op \in Deploys /\ FreshRecord(r).tgt \in Slots
    BY <2>1, <2>2 DEF FreshRecord, RecType
  <2>4. /\ again \in RecType /\ again.phase = "provisioning"
        /\ again.op \in Deploys /\ again.tgt \in Slots
    BY <2>1, <2>2 DEF RecType
  <2>0. faults' \in Nat
    BY <1>ProvisionClaim, FaultsLeft DEF ProvisionClaim, PutFails
  <2>5. CASE Claims(t, "storage", r, FreshRecord(r), 0)
    <3>1. ThreadsOK' /\ rec' = FreshRecord(r)
      BY <2>1, <2>3, <2>5, ClaimStep DEF Labels, HoldingLabels, StateLabels
    <3>2. rec' \in RecType /\ WaitingOK'
      BY <3>1, <2>3 DEF WaitingOK
    <3> QED BY <1>ProvisionClaim, <2>0, <3>1, <3>2, TypeInvFrom
            DEF ProvisionClaim, TypeInv, TypeOK, host
  <2>6. CASE Claims(t, "storage", r, again, 0)
    <3>1. ThreadsOK' /\ rec' = again
      BY <2>1, <2>4, <2>6, ClaimStep DEF Labels, HoldingLabels, StateLabels
    <3>2. rec' \in RecType /\ WaitingOK'
      BY <3>1, <2>4 DEF WaitingOK
    <3> QED BY <1>ProvisionClaim, <2>0, <3>1, <3>2, TypeInvFrom
            DEF ProvisionClaim, TypeInv, TypeOK, host
  <2>7. CASE Done(t) /\ UNCHANGED rec
    BY <1>ProvisionClaim, <2>0, <2>7, DoneStep, TypeInvFrom
    DEF ProvisionClaim, TypeInv, TypeOK, WaitingOK, host
  <2> QED BY <1>ProvisionClaim, <2>5, <2>6, <2>7 DEF ProvisionClaim, PutFails
<1>PrepareStorage. ASSUME NEW t \in Threads, PrepareStorage(t) PROVE TypeInv'
  <2>1. ThreadsOK'
    BY <1>PrepareStorage, GoStep
    DEF PrepareStorage, Fails, At, Labels, HoldingLabels, TargetLabels, StateLabels
  <2>2. disk \in DiskType
    BY DEF TypeInv, TypeOK
  <2>3. disk' \in DiskType
    <3>1. disk' = disk \/ disk' = [dataset |-> TRUE, dir |-> TRUE]
      BY <1>PrepareStorage, Zenon DEF PrepareStorage
    <3>2. disk.dir \in BOOLEAN
      BY <2>2 DEF DiskType
    <3> QED BY <3>1, <3>2, <2>2, DiskValues, Zenon
  <2>4. faults' \in Nat
    BY <1>PrepareStorage, FaultsLeft DEF PrepareStorage, Fails, NoFault
  <2> QED BY <1>PrepareStorage, <2>1, <2>3, <2>4, TypeInvFrom
          DEF PrepareStorage, TypeInv, TypeOK, WaitingOK
<1>StartSlot. ASSUME NEW t \in Threads, StartSlot(t) PROVE TypeInv'
  <2> DEFINE s == th[t].svc.tgt
             new == IF ctr[s].up = "absent" THEN th[t].svc.tver ELSE ctr[s].ver
  <2>1. ThreadsOK'
    BY <1>StartSlot, GoStep
    DEF StartSlot, Fails, At, Labels, HoldingLabels, TargetLabels, StateLabels
  <2>2. ctr \in [Slots -> CtrType] /\ s \in Slots
    BY <1>StartSlot DEF StartSlot, At, TypeInv, TypeOK, LocalOK, TargetLabels
  <2>3. new \in Versions \union {0}
    BY <2>2, CopyType DEF CtrType
  <2>4. /\ [up |-> "running", ver |-> new, ok |-> FALSE] \in CtrType
        /\ [up |-> "stopped", ver |-> new, ok |-> FALSE] \in CtrType
    BY <2>3 DEF CtrType
  <2>5. ctr' \in [Slots -> CtrType]
    BY <1>StartSlot, <2>2, <2>4 DEF StartSlot
  <2>6. faults' \in Nat
    BY <1>StartSlot, FaultsLeft DEF StartSlot, Fails
  <2> QED BY <1>StartSlot, <2>1, <2>5, <2>6, TypeInvFrom
          DEF StartSlot, TypeInv, TypeOK, WaitingOK
<1>PutWaiting. ASSUME NEW t \in Threads, PutWaiting(t) PROVE TypeInv'
  <2> DEFINE s == [th[t].svc EXCEPT !.phase = "waiting_for_health"]
             a == IF th[t].att = 0 THEN health.seq + 1 ELSE th[t].att
             x == [th[t] EXCEPT !.pc = "health", !.svc = s, !.att = a]
  <2>1. th[t].svc \in RecType /\ th[t].svc.op \in Deploys /\ th[t].svc.tgt \in Slots
    BY <1>PutWaiting, CopyType DEF PutWaiting, At, TypeInv, LocalOK, TargetLabels
  <2>2. s \in RecType /\ s.op \in Deploys /\ s.tgt \in Slots
    BY <2>1, PhaseType DEF Phases
  <2>3. th[t] \in ThreadType /\ health \in [seq : Nat, cur : Nat]
    BY DEF TypeInv, TypeOK
  <2>4. a \in Nat
    BY <2>3 DEF ThreadType
  <2>5. x \in ThreadType /\ x.pc = "health" /\ x.svc = s
    BY <2>2, <2>3, <2>4 DEF ThreadType, Labels, HoldingLabels
  <2>6. LocalOK(x)
    BY <2>2, <2>5 DEF LocalOK, TargetLabels, StateLabels
  <2>7. health' \in [seq : Nat, cur : Nat]
    BY <1>PutWaiting, <2>3 DEF PutWaiting, NextHealthAttempt
  <2>8. faults' \in Nat
    BY <1>PutWaiting, FaultsLeft DEF PutWaiting, Puts, PutFails
  <2>9. CASE Puts(s) /\ th' = [th EXCEPT ![t] = x]
    <3>1. ThreadsOK'
      BY <2>5, <2>6, <2>9, ThreadStep
    <3>2. rec' \in RecType /\ WaitingOK'
      BY <2>2, <2>9 DEF Puts, WaitingOK
    <3> QED BY <1>PutWaiting, <2>7, <2>8, <3>1, <3>2, TypeInvFrom
            DEF PutWaiting, TypeInv, TypeOK, host
  <2>10. CASE PutFails /\ Go(t, "failing")
    <3>1. ThreadsOK'
      BY <2>10, GoStep DEF Labels, HoldingLabels, TargetLabels, StateLabels
    <3> QED BY <1>PutWaiting, <2>7, <2>8, <2>10, <3>1, TypeInvFrom
         DEF PutWaiting, PutFails, TypeInv, TypeOK, WaitingOK, host
  <2> QED BY <1>PutWaiting, <2>9, <2>10 DEF PutWaiting
<1>CheckHealth. ASSUME NEW t \in Threads, CheckHealth(t) PROVE TypeInv'
  <2> DEFINE s == th[t].svc.tgt
             x == [th[t] EXCEPT !.pc = "verdict", !.passed = TRUE]
             passes == [ctr[s] EXCEPT !.ok = TRUE]
  <2>1. ctr \in [Slots -> CtrType] /\ th[t] \in ThreadType
    BY DEF TypeInv, TypeOK
  <2>2. s \in Slots /\ passes \in CtrType
    BY <1>CheckHealth, <2>1 DEF CheckHealth, At, TypeInv, LocalOK, TargetLabels, CtrType
  <2>3. x \in ThreadType /\ x.pc = "verdict" /\ x.svc = th[t].svc
    BY <2>1 DEF ThreadType, Labels, HoldingLabels, TargetLabels, StateLabels
  <2>4. LocalOK(x)
    BY <1>CheckHealth, <2>3
    DEF CheckHealth, At, TypeInv, LocalOK, TargetLabels, StateLabels
  <2>5. th' = [th EXCEPT ![t] = x] => ThreadsOK'
    BY <2>3, <2>4, ThreadStep
  <2>6. Go(t, "verdict") => ThreadsOK'
    BY <1>CheckHealth, GoStep
    DEF CheckHealth, At, Labels, HoldingLabels, TargetLabels, StateLabels
  <2>7. ThreadsOK'
    BY <1>CheckHealth, <2>5, <2>6 DEF CheckHealth
  <2>8. ctr' \in [Slots -> CtrType]
    <3>1. ctr' = ctr \/ ctr' = [ctr EXCEPT ![s] = passes]
      BY <1>CheckHealth DEF CheckHealth
    <3> QED BY <3>1, <2>1, <2>2
  <2> QED BY <1>CheckHealth, <2>7, <2>8, TypeInvFrom
          DEF CheckHealth, TypeInv, TypeOK, WaitingOK
<1>HealthVerdict. ASSUME NEW t \in Threads, HealthVerdict(t) PROVE TypeInv'
  <2> DEFINE routing == [rec EXCEPT !.phase = "routing"]
             failed == [rec EXCEPT !.phase = "failed"]
  <2>1. rec \in RecType /\ health \in [seq : Nat, cur : Nat]
    BY DEF TypeInv, TypeOK
  <2>2. /\ routing \in RecType /\ failed \in RecType
        /\ routing.phase = "routing" /\ failed.phase = "failed"
        /\ routing.op = rec.op /\ routing.tgt = rec.tgt
    BY <2>1, PhaseType DEF Phases
  <2>3. health' \in [seq : Nat, cur : Nat]
    BY <1>HealthVerdict, <2>1 DEF HealthVerdict, ForgetAttempt
  <2>4. faults' \in Nat
    BY <1>HealthVerdict, FaultsLeft DEF HealthVerdict, Puts, PutFails
  <2>5. ThreadsOK'
    <3>1. CASE Done(t)
      BY <3>1, DoneStep
    <3>2. CASE VerdictApplies(t) /\ GoWith(t, "route", routing)
      <4>1. routing.op \in Deploys /\ routing.tgt \in Slots
        BY <2>2, <3>2 DEF VerdictApplies, TypeInv, WaitingOK
      <4> QED BY <2>2, <3>2, <4>1, GoWithStep DEF Labels, HoldingLabels, StateLabels
    <3> QED BY <1>HealthVerdict, <3>1, <3>2 DEF HealthVerdict
  <2>6. rec' = rec \/ rec' = routing \/ rec' = failed
    BY <1>HealthVerdict DEF HealthVerdict, Puts, PutFails
  <2>7. rec' \in RecType /\ WaitingOK'
    BY <2>1, <2>2, <2>6 DEF WaitingOK, TypeInv
  <2> QED BY <1>HealthVerdict, <2>3, <2>4, <2>5, <2>7, TypeInvFrom
          DEF HealthVerdict, TypeInv, TypeOK, host
<1>RouteTarget. ASSUME NEW t \in Threads, RouteTarget(t) PROVE TypeInv'
  <2>1. th[t].svc.op \in Deploys /\ th[t].svc.tgt \in Slots
    BY <1>RouteTarget DEF RouteTarget, At, TypeInv, LocalOK, TargetLabels
  <2>2. AfterRoute[th[t].svc.op] \in {"putRunning", "removeOld", "putDraining"}
    BY <2>1 DEF AfterRoute, Deploys
  <2>3. ThreadsOK'
    BY <1>RouteTarget, <2>2, GoStep
    DEF RouteTarget, Fails, At, Labels, HoldingLabels, TargetLabels, StateLabels
  <2>4. route \in RouteType
    BY DEF TypeInv, TypeOK
  <2>5. route' \in RouteType
    BY <1>RouteTarget, <2>1, <2>4, ValueTypes, CopyType DEF RouteTarget
  <2>6. faults' \in Nat
    BY <1>RouteTarget, FaultsLeft DEF RouteTarget, Fails
  <2> QED BY <1>RouteTarget, <2>3, <2>5, <2>6, TypeInvFrom
          DEF RouteTarget, TypeInv, TypeOK, WaitingOK
<1>RemovePreviousSlot. ASSUME NEW t \in Threads, RemovePreviousSlot(t) PROVE TypeInv'
  <2>1. ThreadsOK'
    BY <1>RemovePreviousSlot, GoStep
    DEF RemovePreviousSlot, At, Labels, HoldingLabels, TargetLabels, StateLabels
  <2>2. ctr \in [Slots -> CtrType]
    BY DEF TypeInv, TypeOK
  <2>3. ctr' \in [Slots -> CtrType]
    BY <1>RemovePreviousSlot, <2>2, ValueTypes, HalfType DEF RemovePreviousSlot
  <2>4. faults' \in Nat
    BY <1>RemovePreviousSlot, FaultsLeft DEF RemovePreviousSlot, NoFault
  <2> QED BY <1>RemovePreviousSlot, <2>1, <2>3, <2>4, TypeInvFrom
          DEF RemovePreviousSlot, TypeInv, TypeOK, WaitingOK
<1>PutDraining. ASSUME NEW t \in Threads, PutDraining(t) PROVE TypeInv'
  <2> DEFINE s == [th[t].svc EXCEPT !.phase = "draining", !.tdom = NoDomain,
                                     !.dom = RoutingDomain(th[t].svc)]
  <2>1. s \in RecType /\ s.phase = "draining"
    BY CopyType DEF RecType, Phases
  <2>2. ThreadsOK'
    <3>1. s.op \in Deploys /\ s.tgt \in Slots
      BY <1>PutDraining, CopyType
      DEF PutDraining, At, TypeInv, LocalOK, TargetLabels, RecType
    <3> QED BY <1>PutDraining, <2>1, <3>1, DoneStep, GoWithStep
         DEF PutDraining, Labels, HoldingLabels, StateLabels
  <2>3. rec' = rec \/ rec' = s
    BY <1>PutDraining DEF PutDraining, Puts, PutFails
  <2>4. rec' \in RecType /\ WaitingOK'
    BY <2>1, <2>3 DEF TypeInv, TypeOK, WaitingOK
  <2>5. faults' \in Nat
    BY <1>PutDraining, FaultsLeft DEF PutDraining, Puts, PutFails
  <2> QED BY <1>PutDraining, <2>2, <2>4, <2>5, TypeInvFrom
          DEF PutDraining, TypeInv, TypeOK, host
<1>DrainOldDeploy. ASSUME NEW t \in Threads, DrainOldDeploy(t) PROVE TypeInv'
  <2>1. ThreadsOK'
    BY <1>DrainOldDeploy, GoStep
    DEF DrainOldDeploy, Fails, At, Labels, HoldingLabels, TargetLabels, StateLabels
  <2>2. ctr \in [Slots -> CtrType]
    BY DEF TypeInv, TypeOK
  <2>3. ctr' \in [Slots -> CtrType]
    BY <1>DrainOldDeploy, <2>2, ValueTypes, HalfType DEF DrainOldDeploy
  <2>4. faults' \in Nat
    BY <1>DrainOldDeploy, FaultsLeft DEF DrainOldDeploy, Fails, NoFault
  <2> QED BY <1>DrainOldDeploy, <2>1, <2>3, <2>4, TypeInvFrom
          DEF DrainOldDeploy, TypeInv, TypeOK, WaitingOK
<1>PutRunning. ASSUME NEW t \in Threads, PutRunning(t) PROVE TypeInv'
  <2> DEFINE o == th[t].svc
             st == IF o.op = "upgrade" THEN o.state ELSE "active"
             v == IF o.tver # 0 THEN o.tver ELSE o.ver
             s == [o EXCEPT !.state = st, !.phase = "running", !.op = "", !.live = o.tgt,
                            !.tgt = "", !.ver = v, !.tver = 0,
                            !.dom = RoutingDomain(o), !.tdom = NoDomain]
  <2>1. s \in RecType /\ s.phase = "running"
    <3>1. o.tgt \in Slots
      BY <1>PutRunning DEF PutRunning, At, TypeInv, LocalOK, TargetLabels
    <3>2. st \in States \union {"absent"} /\ v \in Versions \union {0}
      BY CopyType DEF RecType, States
    <3>3. o \in RecType /\ RoutingDomain(o) \in Domains \union {NoDomain}
      BY CopyType
    <3> HIDE DEF o, st, v
    <3> QED BY <3>1, <3>2, <3>3 DEF RecType, Phases, Operations
  <2>2. ThreadsOK'
    BY <1>PutRunning, DoneStep DEF PutRunning
  <2>3. rec' = rec \/ rec' = s
    BY <1>PutRunning DEF PutRunning, Puts, PutFails
  <2>4. rec' \in RecType /\ WaitingOK'
    BY <2>1, <2>3 DEF TypeInv, TypeOK, WaitingOK
  <2>5. faults' \in Nat
    BY <1>PutRunning, FaultsLeft DEF PutRunning, Puts, PutFails
  <2> QED BY <1>PutRunning, <2>2, <2>4, <2>5, TypeInvFrom
          DEF PutRunning, TypeInv, TypeOK, host
<1>RecordFailure. ASSUME NEW t \in Threads, RecordFailure(t) PROVE TypeInv'
  <2> DEFINE s == [th[t].svc EXCEPT !.phase = "failed"]
  <2>1. s \in RecType /\ s.phase = "failed"
    BY CopyType DEF RecType, Phases
  <2>2. ThreadsOK'
    BY <1>RecordFailure, DoneStep DEF RecordFailure
  <2>3. rec' = rec \/ rec' = s
    BY <1>RecordFailure DEF RecordFailure, Puts, PutFails
  <2>4. rec' \in RecType /\ WaitingOK'
    BY <2>1, <2>3 DEF TypeInv, TypeOK, WaitingOK
  <2>5. faults' \in Nat
    BY <1>RecordFailure, FaultsLeft DEF RecordFailure, Puts, PutFails
  <2> QED BY <1>RecordFailure, <2>2, <2>4, <2>5, TypeInvFrom
          DEF RecordFailure, TypeInv, TypeOK, host
<1>UpgradeFromCall. ASSUME NEW t \in Threads, UpgradeFromCall(t) PROVE TypeInv'
  <2>1. ThreadsOK'
    BY <1>UpgradeFromCall, GoStep, DoneStep
    DEF UpgradeFromCall, At, Labels, HoldingLabels, TargetLabels, StateLabels
  <2>2. faults' \in Nat
    BY <1>UpgradeFromCall, FaultsLeft DEF UpgradeFromCall, NoFault
  <2> QED BY <1>UpgradeFromCall, <2>1, <2>2, TypeInvFrom
          DEF UpgradeFromCall, TypeInv, TypeOK, WaitingOK, host
<1>UpgradeClaim. ASSUME NEW t \in Threads, UpgradeClaim(t) PROVE TypeInv'
  <2> DEFINE r == th[t].req
             s == UpgradeRecord(rec, r)
  <2>1. /\ r \in RequestType /\ rec \in RecType /\ health \in [seq : Nat, cur : Nat]
        /\ r.ver \in Versions \union {0} /\ r.dom \in Domains \union {NoDomain}
    BY CopyType DEF TypeInv, TypeOK, RequestType
  <2>2. health' \in [seq : Nat, cur : Nat]
    BY <1>UpgradeClaim, <2>1 DEF UpgradeClaim, NextHealthAttempt
  <2>0. faults' \in Nat
    BY <1>UpgradeClaim, FaultsLeft DEF UpgradeClaim, PutFails
  <2>3. CASE NextHealthAttempt /\ Claims(t, "isolate", r, s, health.seq + 1)
    <3>1. /\ s \in RecType /\ s.phase = "starting"
          /\ s.op \in Deploys /\ s.tgt \in Slots
      BY <2>1, UpgradeRecordType
    <3>2. health.seq + 1 \in Nat
      BY <2>1
    <3>3. ThreadsOK' /\ rec' = s
      BY <2>1, <2>3, <3>1, <3>2, ClaimStep DEF Labels, HoldingLabels, StateLabels
    <3>4. rec' \in RecType /\ WaitingOK'
      BY <3>1, <3>3 DEF WaitingOK
    <3> QED BY <1>UpgradeClaim, <2>0, <2>2, <3>3, <3>4, TypeInvFrom
            DEF UpgradeClaim, TypeInv, TypeOK, host
  <2>4. CASE Done(t) /\ UNCHANGED <<rec, health>>
    BY <1>UpgradeClaim, <2>0, <2>4, DoneStep, TypeInvFrom
    DEF UpgradeClaim, TypeInv, TypeOK, WaitingOK, host
  <2> QED BY <1>UpgradeClaim, <2>3, <2>4 DEF UpgradeClaim, PutFails
<1>EnsureIsolation. ASSUME NEW t \in Threads, EnsureIsolation(t) PROVE TypeInv'
  <2>1. ThreadsOK'
    BY <1>EnsureIsolation, GoStep
    DEF EnsureIsolation, Fails, At, Labels, HoldingLabels, TargetLabels, StateLabels
  <2>2. faults' \in Nat
    BY <1>EnsureIsolation, FaultsLeft DEF EnsureIsolation, Fails, NoFault
  <2> QED BY <1>EnsureIsolation, <2>1, <2>2, TypeInvFrom
          DEF EnsureIsolation, TypeInv, TypeOK, WaitingOK, host
<1>RestoreLiveRoute. ASSUME NEW t \in Threads, RestoreLiveRoute(t) PROVE TypeInv'
  <2>1. ThreadsOK'
    BY <1>RestoreLiveRoute, GoStep
    DEF RestoreLiveRoute, Fails, At, Labels, HoldingLabels, TargetLabels, StateLabels
  <2>2. route \in RouteType
    BY DEF TypeInv, TypeOK
  <2>3. route' \in RouteType
    BY <1>RestoreLiveRoute, <2>2, ValueTypes, CopyType DEF RestoreLiveRoute
  <2>4. faults' \in Nat
    BY <1>RestoreLiveRoute, FaultsLeft DEF RestoreLiveRoute, Fails, NoFault
  <2> QED BY <1>RestoreLiveRoute, <2>1, <2>3, <2>4, TypeInvFrom
          DEF RestoreLiveRoute, TypeInv, TypeOK, WaitingOK
<1>RemoveTarget. ASSUME NEW t \in Threads, RemoveTarget(t) PROVE TypeInv'
  <2>1. ThreadsOK'
    BY <1>RemoveTarget, GoStep
    DEF RemoveTarget, Fails, At, Labels, HoldingLabels, TargetLabels, StateLabels
  <2>2. ctr \in [Slots -> CtrType]
    BY DEF TypeInv, TypeOK
  <2>3. ctr' \in [Slots -> CtrType]
    BY <1>RemoveTarget, <2>2, ValueTypes, HalfType DEF RemoveTarget
  <2>4. faults' \in Nat
    BY <1>RemoveTarget, FaultsLeft DEF RemoveTarget, Fails, NoFault
  <2> QED BY <1>RemoveTarget, <2>1, <2>3, <2>4, TypeInvFrom
          DEF RemoveTarget, TypeInv, TypeOK, WaitingOK
<1>Reconcile. ASSUME NEW t \in Threads, Reconcile(t) PROVE TypeInv'
  <2>1. ThreadsOK'
    BY <1>Reconcile, GoStep, DoneStep
    DEF Reconcile, At, Labels, HoldingLabels, TargetLabels, StateLabels
  <2>2. faults' \in Nat
    BY <1>Reconcile, FaultsLeft DEF Reconcile, NoFault
  <2> QED BY <1>Reconcile, <2>1, <2>2, TypeInvFrom
          DEF Reconcile, TypeInv, TypeOK, WaitingOK, host
<1>RedeployTerminated. ASSUME NEW t \in Threads, RedeployTerminated(t) PROVE TypeInv'
  <2> DEFINE r == th[t].req
             s == [rec EXCEPT !.dom = r.dom, !.ver = r.ver]
  <2>1. /\ rec \in RecType
        /\ r.ver \in Versions \union {0} /\ r.dom \in Domains \union {NoDomain}
    BY CopyType DEF TypeInv, TypeOK, RequestType
  <2>2. s \in RecType /\ s.phase = rec.phase
    BY <2>1 DEF RecType
  <2>3. ThreadsOK'
    BY <1>RedeployTerminated, GoStep, DoneStep
    DEF RedeployTerminated, Labels, HoldingLabels, TargetLabels, StateLabels
  <2>4. rec' \in RecType /\ WaitingOK'
    BY <1>RedeployTerminated, <2>1, <2>2
    DEF RedeployTerminated, Puts, PutFails, TypeInv, WaitingOK
  <2>5. faults' \in Nat
    BY <1>RedeployTerminated, FaultsLeft DEF RedeployTerminated, Puts, PutFails
  <2> QED BY <1>RedeployTerminated, <2>3, <2>4, <2>5, TypeInvFrom
          DEF RedeployTerminated, TypeInv, TypeOK, host
<1>DeployDomains. ASSUME NEW t \in Threads, DeployDomains(t) PROVE TypeInv'
  <2>1. rec \in RecType
    BY DEF TypeInv, TypeOK
  <2>2. Renames(rec) => rec.phase \in {"running", "stopped"}
    BY DEF Renames
  <2>3. ThreadsOK'
    BY <1>DeployDomains, <2>1, <2>2, DoneStep, GoWithStep
    DEF DeployDomains, Labels, HoldingLabels, TargetLabels, StateLabels
  <2> QED BY <1>DeployDomains, <2>3, TypeInvFrom
          DEF DeployDomains, TypeInv, TypeOK, WaitingOK, host
<1>ApplyDomains. ASSUME NEW t \in Threads, ApplyDomains(t) PROVE TypeInv'
  <2> DEFINE d == th[t].req.dom
             s == [rec EXCEPT !.dom = d]
             new == RenamedRoute(t)
  <2>1. rec \in RecType /\ route \in RouteType /\ d \in Domains \union {NoDomain}
    BY CopyType DEF TypeInv, TypeOK, RequestType
  <2>2. s \in RecType /\ s.phase = rec.phase /\ rec.live \in Slots
    BY <2>1 DEF RecType
  <2>3. s.op = rec.op /\ s.tgt = rec.tgt
    BY <2>1 DEF RecType
  <2>4. new \in RouteType
    BY RenamedType
  <2>5. ThreadsOK'
    BY <1>ApplyDomains, DoneStep DEF ApplyDomains
  <2> HIDE DEF new
  <2>6. rec' \in {rec, s} /\ route' \in {route, new}
    BY <1>ApplyDomains DEF ApplyDomains, Puts, PutFails, new
  <2>7. rec' \in RecType /\ WaitingOK' /\ route' \in RouteType
    BY <2>1, <2>2, <2>3, <2>4, <2>6 DEF TypeInv, WaitingOK
  <2>8. faults' \in Nat
    BY <1>ApplyDomains, FaultsLeft DEF ApplyDomains, Puts, PutFails
  <2> QED BY <1>ApplyDomains, <2>5, <2>7, <2>8, TypeInvFrom
          DEF ApplyDomains, TypeInv, TypeOK
<1>ResumeFromCall. ASSUME NEW t \in Threads, ResumeFromCall(t) PROVE TypeInv'
  <2>0. faults' \in Nat
    BY <1>ResumeFromCall, FaultsLeft DEF ResumeFromCall, PutFails
  <2>1. CASE ResumeClaim(t, th[t].req)
    BY <1>ResumeFromCall, <2>0, <2>1, CopyType, ResumeClaimType, TypeInvFrom
       DEF ResumeFromCall, TypeInv, TypeOK, host
  <2>2. CASE Done(t) /\ UNCHANGED <<rec, health>>
    BY <1>ResumeFromCall, <2>0, <2>2, DoneStep, TypeInvFrom
    DEF ResumeFromCall, TypeInv, TypeOK, WaitingOK, host
  <2> QED BY <1>ResumeFromCall, <2>1, <2>2 DEF ResumeFromCall, PutFails
<1>StopContainers. ASSUME NEW t \in Threads, StopContainers(t) PROVE TypeInv'
  <2>1. ThreadsOK'
    BY <1>StopContainers, GoStep
    DEF StopContainers, Fails, At, Labels, HoldingLabels, TargetLabels, StateLabels
  <2>2. ctr \in [Slots -> CtrType]
    BY DEF TypeInv, TypeOK
  <2>3. ctr' \in [Slots -> CtrType]
    BY <1>StopContainers, <2>2, StopType, HalfType DEF StopContainers
  <2>4. faults' \in Nat
    BY <1>StopContainers, FaultsLeft DEF StopContainers, Fails, NoFault
  <2> QED BY <1>StopContainers, <2>1, <2>3, <2>4, TypeInvFrom
          DEF StopContainers, TypeInv, TypeOK, WaitingOK
<1>PutTargetState. ASSUME NEW t \in Threads, PutTargetState(t) PROVE TypeInv'
  <2> DEFINE s == [th[t].svc EXCEPT !.state = th[t].svc.op, !.phase = "routing"]
  <2>1. s \in RecType /\ s.phase = "routing"
    <3>1. th[t].svc.op \in {"suspended", "terminated"}
      BY <1>PutTargetState DEF PutTargetState, At, TypeInv, LocalOK, StateLabels
    <3> QED BY <3>1, CopyType DEF RecType, States, Phases
  <2>2. ThreadsOK'
    <3>1. s.op \in {"suspended", "terminated"}
      BY <1>PutTargetState, CopyType
      DEF PutTargetState, At, TypeInv, LocalOK, StateLabels, RecType
    <3> QED BY <1>PutTargetState, <2>1, <3>1, GoWithStep
         DEF PutTargetState, Labels, HoldingLabels, TargetLabels, StateLabels
  <2>3. rec' = rec \/ rec' = s
    BY <1>PutTargetState DEF PutTargetState, Puts, PutFails
  <2>4. rec' \in RecType /\ WaitingOK'
    BY <2>1, <2>3 DEF TypeInv, TypeOK, WaitingOK
  <2>5. faults' \in Nat
    BY <1>PutTargetState, FaultsLeft DEF PutTargetState, Puts, PutFails
  <2> QED BY <1>PutTargetState, <2>2, <2>4, <2>5, TypeInvFrom
          DEF PutTargetState, TypeInv, TypeOK, host
<1>FinishRouting. ASSUME NEW t \in Threads, FinishRouting(t) PROVE TypeInv'
  <2>1. rec \in RecType
    BY DEF TypeInv, TypeOK
  <2>2. th[t].svc.op \in {"suspended", "terminated"}
    BY <1>FinishRouting DEF FinishRouting, At, TypeInv, LocalOK, StateLabels
  <2>3. ThreadsOK'
    BY <1>FinishRouting, <2>1, <2>2, DoneStep, GoWithStep
    DEF FinishRouting, Labels, HoldingLabels, TargetLabels, StateLabels
  <2> QED BY <1>FinishRouting, <2>3, TypeInvFrom
          DEF FinishRouting, TypeInv, TypeOK, WaitingOK, host
<1>Unroute. ASSUME NEW t \in Threads, Unroute(t) PROVE TypeInv'
  <2>1. ThreadsOK'
    BY <1>Unroute, GoStep
    DEF Unroute, Fails, At, Labels, HoldingLabels, TargetLabels, StateLabels
  <2>2. route \in RouteType
    BY DEF TypeInv, TypeOK
  <2>3. route' \in RouteType
    BY <1>Unroute, <2>2, ValueTypes, CopyType DEF Unroute
  <2>4. faults' \in Nat
    BY <1>Unroute, FaultsLeft DEF Unroute, Fails, NoFault
  <2> QED BY <1>Unroute, <2>1, <2>3, <2>4, TypeInvFrom
          DEF Unroute, TypeInv, TypeOK, WaitingOK
<1>PutStopped. ASSUME NEW t \in Threads, PutStopped(t) PROVE TypeInv'
  <2> DEFINE s == [th[t].svc EXCEPT !.phase = "stopped", !.op = "", !.tgt = "",
                                     !.tver = 0, !.tdom = NoDomain]
  <2>1. s \in RecType /\ s.phase = "stopped"
    BY CopyType DEF RecType, Phases, Operations
  <2>2. ThreadsOK'
    BY <1>PutStopped, DoneStep DEF PutStopped
  <2>3. rec' = rec \/ rec' = s
    BY <1>PutStopped DEF PutStopped, Puts, PutFails
  <2>4. rec' \in RecType /\ WaitingOK'
    BY <2>1, <2>3 DEF TypeInv, TypeOK, WaitingOK
  <2>5. faults' \in Nat
    BY <1>PutStopped, FaultsLeft DEF PutStopped, Puts, PutFails
  <2> QED BY <1>PutStopped, <2>2, <2>4, <2>5, TypeInvFrom
          DEF PutStopped, TypeInv, TypeOK, host
<1>RemoveContainers. ASSUME NEW t \in Threads, RemoveContainers(t) PROVE TypeInv'
  <2>1. ThreadsOK'
    BY <1>RemoveContainers, GoStep
    DEF RemoveContainers, Fails, At, Labels, HoldingLabels, TargetLabels, StateLabels
  <2>2. ctr \in [Slots -> CtrType]
    BY DEF TypeInv, TypeOK
  <2>3. ctr' \in [Slots -> CtrType]
    BY <1>RemoveContainers, <2>2, StopType, HalfType DEF RemoveContainers
  <2>4. faults' \in Nat
    BY <1>RemoveContainers, FaultsLeft DEF RemoveContainers, Fails, NoFault
  <2> QED BY <1>RemoveContainers, <2>1, <2>3, <2>4, TypeInvFrom
          DEF RemoveContainers, TypeInv, TypeOK, WaitingOK
<1>RemoveRoute. ASSUME NEW t \in Threads, RemoveRoute(t) PROVE TypeInv'
  <2>1. ThreadsOK'
    BY <1>RemoveRoute, GoStep
    DEF RemoveRoute, Fails, At, Labels, HoldingLabels, TargetLabels, StateLabels
  <2>2. route \in RouteType
    BY DEF TypeInv, TypeOK
  <2>3. route' \in RouteType
    BY <1>RemoveRoute, <2>2, ValueTypes DEF RemoveRoute
  <2>4. faults' \in Nat
    BY <1>RemoveRoute, FaultsLeft DEF RemoveRoute, Fails, NoFault
  <2> QED BY <1>RemoveRoute, <2>1, <2>3, <2>4, TypeInvFrom
          DEF RemoveRoute, TypeInv, TypeOK, WaitingOK
<1>DestroyDataset. ASSUME NEW t \in Threads, DestroyDataset(t) PROVE TypeInv'
  <2>1. ThreadsOK'
    BY <1>DestroyDataset, GoStep
    DEF DestroyDataset, Fails, At, Labels, HoldingLabels, TargetLabels, StateLabels
  <2>2. disk \in DiskType
    BY DEF TypeInv, TypeOK
  <2>3. disk' \in DiskType
    <3>1. \/ disk' = disk
          \/ disk' = [dataset |-> FALSE, dir |-> FALSE]
          \/ disk' = [dataset |-> FALSE, dir |-> disk.dir]
      BY <1>DestroyDataset, Zenon DEF DestroyDataset
    <3>2. disk.dir \in BOOLEAN
      BY <2>2 DEF DiskType
    <3> QED BY <3>1, <3>2, <2>2, DiskValues, Zenon
  <2>4. faults' \in Nat
    BY <1>DestroyDataset, FaultsLeft DEF DestroyDataset, Fails, NoFault
  <2> QED BY <1>DestroyDataset, <2>1, <2>3, <2>4, TypeInvFrom
          DEF DestroyDataset, TypeInv, TypeOK, WaitingOK
<1>RemoveMountpoint. ASSUME NEW t \in Threads, RemoveMountpoint(t) PROVE TypeInv'
  <2>1. ThreadsOK'
    BY <1>RemoveMountpoint, GoStep
    DEF RemoveMountpoint, Fails, At, Labels, HoldingLabels, TargetLabels, StateLabels
  <2>2. disk \in DiskType
    BY DEF TypeInv, TypeOK
  <2>3. disk' \in DiskType
    <3>1. disk' = disk \/ disk' = [dataset |-> disk.dataset, dir |-> FALSE]
      BY <1>RemoveMountpoint, <2>2 DEF RemoveMountpoint, DiskType
    <3>2. disk.dataset \in BOOLEAN
      BY <2>2 DEF DiskType
    <3> QED BY <3>1, <3>2, <2>2, DiskValues, Zenon
  <2>4. faults' \in Nat
    BY <1>RemoveMountpoint, FaultsLeft DEF RemoveMountpoint, Fails, NoFault
  <2> QED BY <1>RemoveMountpoint, <2>1, <2>3, <2>4, TypeInvFrom
          DEF RemoveMountpoint, TypeInv, TypeOK, WaitingOK
<1>Bury. ASSUME NEW t \in Threads, Bury(t) PROVE TypeInv'
  <2>1. ThreadsOK'
    BY <1>Bury, GoStep, DoneStep
    DEF Bury, Labels, HoldingLabels, TargetLabels, StateLabels
  <2>2. rec' \in RecType /\ WaitingOK'
    <3>1. rec' = rec \/ rec' = NoRec
      BY <1>Bury DEF Bury, PutFails
    <3>2. NoRec \in RecType /\ NoRec.phase = "none"
      BY ValueTypes DEF NoRec
    <3> QED BY <3>1, <3>2 DEF TypeInv, TypeOK, WaitingOK
  <2>3. tomb' \in {"none", "deleting", "failed", "deleted"}
    BY <1>Bury DEF Bury, TypeInv, TypeOK
  <2>4. faults' \in Nat
    BY <1>Bury, FaultsLeft DEF Bury, PutFails
  <2> QED BY <1>Bury, <2>1, <2>2, <2>3, <2>4, TypeInvFrom
          DEF Bury, TypeInv, TypeOK, host
<1>FinishDelete. ASSUME NEW t \in Threads, FinishDelete(t) PROVE TypeInv'
  <2>1. ThreadsOK'
    BY <1>FinishDelete, GoStep
    DEF FinishDelete, At, Labels, HoldingLabels, TargetLabels, StateLabels
  <2>2. route \in RouteType
    BY DEF TypeInv, TypeOK
  <2>3. route' \in RouteType
    BY <1>FinishDelete, <2>2, ValueTypes DEF FinishDelete
  <2>4. faults' \in Nat
    BY <1>FinishDelete, FaultsLeft DEF FinishDelete, NoFault
  <2> QED BY <1>FinishDelete, <2>1, <2>3, <2>4, TypeInvFrom
          DEF FinishDelete, TypeInv, TypeOK, WaitingOK
<1>PutTombstone. ASSUME NEW t \in Threads, PutTombstone(t) PROVE TypeInv'
  <2>1. ThreadsOK'
    BY <1>PutTombstone, DoneStep DEF PutTombstone
  <2>2. tomb' \in {"none", "deleting", "failed", "deleted"}
    BY <1>PutTombstone DEF PutTombstone, TypeInv, TypeOK
  <2>3. faults' \in Nat
    BY <1>PutTombstone, FaultsLeft DEF PutTombstone
  <2> QED BY <1>PutTombstone, <2>1, <2>2, <2>3, TypeInvFrom
          DEF PutTombstone, TypeInv, TypeOK, WaitingOK, host
<1>Provision. ASSUME NEW t \in Threads, Provision(t) PROVE TypeInv'
  <2>1. PICK r \in Requests : Arrives(t, r) /\ th' = [th EXCEPT ![t].pc = "lookup", ![t].req = r]
    BY <1>Provision DEF Provision
  <2> DEFINE x == [th[t] EXCEPT !.pc = "lookup", !.req = r]
  <2>2. r \in RequestType /\ th[t] \in ThreadType
    BY ConstantsAssumption DEF TypeInv, TypeOK
  <2>3. x \in ThreadType /\ x.pc = "lookup" /\ x.svc = th[t].svc
    BY <2>2 DEF ThreadType, Labels
  <2>4. LocalOK(x)
    BY <2>3 DEF LocalOK, TargetLabels, StateLabels
  <2>5. ThreadsOK'
    BY <2>1, <2>3, <2>4, ThreadStep
  <2>6. requests' \in Nat
    BY <2>1 DEF Arrives, TypeInv, TypeOK
  <2> QED BY <1>Provision, <2>5, <2>6, TypeInvFrom
          DEF Provision, TypeInv, TypeOK, WaitingOK, host
<1>Upgrade. ASSUME NEW t \in Threads, Upgrade(t) PROVE TypeInv'
  <2>1. PICK r \in Requests : Arrives(t, r) /\ th' = [th EXCEPT ![t].pc = "upgradeImage", ![t].req = r]
    BY <1>Upgrade DEF Upgrade
  <2> DEFINE x == [th[t] EXCEPT !.pc = "upgradeImage", !.req = r]
  <2>2. r \in RequestType /\ th[t] \in ThreadType
    BY ConstantsAssumption DEF TypeInv, TypeOK
  <2>3. x \in ThreadType /\ x.pc = "upgradeImage" /\ x.svc = th[t].svc
    BY <2>2 DEF ThreadType, Labels
  <2>4. LocalOK(x)
    BY <2>3 DEF LocalOK, TargetLabels, StateLabels
  <2>5. ThreadsOK'
    BY <2>1, <2>3, <2>4, ThreadStep
  <2>6. requests' \in Nat
    BY <2>1 DEF Arrives, TypeInv, TypeOK
  <2> QED BY <1>Upgrade, <2>5, <2>6, TypeInvFrom
          DEF Upgrade, TypeInv, TypeOK, WaitingOK, host
<1>Resume. ASSUME NEW t \in Threads, Resume(t) PROVE TypeInv'
  <2>1. PICK r \in Requests : Arrives(t, r) /\ (ResumeClaim(t, r) \/ ResumeRedeploys(t, r))
    BY <1>Resume DEF Resume
  <2>2. r \in RequestType /\ th[t] \in ThreadType /\ rec \in RecType
    BY ConstantsAssumption DEF TypeInv, TypeOK
  <2>3. requests' \in Nat
    BY <2>1 DEF Arrives, TypeInv, TypeOK
  <2>4. CASE ResumeClaim(t, r)
    BY <1>Resume, <2>2, <2>3, <2>4, ResumeClaimType, TypeInvFrom
    DEF Resume, TypeInv, TypeOK, host
  <2>5. CASE ResumeRedeploys(t, r)
    <3> DEFINE q == [r EXCEPT !.kind = "upgrade", !.ver = rec.ver]
               x == [th[t] EXCEPT !.pc = "upgrade", !.req = q]
    <3>1. q \in RequestType
      BY <2>2 DEF RequestType, RequestKinds, RecType
    <3>2. x \in ThreadType /\ x.pc = "upgrade" /\ x.svc = th[t].svc
      BY <2>2, <3>1 DEF ThreadType, Labels
    <3>3. LocalOK(x)
      BY <3>2 DEF LocalOK, TargetLabels, StateLabels
    <3>4. ThreadsOK'
      BY <2>5, <3>2, <3>3, ThreadStep DEF ResumeRedeploys
    <3> QED BY <1>Resume, <2>3, <2>5, <3>4, TypeInvFrom
         DEF Resume, ResumeRedeploys, TypeInv, TypeOK, WaitingOK, host
  <2> QED BY <2>1, <2>4, <2>5
<1>ChangeState. ASSUME NEW t \in Threads, ChangeState(t) PROVE TypeInv'
  <2>1. PICK r \in Requests :
          /\ r.kind \in {"suspend", "terminate"}
          /\ Arrives(t, r)
          /\ Claims(t, "stop", r, [rec EXCEPT !.phase = "stopping", !.tdom = NoDomain,
                                              !.op = TargetState[r.kind]], 0)
    BY <1>ChangeState DEF ChangeState
  <2> DEFINE s == [rec EXCEPT !.phase = "stopping", !.tdom = NoDomain,
                              !.op = TargetState[r.kind]]
  <2>2. /\ r \in RequestType /\ rec \in RecType
        /\ TargetState[r.kind] \in {"suspended", "terminated"}
    BY <2>1, ConstantsAssumption DEF TypeInv, TypeOK, TargetState
  <2>3. s \in RecType /\ s.phase = "stopping" /\ s.op \in {"suspended", "terminated"}
    BY <2>2 DEF RecType, Phases, Operations
  <2>4. ThreadsOK' /\ rec' = s
    BY <2>1, <2>2, <2>3, ClaimStep DEF Labels, HoldingLabels, TargetLabels
  <2>5. rec' \in RecType /\ WaitingOK'
    BY <2>3, <2>4 DEF WaitingOK
  <2>6. requests' \in Nat /\ health' \in [seq : Nat, cur : Nat]
    BY <1>ChangeState, <2>1 DEF ChangeState, Arrives, TypeInv, TypeOK
  <2> QED BY <1>ChangeState, <2>4, <2>5, <2>6, TypeInvFrom
          DEF ChangeState, TypeInv, TypeOK, host
<1>Delete. ASSUME NEW t \in Threads, Delete(t) PROVE TypeInv'
  <2>1. PICK r \in Requests :
          /\ Arrives(t, r)
          /\ \/ /\ Claims(t, "wipe", r, [rec EXCEPT !.phase = "deleting", !.op = "delete"], 0)
                /\ UNCHANGED tomb
             \/ tomb' = "deleting" /\ Go(t, "finishDelete") /\ UNCHANGED rec
             \/ rec' = NoRec /\ UNCHANGED <<tomb, th>>
    BY <1>Delete DEF Delete
  <2> DEFINE s == [rec EXCEPT !.phase = "deleting", !.op = "delete"]
  <2>2. r \in RequestType /\ rec \in RecType
    BY ConstantsAssumption DEF TypeInv, TypeOK
  <2>3. s \in RecType /\ s.phase = "deleting"
    BY <2>2 DEF RecType, Phases, Operations
  <2>4. requests' \in Nat
    BY <2>1 DEF Arrives, TypeInv, TypeOK
  <2>5. CASE Claims(t, "wipe", r, s, 0) /\ UNCHANGED tomb
    <3>1. ThreadsOK' /\ rec' = s
      BY <2>2, <2>3, <2>5, ClaimStep
      DEF Labels, HoldingLabels, TargetLabels, StateLabels
    <3>2. rec' \in RecType /\ WaitingOK'
      BY <2>3, <3>1 DEF WaitingOK
    <3> QED BY <1>Delete, <2>4, <2>5, <3>1, <3>2, TypeInvFrom
            DEF Delete, TypeInv, TypeOK, host
  <2>6. CASE tomb' = "deleting" /\ Go(t, "finishDelete") /\ UNCHANGED rec
    <3>1. ThreadsOK'
      BY <2>6, GoStep DEF Labels, HoldingLabels, TargetLabels, StateLabels
    <3> QED BY <1>Delete, <2>4, <2>6, <3>1, TypeInvFrom
            DEF Delete, TypeInv, TypeOK, WaitingOK, host
  <2>7. CASE rec' = NoRec /\ UNCHANGED <<tomb, th>>
    <3>1. ThreadsOK'
      BY <2>7 DEF TypeInv, TypeOK, ThreadsOK
    <3>2. rec' \in RecType /\ WaitingOK'
      BY <2>7, ValueTypes DEF WaitingOK, NoRec
    <3> QED BY <1>Delete, <2>4, <2>7, <3>1, <3>2, TypeInvFrom
            DEF Delete, TypeInv, TypeOK, host
  <2> QED BY <2>1, <2>5, <2>6, <2>7
<1>Restart. ASSUME Restart PROVE TypeInv'
  <2>1. rec \in RecType
    BY DEF TypeInv, TypeOK
  <2>2. Interrupted(rec) \in RecType /\ Interrupted(rec).phase # "waiting_for_health"
    BY <2>1, PhaseType DEF Interrupted, Busy, Phases
  <2>3. Idle \in ThreadType /\ LocalOK(Idle)
    BY ValueTypes DEF Idle, ThreadType, Labels, LocalOK, TargetLabels, StateLabels
  <2>4. ThreadsOK'
    BY <1>Restart, <2>3 DEF Restart, ThreadsOK
  <2>5. rec' \in RecType /\ WaitingOK'
    BY <1>Restart, <2>2 DEF Restart, WaitingOK
  <2>6. /\ tomb' \in {"none", "deleting", "failed", "deleted"}
        /\ health' \in [seq : Nat, cur : Nat] /\ faults' \in Nat
    BY <1>Restart, FaultsLeft DEF Restart, TypeInv, TypeOK
  <2>7. route' \in RouteType
    BY <1>Restart, RenamedType DEF Restart, TypeInv, TypeOK
  <2> QED BY <1>Restart, <2>4, <2>5, <2>6, <2>7, TypeInvFrom
          DEF Restart, TypeInv, TypeOK
<1>Stutter. ASSUME UNCHANGED vars PROVE TypeInv'
  BY <1>Stutter DEF vars, TypeInv, TypeOK, WaitingOK
<1> QED
  BY <1>ProvisionLookup, <1>HasVersion, <1>ProvisionClaim, <1>PrepareStorage,
     <1>StartSlot, <1>PutWaiting, <1>CheckHealth, <1>HealthVerdict, <1>RouteTarget,
     <1>RemovePreviousSlot, <1>PutDraining, <1>DrainOldDeploy, <1>PutRunning,
     <1>RecordFailure, <1>UpgradeFromCall, <1>UpgradeClaim, <1>EnsureIsolation,
     <1>RestoreLiveRoute, <1>RemoveTarget, <1>Reconcile, <1>RedeployTerminated,
     <1>DeployDomains, <1>ApplyDomains, <1>ResumeFromCall, <1>StopContainers,
     <1>PutTargetState, <1>FinishRouting, <1>Unroute, <1>PutStopped,
     <1>RemoveContainers, <1>RemoveRoute, <1>DestroyDataset, <1>RemoveMountpoint,
     <1>Bury, <1>FinishDelete, <1>PutTombstone, <1>Provision, <1>Upgrade, <1>Resume,
     <1>ChangeState, <1>Delete,
     <1>Restart, <1>Stutter
  DEF Next, Call, Work

-----------------------------------------------------------------------------
(* The type invariant, as a theorem of the specification.                  *)
LEMMA TypeInvInit == Init => TypeInv
  <1> SUFFICES ASSUME Init PROVE TypeInv
    OBVIOUS
  <1>1. Idle \in ThreadType /\ LocalOK(Idle)
    BY ValueTypes DEF Idle, ThreadType, Labels, LocalOK, TargetLabels, StateLabels
  <1>2. th \in [Threads -> ThreadType] /\ \A u \in Threads : LocalOK(th[u])
    BY <1>1 DEF Init
  <1>3. rec \in RecType /\ WaitingOK
    BY ValueTypes DEF Init, WaitingOK, NoRec
  <1>4. disk \in DiskType
    BY DiskValues DEF Init
  <1>5. ctr \in [Slots -> CtrType] /\ route \in RouteType
    BY ValueTypes DEF Init
  <1>6. requests \in Nat /\ faults \in Nat
    BY ConstantsAssumption DEF Init
  <1> QED BY <1>2, <1>3, <1>4, <1>5, <1>6 DEF Init, TypeInv, TypeOK

THEOREM StrongTypes == Spec => []TypeInv
  <1>1. TypeInv /\ [Next]_vars => TypeInv'
    BY TypeInvStep
  <1> QED BY TypeInvInit, <1>1, PTL DEF Spec

(* However many calls are in flight and whatever fails, the variables hold *)
(* values of their types (manager.go: the fields of model.Service, and the *)
(* locals of the handlers).                                                *)
THEOREM TypesCorrect == Spec => []TypeOK
  <1>1. TypeInv => TypeOK
    BY DEF TypeInv
  <1> QED BY <1>1, StrongTypes, PTL

-----------------------------------------------------------------------------
(* OneWriter.  A step moves one thread, and the steps fall into four kinds:*)
(* a thread without the record, or giving it up; a claim; a holder that    *)
(* only moves on; a holder that writes the record and its copy alike.      *)

OnlyMoves(t) == \A u \in Threads \ {t} : th'[u] = th[u]

(* Phases in which nobody may take the record over.                        *)
Taken(s) == s.phase \in Busy \ {"waiting_for_health"}

LEMMA GoMoves ==
  ASSUME TypeInv, NEW t \in Threads, NEW l, Go(t, l)
  PROVE  OnlyMoves(t) /\ th'[t].pc = l /\ th'[t].svc = th[t].svc
  BY DEF Go, OnlyMoves, TypeInv, TypeOK, ThreadType

LEMMA GoWithMoves ==
  ASSUME TypeInv, NEW t \in Threads, NEW l, NEW s, GoWith(t, l, s)
  PROVE  OnlyMoves(t) /\ th'[t].pc = l /\ th'[t].svc = s
  BY DEF GoWith, OnlyMoves, TypeInv, TypeOK, ThreadType

LEMMA DoneMoves ==
  ASSUME TypeInv, NEW t \in Threads, Done(t)
  PROVE  OnlyMoves(t) /\ th'[t].pc = "idle"
  BY DEF Done, Idle, OnlyMoves, TypeInv, TypeOK

LEMMA ClaimMoves ==
  ASSUME TypeInv, NEW t \in Threads, NEW l, NEW r, NEW s, NEW a, Claims(t, l, r, s, a)
  PROVE  OnlyMoves(t) /\ th'[t].pc = l /\ th'[t].svc = s /\ rec' = s
  BY DEF Claims, OnlyMoves, TypeInv, TypeOK

(* A thread that does not hold the record after the step.  It may have     *)
(* written it if it held it, or if nobody did.                             *)
LEMMA Released ==
  ASSUME OneWriter, NEW t \in Threads, OnlyMoves(t), tomb' = "none" => tomb = "none",
         th'[t].pc \notin HoldingLabels,
         rec' = rec \/ Holding(t) \/ ~Taken(rec)
  PROVE  OneWriter'
  <1> SUFFICES ASSUME tomb' = "none", NEW u \in Threads, Holding(u)'
               PROVE  /\ rec'.phase \in Busy \ {"waiting_for_health"}
                      /\ CopyIsCurrent(u)'
                      /\ \A v \in Threads : Holding(v)' => v = u
    BY DEF OneWriter
  <1>1. u # t /\ th'[u] = th[u] /\ Holding(u)
    BY DEF Holding, OnlyMoves
  <1>2. Taken(rec) /\ CopyIsCurrent(u) /\ \A v \in Threads : Holding(v) => v = u
    BY <1>1 DEF OneWriter, Taken
  <1>3. rec' = rec
    BY <1>1, <1>2
  <1>4. \A v \in Threads : Holding(v)' => v = u
    BY <1>2 DEF Holding, OnlyMoves
  <1> QED BY <1>1, <1>2, <1>3, <1>4 DEF Taken, CopyIsCurrent, At

(* A thread takes a record that nobody holds, or writes the one it holds,  *)
(* and keeps what it has written.                                          *)
LEMMA Written ==
  ASSUME OneWriter, NEW t \in Threads, OnlyMoves(t), tomb' = "none" => tomb = "none",
         Holding(t) \/ ~Taken(rec),
         Taken(rec'), th'[t].svc = rec', th'[t].pc # "failing"
  PROVE  OneWriter'
  <1> SUFFICES ASSUME tomb' = "none", NEW u \in Threads, Holding(u)'
               PROVE  /\ rec'.phase \in Busy \ {"waiting_for_health"}
                      /\ CopyIsCurrent(u)'
                      /\ \A v \in Threads : Holding(v)' => v = u
    BY DEF OneWriter
  <1>1. \A v \in Threads : Holding(v) => v = t
    BY DEF OneWriter, Taken
  <1>2. \A v \in Threads : Holding(v)' => v = t
    BY <1>1 DEF Holding, OnlyMoves
  <1>3. CopyIsCurrent(t)'
    BY DEF CopyIsCurrent, At
  <1> QED BY <1>2, <1>3 DEF Taken

(* A holder goes on with the copy it has, if only to record a failure.     *)
LEMMA Kept ==
  ASSUME TypeInv, OneWriter, NEW t \in Threads, OnlyMoves(t), tomb' = "none" => tomb = "none",
         Holding(t), th[t].pc # "failing", rec' = rec,
         \/ th'[t].svc = th[t].svc
         \/ /\ th'[t].pc = "failing"
            /\ \E x, y : th'[t].svc = [th[t].svc EXCEPT !.state = x, !.phase = y]
  PROVE  OneWriter'
  <1> SUFFICES ASSUME tomb' = "none", NEW u \in Threads, Holding(u)'
               PROVE  /\ rec'.phase \in Busy \ {"waiting_for_health"}
                      /\ CopyIsCurrent(u)'
                      /\ \A v \in Threads : Holding(v)' => v = u
    BY DEF OneWriter
  <1>1. /\ Taken(rec) /\ rec = th[t].svc
        /\ \A v \in Threads : Holding(v) => v = t
    BY DEF OneWriter, Taken, CopyIsCurrent, At
  <1>2. \A v \in Threads : Holding(v)' => v = t
    BY <1>1 DEF Holding, OnlyMoves
  <1>3. rec = [rec EXCEPT !.state = rec.state, !.phase = rec.phase]
    BY DEF TypeInv, TypeOK, RecType
  <1>4. \A x, y : rec = [[rec EXCEPT !.state = x, !.phase = y]
                           EXCEPT !.state = rec.state, !.phase = rec.phase]
    BY DEF TypeInv, TypeOK, RecType
  <1>5. CopyIsCurrent(t)'
    <2>1. CASE th'[t].svc = th[t].svc
      BY <1>1, <1>3, <2>1 DEF CopyIsCurrent, At
    <2>2. CASE /\ th'[t].pc = "failing"
               /\ \E x, y : th'[t].svc = [th[t].svc EXCEPT !.state = x, !.phase = y]
      <3>1. PICK x, y : th'[t].svc = [rec EXCEPT !.state = x, !.phase = y]
        BY <1>1, <2>2
      <3>2. rec = [th'[t].svc EXCEPT !.state = rec.state, !.phase = rec.phase]
        BY <1>4, <3>1
      <3> QED BY <2>2, <3>2 DEF CopyIsCurrent, At
    <2> QED BY <2>1, <2>2
  <1> QED BY <1>1, <1>2, <1>5 DEF Taken

(* A resume takes a record that nobody holds.                              *)
LEMMA ResumeTakes ==
  ASSUME TypeInv, OneWriter, NEW t \in Threads, NEW r, ResumeClaim(t, r), tomb' = tomb
  PROVE  OneWriter'
  <1> DEFINE s == [rec EXCEPT !.phase = "starting", !.op = "resume",
                              !.tgt = Opposite(rec.live), !.tver = rec.ver,
                              !.tdom = NoDomain]
  <1>1. ~Taken(rec)
    BY DEF ResumeClaim, Resumable, Taken
  <1>2. Taken(s)
    BY DEF Taken, Busy, TypeInv, TypeOK, RecType
  <1>3. OnlyMoves(t) /\ th'[t].pc = "isolate" /\ th'[t].svc = s /\ rec' = s
    BY ClaimMoves DEF ResumeClaim
  <1> QED BY <1>1, <1>2, <1>3, Written

LEMMA OneWriterStep ==
  ASSUME TypeInv, OneWriter, [Next]_vars
  PROVE  OneWriter'
<1>ProvisionLookup. ASSUME NEW t \in Threads, ProvisionLookup(t) PROVE OneWriter'
  BY <1>ProvisionLookup, GoMoves, Released DEF ProvisionLookup, HoldingLabels
<1>HasVersion. ASSUME NEW t \in Threads, HasVersion(t) PROVE OneWriter'
  BY <1>HasVersion, GoMoves, DoneMoves, Released
  DEF HasVersion, ClaimLabel, HoldingLabels
<1>ProvisionClaim. ASSUME NEW t \in Threads, ProvisionClaim(t) PROVE OneWriter'
  <2> DEFINE r == th[t].req
             again == [rec EXCEPT !.phase = "provisioning", !.op = "provision",
                                  !.tgt = "blue", !.tver = r.ver]
  <2>1. rec \in RecType
    BY DEF TypeInv, TypeOK
  <2>2. CASE rec = NoRec /\ Claims(t, "storage", r, FreshRecord(r), 0)
    <3>1. ~Taken(rec) /\ Taken(FreshRecord(r))
      BY <2>2 DEF Taken, NoRec, FreshRecord, Busy
    <3> QED BY <1>ProvisionClaim, <2>2, <3>1, ClaimMoves, Written DEF ProvisionClaim
  <2>3. CASE ProvisionRetries(rec, r) /\ Claims(t, "storage", r, again, 0)
    <3>1. ~Taken(rec) /\ Taken(again)
      BY <2>1, <2>3 DEF Taken, ProvisionRetries, Busy, RecType
    <3> QED BY <1>ProvisionClaim, <2>3, <3>1, ClaimMoves, Written DEF ProvisionClaim
  <2>4. CASE Done(t) /\ UNCHANGED rec
    BY <1>ProvisionClaim, <2>4, DoneMoves, Released DEF ProvisionClaim, HoldingLabels
  <2> QED BY <1>ProvisionClaim, <2>2, <2>3, <2>4 DEF ProvisionClaim, PutFails
<1>PrepareStorage. ASSUME NEW t \in Threads, PrepareStorage(t) PROVE OneWriter'
  <2>1. Holding(t) /\ th[t].pc # "failing"
    BY <1>PrepareStorage DEF PrepareStorage, At, Holding, HoldingLabels
  <2> QED BY <1>PrepareStorage, <2>1, GoMoves, Kept DEF PrepareStorage, Fails
<1>StartSlot. ASSUME NEW t \in Threads, StartSlot(t) PROVE OneWriter'
  <2>1. Holding(t) /\ th[t].pc # "failing"
    BY <1>StartSlot DEF StartSlot, At, Holding, HoldingLabels
  <2> QED BY <1>StartSlot, <2>1, GoMoves, Kept DEF StartSlot, Fails
<1>PutWaiting. ASSUME NEW t \in Threads, PutWaiting(t) PROVE OneWriter'
  <2>1. Holding(t) /\ th[t].pc # "failing"
    BY <1>PutWaiting DEF PutWaiting, At, Holding, HoldingLabels
  <2>2. CASE PutFails /\ Go(t, "failing")
    BY <1>PutWaiting, <2>1, <2>2, GoMoves, Kept DEF PutWaiting, PutFails
  <2>3. CASE ~(PutFails /\ Go(t, "failing"))
    <3>1. OnlyMoves(t) /\ th'[t].pc = "health"
      BY <1>PutWaiting, <2>3 DEF PutWaiting, OnlyMoves, TypeInv, TypeOK, ThreadType
    <3> QED BY <1>PutWaiting, <2>1, <3>1, Released DEF PutWaiting, HoldingLabels
  <2> QED BY <2>2, <2>3
<1>CheckHealth. ASSUME NEW t \in Threads, CheckHealth(t) PROVE OneWriter'
  <2>1. OnlyMoves(t) /\ th'[t].pc = "verdict"
    BY <1>CheckHealth, GoMoves DEF CheckHealth, OnlyMoves, TypeInv, TypeOK, ThreadType
  <2> QED BY <1>CheckHealth, <2>1, Released DEF CheckHealth, HoldingLabels
<1>HealthVerdict. ASSUME NEW t \in Threads, HealthVerdict(t) PROVE OneWriter'
  <2> DEFINE routing == [rec EXCEPT !.phase = "routing"]
  <2>1. ~VerdictApplies(t) => rec' = rec
    BY <1>HealthVerdict DEF HealthVerdict
  <2>2. VerdictApplies(t) => ~Taken(rec)
    BY DEF VerdictApplies, Taken
  <2>3. CASE Done(t)
    BY <1>HealthVerdict, <2>1, <2>2, <2>3, DoneMoves, Released
    DEF HealthVerdict, HoldingLabels
  <2>4. CASE VerdictApplies(t) /\ Puts(routing) /\ GoWith(t, "route", routing)
    <3>1. Taken(routing)
      BY DEF Taken, Busy, TypeInv, TypeOK, RecType
    <3> QED BY <1>HealthVerdict, <2>2, <2>4, <3>1, GoWithMoves, Written
            DEF HealthVerdict, Puts
  <2> QED BY <1>HealthVerdict, <2>3, <2>4 DEF HealthVerdict
<1>RouteTarget. ASSUME NEW t \in Threads, RouteTarget(t) PROVE OneWriter'
  <2>1. Holding(t) /\ th[t].pc # "failing"
    BY <1>RouteTarget DEF RouteTarget, At, Holding, HoldingLabels
  <2> QED BY <1>RouteTarget, <2>1, GoMoves, Kept DEF RouteTarget, Fails
<1>RemovePreviousSlot. ASSUME NEW t \in Threads, RemovePreviousSlot(t) PROVE OneWriter'
  <2>1. Holding(t) /\ th[t].pc # "failing"
    BY <1>RemovePreviousSlot DEF RemovePreviousSlot, At, Holding, HoldingLabels
  <2> QED BY <1>RemovePreviousSlot, <2>1, GoMoves, Kept DEF RemovePreviousSlot
<1>PutDraining. ASSUME NEW t \in Threads, PutDraining(t) PROVE OneWriter'
  <2> DEFINE s == [th[t].svc EXCEPT !.phase = "draining", !.tdom = NoDomain,
                                     !.dom = RoutingDomain(th[t].svc)]
  <2>1. Holding(t)
    BY <1>PutDraining DEF PutDraining, At, Holding, HoldingLabels
  <2>2. CASE Puts(s) /\ GoWith(t, "drain", s)
    <3>1. Taken(s)
      BY CopyType DEF Taken, Busy, RecType
    <3> QED BY <1>PutDraining, <2>1, <2>2, <3>1, GoWithMoves, Written
            DEF PutDraining, Puts
  <2>3. CASE Done(t)
    BY <1>PutDraining, <2>1, <2>3, DoneMoves, Released DEF PutDraining, HoldingLabels
  <2> QED BY <1>PutDraining, <2>2, <2>3 DEF PutDraining
<1>DrainOldDeploy. ASSUME NEW t \in Threads, DrainOldDeploy(t) PROVE OneWriter'
  <2>1. Holding(t) /\ th[t].pc # "failing"
    BY <1>DrainOldDeploy DEF DrainOldDeploy, At, Holding, HoldingLabels
  <2> QED BY <1>DrainOldDeploy, <2>1, GoMoves, Kept DEF DrainOldDeploy, Fails
<1>PutRunning. ASSUME NEW t \in Threads, PutRunning(t) PROVE OneWriter'
  <2>1. Holding(t)
    BY <1>PutRunning DEF PutRunning, At, Holding, HoldingLabels
  <2> QED BY <1>PutRunning, <2>1, DoneMoves, Released DEF PutRunning, HoldingLabels
<1>RecordFailure. ASSUME NEW t \in Threads, RecordFailure(t) PROVE OneWriter'
  <2>1. Holding(t)
    BY <1>RecordFailure DEF RecordFailure, At, Holding, HoldingLabels
  <2> QED BY <1>RecordFailure, <2>1, DoneMoves, Released
          DEF RecordFailure, HoldingLabels
<1>UpgradeFromCall. ASSUME NEW t \in Threads, UpgradeFromCall(t) PROVE OneWriter'
  BY <1>UpgradeFromCall, GoMoves, DoneMoves, Released DEF UpgradeFromCall, HoldingLabels
<1>UpgradeClaim. ASSUME NEW t \in Threads, UpgradeClaim(t) PROVE OneWriter'
  <2> DEFINE r == th[t].req
             s == UpgradeRecord(rec, r)
  <2>1. CASE UpgradeAllowed(rec, r) /\ Claims(t, "isolate", r, s, health.seq + 1)
    <3>1. ~Taken(rec)
      BY <2>1 DEF Taken, UpgradeAllowed, Replaceable
    <3>2. s.phase = "starting"
      BY CopyType, UpgradeRecordType DEF TypeInv, TypeOK
    <3>3. Taken(s)
      BY <3>2 DEF Taken, Busy
    <3> QED BY <1>UpgradeClaim, <2>1, <3>1, <3>3, ClaimMoves, Written DEF UpgradeClaim
  <2>2. CASE Done(t) /\ UNCHANGED rec
    BY <1>UpgradeClaim, <2>2, DoneMoves, Released DEF UpgradeClaim, HoldingLabels
  <2> QED BY <1>UpgradeClaim, <2>1, <2>2 DEF UpgradeClaim, PutFails
<1>EnsureIsolation. ASSUME NEW t \in Threads, EnsureIsolation(t) PROVE OneWriter'
  <2>1. Holding(t) /\ th[t].pc # "failing"
    BY <1>EnsureIsolation DEF EnsureIsolation, At, Holding, HoldingLabels
  <2> QED BY <1>EnsureIsolation, <2>1, GoMoves, Kept DEF EnsureIsolation, Fails, host
<1>RestoreLiveRoute. ASSUME NEW t \in Threads, RestoreLiveRoute(t) PROVE OneWriter'
  <2>1. Holding(t) /\ th[t].pc # "failing"
    BY <1>RestoreLiveRoute DEF RestoreLiveRoute, At, Holding, HoldingLabels
  <2> QED BY <1>RestoreLiveRoute, <2>1, GoMoves, Kept DEF RestoreLiveRoute, Fails
<1>RemoveTarget. ASSUME NEW t \in Threads, RemoveTarget(t) PROVE OneWriter'
  <2>1. Holding(t) /\ th[t].pc # "failing"
    BY <1>RemoveTarget DEF RemoveTarget, At, Holding, HoldingLabels
  <2> QED BY <1>RemoveTarget, <2>1, GoMoves, Kept DEF RemoveTarget, Fails
<1>Reconcile. ASSUME NEW t \in Threads, Reconcile(t) PROVE OneWriter'
  BY <1>Reconcile, GoMoves, DoneMoves, Released DEF Reconcile, HoldingLabels
<1>RedeployTerminated. ASSUME NEW t \in Threads, RedeployTerminated(t) PROVE OneWriter'
  <2>1. rec' = rec \/ ~Taken(rec)
    BY <1>RedeployTerminated DEF RedeployTerminated, PutFails, Taken, Busy
  <2> QED BY <1>RedeployTerminated, <2>1, GoMoves, DoneMoves, Released
          DEF RedeployTerminated, HoldingLabels
<1>DeployDomains. ASSUME NEW t \in Threads, DeployDomains(t) PROVE OneWriter'
  BY <1>DeployDomains, GoWithMoves, DoneMoves, Released DEF DeployDomains, HoldingLabels
<1>ApplyDomains. ASSUME NEW t \in Threads, ApplyDomains(t) PROVE OneWriter'
  <2>1. th[t].svc.phase \in {"running", "stopped"}
    BY <1>ApplyDomains DEF ApplyDomains, At, TypeInv, LocalOK
  <2>2. rec' = rec \/ ~Taken(rec)
    BY <1>ApplyDomains, <2>1 DEF ApplyDomains, UnchangedSince, Taken, Busy
  <2> QED BY <1>ApplyDomains, <2>2, DoneMoves, Released DEF ApplyDomains, HoldingLabels
<1>ResumeFromCall. ASSUME NEW t \in Threads, ResumeFromCall(t) PROVE OneWriter'
  <2>1. CASE ResumeClaim(t, th[t].req)
    BY <1>ResumeFromCall, <2>1, ResumeTakes DEF ResumeFromCall
  <2>2. CASE Done(t) /\ UNCHANGED rec
    BY <1>ResumeFromCall, <2>2, DoneMoves, Released DEF ResumeFromCall, HoldingLabels
  <2> QED BY <1>ResumeFromCall, <2>1, <2>2 DEF ResumeFromCall, PutFails
<1>StopContainers. ASSUME NEW t \in Threads, StopContainers(t) PROVE OneWriter'
  <2>1. Holding(t) /\ th[t].pc # "failing"
    BY <1>StopContainers DEF StopContainers, At, Holding, HoldingLabels
  <2> QED BY <1>StopContainers, <2>1, GoMoves, Kept DEF StopContainers, Fails
<1>PutTargetState. ASSUME NEW t \in Threads, PutTargetState(t) PROVE OneWriter'
  <2> DEFINE s == [th[t].svc EXCEPT !.state = th[t].svc.op, !.phase = "routing"]
  <2>1. Holding(t) /\ th[t].pc # "failing"
    BY <1>PutTargetState DEF PutTargetState, At, Holding, HoldingLabels
  <2>2. CASE Puts(s) /\ GoWith(t, "settle", s)
    <3>1. Taken(s)
      BY CopyType DEF Taken, Busy, RecType
    <3> QED BY <1>PutTargetState, <2>1, <2>2, <3>1, GoWithMoves, Written
            DEF PutTargetState, Puts
  <2>3. CASE PutFails /\ GoWith(t, "failing", s)
    <3>1. OnlyMoves(t) /\ th'[t].pc = "failing" /\ th'[t].svc = s
      BY <2>3, GoWithMoves
    <3>2. \E x, y : th'[t].svc = [th[t].svc EXCEPT !.state = x, !.phase = y]
      BY <3>1
    <3> QED BY <1>PutTargetState, <2>1, <2>3, <3>1, <3>2, Kept
            DEF PutTargetState, PutFails
  <2> QED BY <1>PutTargetState, <2>2, <2>3 DEF PutTargetState
<1>FinishRouting. ASSUME NEW t \in Threads, FinishRouting(t) PROVE OneWriter'
  <2>1. Holding(t) /\ th[t].pc # "failing"
    BY <1>FinishRouting DEF FinishRouting, At, Holding, HoldingLabels
  <2>2. CASE GoWith(t, "unroute", rec)
    <3>1. tomb = "none" => rec = th[t].svc
      BY <1>FinishRouting, <2>1 DEF OneWriter, CopyIsCurrent, At
    <3>2. tomb # "none" => OneWriter'
      BY <1>FinishRouting DEF FinishRouting, OneWriter
    <3> QED BY <1>FinishRouting, <2>1, <2>2, <3>1, <3>2, GoWithMoves, Kept
            DEF FinishRouting
  <2>3. CASE Done(t)
    BY <1>FinishRouting, <2>3, DoneMoves, Released DEF FinishRouting, HoldingLabels
  <2> QED BY <1>FinishRouting, <2>2, <2>3 DEF FinishRouting
<1>Unroute. ASSUME NEW t \in Threads, Unroute(t) PROVE OneWriter'
  <2>1. Holding(t) /\ th[t].pc # "failing"
    BY <1>Unroute DEF Unroute, At, Holding, HoldingLabels
  <2> QED BY <1>Unroute, <2>1, GoMoves, Kept DEF Unroute, Fails
<1>PutStopped. ASSUME NEW t \in Threads, PutStopped(t) PROVE OneWriter'
  <2>1. Holding(t)
    BY <1>PutStopped DEF PutStopped, At, Holding, HoldingLabels
  <2> QED BY <1>PutStopped, <2>1, DoneMoves, Released DEF PutStopped, HoldingLabels
<1>RemoveContainers. ASSUME NEW t \in Threads, RemoveContainers(t) PROVE OneWriter'
  <2>1. Holding(t) /\ th[t].pc # "failing"
    BY <1>RemoveContainers DEF RemoveContainers, At, Holding, HoldingLabels
  <2> QED BY <1>RemoveContainers, <2>1, GoMoves, Kept DEF RemoveContainers, Fails
<1>RemoveRoute. ASSUME NEW t \in Threads, RemoveRoute(t) PROVE OneWriter'
  <2>1. Holding(t) /\ th[t].pc # "failing"
    BY <1>RemoveRoute DEF RemoveRoute, At, Holding, HoldingLabels
  <2> QED BY <1>RemoveRoute, <2>1, GoMoves, Kept DEF RemoveRoute, Fails
<1>DestroyDataset. ASSUME NEW t \in Threads, DestroyDataset(t) PROVE OneWriter'
  <2>1. Holding(t) /\ th[t].pc # "failing"
    BY <1>DestroyDataset DEF DestroyDataset, At, Holding, HoldingLabels
  <2> QED BY <1>DestroyDataset, <2>1, GoMoves, Kept DEF DestroyDataset, Fails
<1>RemoveMountpoint. ASSUME NEW t \in Threads, RemoveMountpoint(t) PROVE OneWriter'
  <2>1. Holding(t) /\ th[t].pc # "failing"
    BY <1>RemoveMountpoint DEF RemoveMountpoint, At, Holding, HoldingLabels
  <2> QED BY <1>RemoveMountpoint, <2>1, GoMoves, Kept DEF RemoveMountpoint, Fails
<1>Bury. ASSUME NEW t \in Threads, Bury(t) PROVE OneWriter'
  <2>1. CASE tomb' = "deleting"
    BY <2>1 DEF OneWriter
  <2>2. CASE Done(t) /\ UNCHANGED <<rec, tomb>>
    BY <2>2, DoneMoves, Released DEF HoldingLabels
  <2> QED BY <1>Bury, <2>1, <2>2 DEF Bury, PutFails
<1>FinishDelete. ASSUME NEW t \in Threads, FinishDelete(t) PROVE OneWriter'
  BY <1>FinishDelete, GoMoves, Released DEF FinishDelete, HoldingLabels
<1>PutTombstone. ASSUME NEW t \in Threads, PutTombstone(t) PROVE OneWriter'
  <2>1. CASE tomb' # "none"
    BY <2>1 DEF OneWriter
  <2>2. CASE tomb' = "none"
    <3>1. tomb = "none" /\ rec' = rec /\ Done(t)
      BY <1>PutTombstone, <2>2 DEF PutTombstone
    <3> QED BY <3>1, DoneMoves, Released DEF HoldingLabels
  <2> QED BY <2>1, <2>2
<1>Provision. ASSUME NEW t \in Threads, Provision(t) PROVE OneWriter'
  <2>1. OnlyMoves(t) /\ th'[t].pc = "lookup"
    BY <1>Provision DEF Provision, OnlyMoves, TypeInv, TypeOK, ThreadType
  <2> QED BY <1>Provision, <2>1, Released DEF Provision, HoldingLabels
<1>Upgrade. ASSUME NEW t \in Threads, Upgrade(t) PROVE OneWriter'
  <2>1. OnlyMoves(t) /\ th'[t].pc = "upgradeImage"
    BY <1>Upgrade DEF Upgrade, OnlyMoves, TypeInv, TypeOK, ThreadType
  <2> QED BY <1>Upgrade, <2>1, Released DEF Upgrade, HoldingLabels
<1>Resume. ASSUME NEW t \in Threads, Resume(t) PROVE OneWriter'
  <2>1. PICK r \in Requests : ResumeClaim(t, r) \/ ResumeRedeploys(t, r)
    BY <1>Resume DEF Resume
  <2>2. CASE ResumeClaim(t, r)
    BY <1>Resume, <2>2, ResumeTakes DEF Resume
  <2>3. CASE ResumeRedeploys(t, r)
    <3>1. OnlyMoves(t) /\ th'[t].pc = "upgrade" /\ rec' = rec
      BY <2>3 DEF ResumeRedeploys, OnlyMoves, TypeInv, TypeOK, ThreadType
    <3> QED BY <1>Resume, <3>1, Released DEF Resume, HoldingLabels
  <2> QED BY <2>1, <2>2, <2>3
<1>ChangeState. ASSUME NEW t \in Threads, ChangeState(t) PROVE OneWriter'
  <2>1. PICK r \in Requests :
          /\ StateChangeAllowed(rec, TargetState[r.kind])
          /\ Claims(t, "stop", r, [rec EXCEPT !.phase = "stopping", !.tdom = NoDomain,
                                              !.op = TargetState[r.kind]], 0)
    BY <1>ChangeState DEF ChangeState
  <2> DEFINE s == [rec EXCEPT !.phase = "stopping", !.tdom = NoDomain,
                              !.op = TargetState[r.kind]]
  <2>2. ~Taken(rec)
    BY <2>1 DEF StateChangeAllowed, Replaceable, Taken
  <2>3. Taken(s)
    BY DEF Taken, Busy, TypeInv, TypeOK, RecType
  <2>4. OnlyMoves(t) /\ th'[t].pc = "stop" /\ th'[t].svc = s /\ rec' = s
    BY <2>1, ClaimMoves
  <2> QED BY <1>ChangeState, <2>2, <2>3, <2>4, Written DEF ChangeState
<1>Delete. ASSUME NEW t \in Threads, Delete(t) PROVE OneWriter'
  <2> DEFINE s == [rec EXCEPT !.phase = "deleting", !.op = "delete"]
  <2>1. CASE tomb' # "none"
    BY <2>1 DEF OneWriter
  <2>2. CASE tomb' = "none"
    <3>1. PICK r \in Requests : tomb = "none" /\ Deletable(rec) /\ Claims(t, "wipe", r, s, 0)
      BY <1>Delete, <2>2 DEF Delete
    <3>2. ~Taken(rec) /\ Taken(s)
      BY <3>1 DEF Deletable, Taken, Busy, TypeInv, TypeOK, RecType
    <3>3. OnlyMoves(t) /\ th'[t].pc = "wipe" /\ th'[t].svc = s /\ rec' = s
      BY <3>1, ClaimMoves
    <3> QED BY <3>1, <3>2, <3>3, Written
  <2> QED BY <2>1, <2>2
<1>Restart. ASSUME Restart PROVE OneWriter'
  BY <1>Restart DEF Restart, Idle, OneWriter, Holding, HoldingLabels
<1>Stutter. ASSUME UNCHANGED vars PROVE OneWriter'
  BY <1>Stutter DEF vars, OneWriter, Holding, CopyIsCurrent, At
<1> QED
  BY <1>ProvisionLookup, <1>HasVersion, <1>ProvisionClaim, <1>PrepareStorage,
     <1>StartSlot, <1>PutWaiting, <1>CheckHealth, <1>HealthVerdict, <1>RouteTarget,
     <1>RemovePreviousSlot, <1>PutDraining, <1>DrainOldDeploy, <1>PutRunning,
     <1>RecordFailure, <1>UpgradeFromCall, <1>UpgradeClaim, <1>EnsureIsolation,
     <1>RestoreLiveRoute, <1>RemoveTarget, <1>Reconcile, <1>RedeployTerminated,
     <1>DeployDomains, <1>ApplyDomains, <1>ResumeFromCall, <1>StopContainers,
     <1>PutTargetState, <1>FinishRouting, <1>Unroute, <1>PutStopped,
     <1>RemoveContainers, <1>RemoveRoute, <1>DestroyDataset, <1>RemoveMountpoint,
     <1>Bury, <1>FinishDelete, <1>PutTombstone, <1>Provision, <1>Upgrade, <1>Resume,
     <1>ChangeState, <1>Delete,
     <1>Restart, <1>Stutter
  DEF Next, Call, Work

(* However many calls are in flight, whatever fails and whenever the       *)
(* controller dies: until a service has a tombstone nobody writes over a   *)
(* record that another thread has changed since it was read, although      *)
(* Manager.mu is released around every external call (manager.go:287-329,  *)
(* 628-656, 1081-1187, 1213-1366).                                         *)
THEOREM OneWriterHolds == Spec => []OneWriter
  <1>1. Init => OneWriter
    BY DEF Init, OneWriter, Holding, HoldingLabels, Idle
  <1>2. TypeInv /\ OneWriter /\ [Next]_vars => OneWriter'
    BY OneWriterStep
  <1> QED BY <1>1, <1>2, StrongTypes, PTL DEF Spec

-----------------------------------------------------------------------------
(* Customer data is destroyed last: DestroyIsLast, from OneWriter.         *)

(* A thread that deletes a service, before and after it writes the         *)
(* tombstone.                                                              *)
WipeLabels == {"wipe", "unserve", "destroy", "unmount", "bury"}
BuriedLabels == {"finishDelete", "buried", "unburied"}

Deleting(t) ==
  /\ tomb = "none"
  /\ th[t].svc.state = "terminated" /\ th[t].svc.phase = "deleting"
  /\ th[t].pc # "wipe" => \A s \in Slots : ctr[s] = NoCtr
  /\ th[t].pc \notin {"wipe", "unserve"} => route = NoRoute

(* What is gone when a delete has come to a label, and stays gone: nobody  *)
(* else may start a container or load a route meanwhile.                   *)
DeleteInv ==
  \A t \in Threads :
    /\ th[t].pc \in WipeLabels => Deleting(t)
    /\ th[t].pc \in BuriedLabels => tomb # "none"

(* A step of a thread that does not delete: it holds the record, and then  *)
(* nobody deletes, or it leaves the containers, the route and the          *)
(* tombstone as they are.                                                  *)
LEMMA Undisturbed ==
  ASSUME OneWriter, DeleteInv, NEW t \in Threads, OnlyMoves(t),
         th'[t].pc \notin WipeLabels,
         th'[t].pc \in BuriedLabels => tomb' # "none",
         tomb # "none" => tomb' # "none",
         Holding(t) \/ UNCHANGED <<ctr, route, tomb>>
  PROVE  DeleteInv'
  <1> SUFFICES ASSUME NEW u \in Threads
               PROVE  /\ th'[u].pc \in WipeLabels => Deleting(u)'
                      /\ th'[u].pc \in BuriedLabels => tomb' # "none"
    BY DEF DeleteInv
  <1>1. CASE u = t
    BY <1>1
  <1>2. CASE u # t
    <2>1. th'[u] = th[u]
      BY <1>2 DEF OnlyMoves
    <2>2. th[u].pc \in BuriedLabels => tomb # "none"
      BY DEF DeleteInv
    <2>3. ASSUME th[u].pc \in WipeLabels PROVE Deleting(u)'
      <3>1. Deleting(u)
        BY <2>3 DEF DeleteInv
      <3>2. Holding(u)
        BY <2>3 DEF Holding, HoldingLabels, WipeLabels
      <3>3. ~Holding(t)
        BY <1>2, <3>1, <3>2 DEF OneWriter, Deleting
      <3> QED BY <2>1, <3>1, <3>3 DEF Deleting
    <2> QED BY <2>1, <2>2, <2>3
  <1> QED BY <1>1, <1>2

(* A step of the thread that deletes.                                      *)
LEMMA Deletes ==
  ASSUME OneWriter, DeleteInv, NEW t \in Threads, OnlyMoves(t),
         Holding(t) \/ ~Taken(rec), tomb = "none",
         th'[t].pc \in WipeLabels, Deleting(t)'
  PROVE  DeleteInv'
  <1> SUFFICES ASSUME NEW u \in Threads, u # t
               PROVE  /\ th'[u].pc \in WipeLabels => Deleting(u)'
                      /\ th'[u].pc \in BuriedLabels => tomb' # "none"
    BY DEF DeleteInv, WipeLabels, BuriedLabels
  <1>1. th'[u] = th[u]
    BY DEF OnlyMoves
  <1>2. th[u].pc \notin BuriedLabels
    BY DEF DeleteInv
  <1>3. th[u].pc \notin WipeLabels
    BY DEF OneWriter, Taken, Holding, HoldingLabels, WipeLabels
  <1> QED BY <1>1, <1>2, <1>3

(* Once there is a tombstone nobody deletes.                               *)
LEMMA NobodyDeletes ==
  ASSUME DeleteInv, NEW t \in Threads, OnlyMoves(t), tomb # "none", tomb' # "none",
         th'[t].pc \notin WipeLabels
  PROVE  DeleteInv'
  <1>1. \A u \in Threads : th[u].pc \notin WipeLabels
    BY DEF DeleteInv, Deleting
  <1>2. \A u \in Threads : th'[u].pc \notin WipeLabels
    BY <1>1 DEF OnlyMoves
  <1> QED BY <1>2 DEF DeleteInv

LEMMA DeleteInvStep ==
  ASSUME TypeInv, OneWriter, DeleteInv, [Next]_vars
  PROVE  DeleteInv'
<1>ProvisionLookup. ASSUME NEW t \in Threads, ProvisionLookup(t) PROVE DeleteInv'
  BY <1>ProvisionLookup, GoMoves, Undisturbed
  DEF ProvisionLookup, host, WipeLabels, BuriedLabels
<1>HasVersion. ASSUME NEW t \in Threads, HasVersion(t) PROVE DeleteInv'
  BY <1>HasVersion, GoMoves, DoneMoves, Undisturbed
  DEF HasVersion, ClaimLabel, host, WipeLabels, BuriedLabels
<1>ProvisionClaim. ASSUME NEW t \in Threads, ProvisionClaim(t) PROVE DeleteInv'
  BY <1>ProvisionClaim, ClaimMoves, DoneMoves, Undisturbed
  DEF ProvisionClaim, host, WipeLabels, BuriedLabels
<1>PrepareStorage. ASSUME NEW t \in Threads, PrepareStorage(t) PROVE DeleteInv'
  <2>1. Holding(t)
    BY <1>PrepareStorage DEF PrepareStorage, At, Holding, HoldingLabels
  <2> QED BY <1>PrepareStorage, <2>1, GoMoves, Undisturbed
          DEF PrepareStorage, Fails, WipeLabels, BuriedLabels
<1>StartSlot. ASSUME NEW t \in Threads, StartSlot(t) PROVE DeleteInv'
  <2>1. Holding(t)
    BY <1>StartSlot DEF StartSlot, At, Holding, HoldingLabels
  <2> QED BY <1>StartSlot, <2>1, GoMoves, Undisturbed
          DEF StartSlot, Fails, WipeLabels, BuriedLabels
<1>PutWaiting. ASSUME NEW t \in Threads, PutWaiting(t) PROVE DeleteInv'
  <2>1. Holding(t)
    BY <1>PutWaiting DEF PutWaiting, At, Holding, HoldingLabels
  <2>2. OnlyMoves(t) /\ th'[t].pc \in {"health", "failing"}
    BY <1>PutWaiting, GoMoves DEF PutWaiting, OnlyMoves, TypeInv, TypeOK, ThreadType
  <2> QED BY <1>PutWaiting, <2>1, <2>2, Undisturbed
          DEF PutWaiting, host, WipeLabels, BuriedLabels
<1>CheckHealth. ASSUME NEW t \in Threads, CheckHealth(t) PROVE DeleteInv'
  <2>1. OnlyMoves(t) /\ th'[t].pc = "verdict"
    BY <1>CheckHealth, GoMoves DEF CheckHealth, OnlyMoves, TypeInv, TypeOK, ThreadType
  <2>2. CASE UNCHANGED ctr
    BY <1>CheckHealth, <2>1, <2>2, Undisturbed DEF CheckHealth, WipeLabels, BuriedLabels
  <2>3. CASE ctr' # ctr
    <3>1. \E s \in Slots : ctr[s] # NoCtr
      <4>1. /\ ctr[th[t].svc.tgt].up = "running" /\ th[t].svc.tgt \in Slots
        BY <1>CheckHealth, <2>3 DEF CheckHealth, At, TypeInv, LocalOK, TargetLabels
      <4> QED BY <4>1 DEF NoCtr
    <3>2. ASSUME NEW u \in Threads, th'[u].pc \in WipeLabels PROVE Deleting(u)'
      <4>1. u # t /\ th'[u] = th[u]
        BY <2>1, <3>2 DEF OnlyMoves, WipeLabels
      <4>2. Deleting(u)
        BY <3>2, <4>1 DEF DeleteInv
      <4>3. th[u].pc = "wipe"
        BY <3>1, <4>2 DEF Deleting
      <4> QED BY <1>CheckHealth, <4>1, <4>2, <4>3 DEF CheckHealth, Deleting
    <3>3. ASSUME NEW u \in Threads, th'[u].pc \in BuriedLabels PROVE tomb' # "none"
      BY <1>CheckHealth, <2>1, <3>3 DEF CheckHealth, DeleteInv, OnlyMoves, BuriedLabels
    <3> QED BY <3>2, <3>3 DEF DeleteInv
  <2> QED BY <2>2, <2>3
<1>HealthVerdict. ASSUME NEW t \in Threads, HealthVerdict(t) PROVE DeleteInv'
  BY <1>HealthVerdict, GoWithMoves, DoneMoves, Undisturbed
  DEF HealthVerdict, host, WipeLabels, BuriedLabels
<1>RouteTarget. ASSUME NEW t \in Threads, RouteTarget(t) PROVE DeleteInv'
  <2>1. Holding(t)
    BY <1>RouteTarget DEF RouteTarget, At, Holding, HoldingLabels
  <2>2. th[t].svc.op \in Deploys
    BY <1>RouteTarget DEF RouteTarget, At, TypeInv, LocalOK, TargetLabels
  <2>3. AfterRoute[th[t].svc.op] \in {"putRunning", "removeOld", "putDraining"}
    BY <2>2 DEF AfterRoute, Deploys
  <2> QED BY <1>RouteTarget, <2>1, <2>3, GoMoves, Undisturbed
          DEF RouteTarget, Fails, WipeLabels, BuriedLabels
<1>RemovePreviousSlot. ASSUME NEW t \in Threads, RemovePreviousSlot(t) PROVE DeleteInv'
  <2>1. Holding(t)
    BY <1>RemovePreviousSlot DEF RemovePreviousSlot, At, Holding, HoldingLabels
  <2> QED BY <1>RemovePreviousSlot, <2>1, GoMoves, Undisturbed
          DEF RemovePreviousSlot, WipeLabels, BuriedLabels
<1>PutDraining. ASSUME NEW t \in Threads, PutDraining(t) PROVE DeleteInv'
  <2>1. Holding(t)
    BY <1>PutDraining DEF PutDraining, At, Holding, HoldingLabels
  <2> QED BY <1>PutDraining, <2>1, GoWithMoves, DoneMoves, Undisturbed
          DEF PutDraining, host, WipeLabels, BuriedLabels
<1>DrainOldDeploy. ASSUME NEW t \in Threads, DrainOldDeploy(t) PROVE DeleteInv'
  <2>1. Holding(t)
    BY <1>DrainOldDeploy DEF DrainOldDeploy, At, Holding, HoldingLabels
  <2> QED BY <1>DrainOldDeploy, <2>1, GoMoves, Undisturbed
          DEF DrainOldDeploy, Fails, WipeLabels, BuriedLabels
<1>PutRunning. ASSUME NEW t \in Threads, PutRunning(t) PROVE DeleteInv'
  <2>1. Holding(t)
    BY <1>PutRunning DEF PutRunning, At, Holding, HoldingLabels
  <2> QED BY <1>PutRunning, <2>1, DoneMoves, Undisturbed
          DEF PutRunning, host, WipeLabels, BuriedLabels
<1>RecordFailure. ASSUME NEW t \in Threads, RecordFailure(t) PROVE DeleteInv'
  <2>1. Holding(t)
    BY <1>RecordFailure DEF RecordFailure, At, Holding, HoldingLabels
  <2> QED BY <1>RecordFailure, <2>1, DoneMoves, Undisturbed
          DEF RecordFailure, host, WipeLabels, BuriedLabels
<1>UpgradeFromCall. ASSUME NEW t \in Threads, UpgradeFromCall(t) PROVE DeleteInv'
  BY <1>UpgradeFromCall, GoMoves, DoneMoves, Undisturbed
  DEF UpgradeFromCall, host, WipeLabels, BuriedLabels
<1>UpgradeClaim. ASSUME NEW t \in Threads, UpgradeClaim(t) PROVE DeleteInv'
  BY <1>UpgradeClaim, ClaimMoves, DoneMoves, Undisturbed
  DEF UpgradeClaim, host, WipeLabels, BuriedLabels
<1>EnsureIsolation. ASSUME NEW t \in Threads, EnsureIsolation(t) PROVE DeleteInv'
  <2>1. Holding(t)
    BY <1>EnsureIsolation DEF EnsureIsolation, At, Holding, HoldingLabels
  <2> QED BY <1>EnsureIsolation, <2>1, GoMoves, Undisturbed
          DEF EnsureIsolation, Fails, host, WipeLabels, BuriedLabels
<1>RestoreLiveRoute. ASSUME NEW t \in Threads, RestoreLiveRoute(t) PROVE DeleteInv'
  <2>1. Holding(t)
    BY <1>RestoreLiveRoute DEF RestoreLiveRoute, At, Holding, HoldingLabels
  <2> QED BY <1>RestoreLiveRoute, <2>1, GoMoves, Undisturbed
          DEF RestoreLiveRoute, Fails, WipeLabels, BuriedLabels
<1>RemoveTarget. ASSUME NEW t \in Threads, RemoveTarget(t) PROVE DeleteInv'
  <2>1. Holding(t)
    BY <1>RemoveTarget DEF RemoveTarget, At, Holding, HoldingLabels
  <2> QED BY <1>RemoveTarget, <2>1, GoMoves, Undisturbed
          DEF RemoveTarget, Fails, WipeLabels, BuriedLabels
<1>Reconcile. ASSUME NEW t \in Threads, Reconcile(t) PROVE DeleteInv'
  BY <1>Reconcile, GoMoves, DoneMoves, Undisturbed
  DEF Reconcile, host, WipeLabels, BuriedLabels
<1>RedeployTerminated. ASSUME NEW t \in Threads, RedeployTerminated(t) PROVE DeleteInv'
  BY <1>RedeployTerminated, GoMoves, DoneMoves, Undisturbed
  DEF RedeployTerminated, host, WipeLabels, BuriedLabels
<1>DeployDomains. ASSUME NEW t \in Threads, DeployDomains(t) PROVE DeleteInv'
  BY <1>DeployDomains, GoWithMoves, DoneMoves, Undisturbed
  DEF DeployDomains, host, WipeLabels, BuriedLabels
<1>ApplyDomains. ASSUME NEW t \in Threads, ApplyDomains(t) PROVE DeleteInv'
  <2>1. OnlyMoves(t) /\ th'[t].pc = "idle"
    BY <1>ApplyDomains, DoneMoves DEF ApplyDomains
  <2>2. CASE route' = route
    BY <1>ApplyDomains, <2>1, <2>2, Undisturbed
    DEF ApplyDomains, WipeLabels, BuriedLabels
  <2>3. CASE route' # route
    <3>1. rec.phase \in {"running", "stopped"}
      BY <1>ApplyDomains, <2>3 DEF ApplyDomains, UnchangedSince, At, TypeInv, LocalOK
    <3>2. ASSUME NEW u \in Threads, th[u].pc \in WipeLabels PROVE FALSE
      BY <3>1, <3>2
      DEF DeleteInv, Deleting, OneWriter, Holding, HoldingLabels, WipeLabels, Busy
    <3>3. ASSUME NEW u \in Threads
          PROVE  th'[u].pc \notin WipeLabels /\ (th'[u].pc \in BuriedLabels => tomb' # "none")
      <4>1. CASE u = t
        BY <2>1, <4>1 DEF WipeLabels, BuriedLabels
      <4>2. CASE u # t
        BY <1>ApplyDomains, <2>1, <3>2, <4>2 DEF ApplyDomains, DeleteInv, OnlyMoves
      <4> QED BY <4>1, <4>2
    <3> QED BY <3>3 DEF DeleteInv
  <2> QED BY <2>2, <2>3
<1>ResumeFromCall. ASSUME NEW t \in Threads, ResumeFromCall(t) PROVE DeleteInv'
  BY <1>ResumeFromCall, ClaimMoves, DoneMoves, Undisturbed
  DEF ResumeFromCall, ResumeClaim, host, WipeLabels, BuriedLabels
<1>StopContainers. ASSUME NEW t \in Threads, StopContainers(t) PROVE DeleteInv'
  <2>1. Holding(t)
    BY <1>StopContainers DEF StopContainers, At, Holding, HoldingLabels
  <2> QED BY <1>StopContainers, <2>1, GoMoves, Undisturbed
          DEF StopContainers, Fails, WipeLabels, BuriedLabels
<1>PutTargetState. ASSUME NEW t \in Threads, PutTargetState(t) PROVE DeleteInv'
  <2>1. Holding(t)
    BY <1>PutTargetState DEF PutTargetState, At, Holding, HoldingLabels
  <2> QED BY <1>PutTargetState, <2>1, GoWithMoves, Undisturbed
          DEF PutTargetState, host, WipeLabels, BuriedLabels
<1>FinishRouting. ASSUME NEW t \in Threads, FinishRouting(t) PROVE DeleteInv'
  <2>1. Holding(t)
    BY <1>FinishRouting DEF FinishRouting, At, Holding, HoldingLabels
  <2> QED BY <1>FinishRouting, <2>1, GoWithMoves, DoneMoves, Undisturbed
          DEF FinishRouting, host, WipeLabels, BuriedLabels
<1>Unroute. ASSUME NEW t \in Threads, Unroute(t) PROVE DeleteInv'
  <2>1. Holding(t)
    BY <1>Unroute DEF Unroute, At, Holding, HoldingLabels
  <2> QED BY <1>Unroute, <2>1, GoMoves, Undisturbed
          DEF Unroute, Fails, WipeLabels, BuriedLabels
<1>PutStopped. ASSUME NEW t \in Threads, PutStopped(t) PROVE DeleteInv'
  <2>1. Holding(t)
    BY <1>PutStopped DEF PutStopped, At, Holding, HoldingLabels
  <2> QED BY <1>PutStopped, <2>1, DoneMoves, Undisturbed
          DEF PutStopped, host, WipeLabels, BuriedLabels
<1>RemoveContainers. ASSUME NEW t \in Threads, RemoveContainers(t) PROVE DeleteInv'
  <2>1. Holding(t) /\ Deleting(t)
    BY <1>RemoveContainers
    DEF RemoveContainers, At, Holding, HoldingLabels, DeleteInv, WipeLabels
  <2>2. CASE Go(t, "unserve")
    <3>1. \A s \in Slots : ctr'[s] = NoCtr
      <4>1. "failing" # "unserve" /\ ~Go(t, "failing")
        BY <2>2, GoMoves
      <4> QED BY <1>RemoveContainers, <4>1
              DEF RemoveContainers, Fails, StopSlots, Stopped
    <3>2. OnlyMoves(t) /\ th'[t].pc = "unserve" /\ th'[t].svc = th[t].svc
      BY <2>2, GoMoves
    <3>3. tomb' = tomb
      BY <1>RemoveContainers DEF RemoveContainers
    <3>4. Deleting(t)'
      BY <2>1, <3>1, <3>2, <3>3 DEF Deleting
    <3> QED BY <2>1, <3>2, <3>4, Deletes DEF Deleting, WipeLabels
  <2>3. CASE Go(t, "failing")
    BY <1>RemoveContainers, <2>1, <2>3, GoMoves, Undisturbed
    DEF RemoveContainers, WipeLabels, BuriedLabels
  <2> QED BY <1>RemoveContainers, <2>2, <2>3 DEF RemoveContainers, Fails
<1>RemoveRoute. ASSUME NEW t \in Threads, RemoveRoute(t) PROVE DeleteInv'
  <2>1. Holding(t) /\ Deleting(t)
    BY <1>RemoveRoute DEF RemoveRoute, At, Holding, HoldingLabels, DeleteInv, WipeLabels
  <2>2. CASE Go(t, "destroy")
    <3>1. ctr' = ctr /\ route' = NoRoute
      <4>1. ~Go(t, "failing")
        BY <2>2, GoMoves
      <4> QED BY <1>RemoveRoute, <4>1 DEF RemoveRoute, Fails
    <3>2. OnlyMoves(t) /\ th'[t].pc = "destroy" /\ th'[t].svc = th[t].svc
      BY <2>2, GoMoves
    <3>3. tomb' = tomb
      BY <1>RemoveRoute DEF RemoveRoute
    <3>4. Deleting(t)'
      BY <1>RemoveRoute, <2>1, <3>1, <3>2, <3>3 DEF RemoveRoute, At, Deleting
    <3> QED BY <2>1, <3>2, <3>4, Deletes DEF Deleting, WipeLabels
  <2>3. CASE Go(t, "failing")
    BY <1>RemoveRoute, <2>1, <2>3, GoMoves, Undisturbed
    DEF RemoveRoute, WipeLabels, BuriedLabels
  <2> QED BY <1>RemoveRoute, <2>2, <2>3 DEF RemoveRoute, Fails
<1>DestroyDataset. ASSUME NEW t \in Threads, DestroyDataset(t) PROVE DeleteInv'
  <2>1. Holding(t) /\ Deleting(t)
    BY <1>DestroyDataset
    DEF DestroyDataset, At, Holding, HoldingLabels, DeleteInv, WipeLabels
  <2>2. CASE Go(t, "unmount")
    <3>1. UNCHANGED <<ctr, route>>
      BY <1>DestroyDataset DEF DestroyDataset
    <3>2. OnlyMoves(t) /\ th'[t].pc = "unmount" /\ th'[t].svc = th[t].svc
      BY <2>2, GoMoves
    <3>3. tomb' = tomb
      BY <1>DestroyDataset DEF DestroyDataset
    <3>4. Deleting(t)'
      BY <1>DestroyDataset, <2>1, <3>1, <3>2, <3>3 DEF DestroyDataset, At, Deleting
    <3> QED BY <2>1, <3>2, <3>4, Deletes DEF Deleting, WipeLabels
  <2>3. CASE Go(t, "failing")
    BY <1>DestroyDataset, <2>1, <2>3, GoMoves, Undisturbed
    DEF DestroyDataset, WipeLabels, BuriedLabels
  <2> QED BY <1>DestroyDataset, <2>2, <2>3 DEF DestroyDataset, Fails
<1>RemoveMountpoint. ASSUME NEW t \in Threads, RemoveMountpoint(t) PROVE DeleteInv'
  <2>1. Holding(t) /\ Deleting(t)
    BY <1>RemoveMountpoint
    DEF RemoveMountpoint, At, Holding, HoldingLabels, DeleteInv, WipeLabels
  <2>2. CASE Go(t, "bury")
    <3>1. UNCHANGED <<ctr, route>>
      BY <1>RemoveMountpoint DEF RemoveMountpoint
    <3>2. OnlyMoves(t) /\ th'[t].pc = "bury" /\ th'[t].svc = th[t].svc
      BY <2>2, GoMoves
    <3>3. tomb' = tomb
      BY <1>RemoveMountpoint DEF RemoveMountpoint
    <3>4. Deleting(t)'
      BY <1>RemoveMountpoint, <2>1, <3>1, <3>2, <3>3 DEF RemoveMountpoint, At, Deleting
    <3> QED BY <2>1, <3>2, <3>4, Deletes DEF Deleting, WipeLabels
  <2>3. CASE Go(t, "failing")
    BY <1>RemoveMountpoint, <2>1, <2>3, GoMoves, Undisturbed
    DEF RemoveMountpoint, WipeLabels, BuriedLabels
  <2> QED BY <1>RemoveMountpoint, <2>2, <2>3 DEF RemoveMountpoint, Fails
<1>Bury. ASSUME NEW t \in Threads, Bury(t) PROVE DeleteInv'
  <2>1. Holding(t)
    BY <1>Bury DEF Bury, At, Holding, HoldingLabels
  <2> QED BY <1>Bury, <2>1, GoMoves, DoneMoves, Undisturbed
          DEF Bury, PutFails, WipeLabels, BuriedLabels
<1>FinishDelete. ASSUME NEW t \in Threads, FinishDelete(t) PROVE DeleteInv'
  <2>1. tomb # "none" /\ tomb' = tomb
    BY <1>FinishDelete DEF FinishDelete, At, DeleteInv, BuriedLabels
  <2>2. OnlyMoves(t) /\ th'[t].pc \in BuriedLabels
    BY <1>FinishDelete, GoMoves DEF FinishDelete, BuriedLabels
  <2> QED BY <2>1, <2>2, NobodyDeletes DEF WipeLabels, BuriedLabels
<1>PutTombstone. ASSUME NEW t \in Threads, PutTombstone(t) PROVE DeleteInv'
  <2>1. tomb # "none" /\ tomb' # "none"
    BY <1>PutTombstone DEF PutTombstone, At, DeleteInv, BuriedLabels
  <2>2. OnlyMoves(t) /\ th'[t].pc = "idle"
    BY <1>PutTombstone, DoneMoves DEF PutTombstone
  <2> QED BY <2>1, <2>2, NobodyDeletes DEF WipeLabels
<1>Provision. ASSUME NEW t \in Threads, Provision(t) PROVE DeleteInv'
  <2>1. OnlyMoves(t) /\ th'[t].pc = "lookup"
    BY <1>Provision DEF Provision, OnlyMoves, TypeInv, TypeOK, ThreadType
  <2> QED BY <1>Provision, <2>1, Undisturbed
          DEF Provision, host, WipeLabels, BuriedLabels
<1>Upgrade. ASSUME NEW t \in Threads, Upgrade(t) PROVE DeleteInv'
  <2>1. OnlyMoves(t) /\ th'[t].pc = "upgradeImage"
    BY <1>Upgrade DEF Upgrade, OnlyMoves, TypeInv, TypeOK, ThreadType
  <2> QED BY <1>Upgrade, <2>1, Undisturbed DEF Upgrade, host, WipeLabels, BuriedLabels
<1>Resume. ASSUME NEW t \in Threads, Resume(t) PROVE DeleteInv'
  <2>1. OnlyMoves(t) /\ th'[t].pc \in {"isolate", "upgrade"}
    BY <1>Resume, ClaimMoves DEF Resume, ResumeClaim, ResumeRedeploys,
       OnlyMoves, TypeInv, TypeOK, ThreadType
  <2> QED BY <1>Resume, <2>1, Undisturbed DEF Resume, host, WipeLabels, BuriedLabels
<1>ChangeState. ASSUME NEW t \in Threads, ChangeState(t) PROVE DeleteInv'
  <2>1. OnlyMoves(t) /\ th'[t].pc = "stop"
    BY <1>ChangeState, ClaimMoves DEF ChangeState
  <2> QED BY <1>ChangeState, <2>1, Undisturbed
          DEF ChangeState, host, WipeLabels, BuriedLabels
<1>Delete. ASSUME NEW t \in Threads, Delete(t) PROVE DeleteInv'
  <2> DEFINE s == [rec EXCEPT !.phase = "deleting", !.op = "delete"]
  <2>1. CASE tomb = "none"
    <3>1. PICK r \in Requests : Deletable(rec) /\ Claims(t, "wipe", r, s, 0)
      BY <1>Delete, <2>1 DEF Delete
    <3>2. tomb' = tomb
      BY <1>Delete, <2>1 DEF Delete
    <3>3. ~Taken(rec) /\ s.state = "terminated" /\ s.phase = "deleting"
      BY <3>1 DEF Deletable, Taken, TypeInv, TypeOK, RecType
    <3>4. OnlyMoves(t) /\ th'[t].pc = "wipe" /\ th'[t].svc = s
      BY <3>1, ClaimMoves
    <3>5. Deleting(t)'
      BY <2>1, <3>2, <3>3, <3>4 DEF Deleting
    <3> QED BY <2>1, <3>3, <3>4, <3>5, Deletes DEF WipeLabels
  <2>2. CASE tomb # "none"
    <3>1. tomb' # "none"
      BY <1>Delete, <2>2 DEF Delete
    <3>2. CASE UNCHANGED th
      BY <2>2, <3>1, <3>2 DEF DeleteInv, Deleting
    <3>3. CASE Go(t, "finishDelete")
      BY <2>2, <3>1, <3>3, GoMoves, NobodyDeletes DEF WipeLabels
    <3> QED BY <1>Delete, <2>2, <3>2, <3>3 DEF Delete
  <2> QED BY <2>1, <2>2
<1>Restart. ASSUME Restart PROVE DeleteInv'
  BY <1>Restart DEF Restart, Idle, DeleteInv, WipeLabels, BuriedLabels
<1>Stutter. ASSUME UNCHANGED vars PROVE DeleteInv'
  BY <1>Stutter DEF vars, DeleteInv, Deleting
<1> QED
  BY <1>ProvisionLookup, <1>HasVersion, <1>ProvisionClaim, <1>PrepareStorage,
     <1>StartSlot, <1>PutWaiting, <1>CheckHealth, <1>HealthVerdict, <1>RouteTarget,
     <1>RemovePreviousSlot, <1>PutDraining, <1>DrainOldDeploy, <1>PutRunning,
     <1>RecordFailure, <1>UpgradeFromCall, <1>UpgradeClaim, <1>EnsureIsolation,
     <1>RestoreLiveRoute, <1>RemoveTarget, <1>Reconcile, <1>RedeployTerminated,
     <1>DeployDomains, <1>ApplyDomains, <1>ResumeFromCall, <1>StopContainers,
     <1>PutTargetState, <1>FinishRouting, <1>Unroute, <1>PutStopped,
     <1>RemoveContainers, <1>RemoveRoute, <1>DestroyDataset, <1>RemoveMountpoint,
     <1>Bury, <1>FinishDelete, <1>PutTombstone, <1>Provision, <1>Upgrade, <1>Resume,
     <1>ChangeState, <1>Delete,
     <1>Restart, <1>Stutter
  DEF Next, Call, Work

(* Only one action destroys the dataset.                                   *)
LEMMA OnlyDestroyDestroys ==
  ASSUME TypeInv, [Next]_vars, disk.dataset, ~disk'.dataset
  PROVE  \E t \in Threads : DestroyDataset(t)
  <1>1. disk \in DiskType
    BY DEF TypeInv, TypeOK
  <1>2. ASSUME NEW t \in Threads, PrepareStorage(t) PROVE FALSE
    <2>1. disk' = disk \/ disk' = [dataset |-> TRUE, dir |-> TRUE]
      BY <1>2, Zenon DEF PrepareStorage
    <2>2. CASE disk' = disk
      BY <2>2
    <2>3. CASE disk' = [dataset |-> TRUE, dir |-> TRUE]
      BY <2>3
    <2> QED BY <2>1, <2>2, <2>3
  <1>3. ASSUME NEW t \in Threads, RemoveMountpoint(t) PROVE FALSE
    <2>1. disk' = disk \/ disk' = [disk EXCEPT !.dir = FALSE]
      BY <1>3, Zenon DEF RemoveMountpoint
    <2>2. [disk EXCEPT !.dir = FALSE].dataset = disk.dataset
      BY <1>1 DEF DiskType
    <2> QED BY <2>1, <2>2
  <1>4. ASSUME NEW t \in Threads, Call(t) PROVE UNCHANGED disk
    BY <1>4 DEF Call, Provision, Upgrade, Resume, ChangeState, Delete, host
  <1>5. ASSUME NEW t \in Threads,
                 ProvisionLookup(t) \/ HasVersion(t) \/ ProvisionClaim(t) \/ StartSlot(t) \/
                 PutWaiting(t) \/ CheckHealth(t) \/ HealthVerdict(t) \/
                 RouteTarget(t) \/ RemovePreviousSlot(t)
          PROVE  UNCHANGED disk
    BY <1>5
    DEF ProvisionLookup, HasVersion, ProvisionClaim, StartSlot, PutWaiting, CheckHealth,
       HealthVerdict, RouteTarget, RemovePreviousSlot, host
  <1>6. ASSUME NEW t \in Threads,
                 PutDraining(t) \/ DrainOldDeploy(t) \/ PutRunning(t) \/ RecordFailure(t) \/
                 UpgradeFromCall(t) \/ UpgradeClaim(t) \/ EnsureIsolation(t) \/
                 RestoreLiveRoute(t) \/ RemoveTarget(t)
          PROVE  UNCHANGED disk
    BY <1>6 DEF PutDraining, DrainOldDeploy, PutRunning, RecordFailure, UpgradeFromCall,
       UpgradeClaim, EnsureIsolation, RestoreLiveRoute, RemoveTarget, host
  <1>7. ASSUME NEW t \in Threads,
                 Reconcile(t) \/ RedeployTerminated(t) \/ DeployDomains(t) \/ ApplyDomains(t) \/
                 ResumeFromCall(t) \/ StopContainers(t) \/ PutTargetState(t) \/
                 FinishRouting(t) \/ Unroute(t)
          PROVE  UNCHANGED disk
    BY <1>7
    DEF Reconcile, RedeployTerminated, DeployDomains, ApplyDomains, ResumeFromCall,
       StopContainers, PutTargetState, FinishRouting, Unroute, host
  <1>8. ASSUME NEW t \in Threads,
                 PutStopped(t) \/ RemoveContainers(t) \/ RemoveRoute(t) \/ Bury(t) \/
                 FinishDelete(t) \/ PutTombstone(t)
          PROVE  UNCHANGED disk
    BY <1>8
    DEF PutStopped, RemoveContainers, RemoveRoute, Bury, FinishDelete, PutTombstone,
       host
  <1>9. ASSUME Restart \/ UNCHANGED vars PROVE UNCHANGED disk
    BY <1>9 DEF Restart, host, vars
  <1> QED
    BY <1>1, <1>2, <1>3, <1>4, <1>5, <1>6, <1>7, <1>8, <1>9 DEF Next, Work

(* A delete does its steps in order, and nobody brings back what it has    *)
(* removed before it is done (manager.go:658-750, 1081-1187).              *)
THEOREM DeletesInOrder == Spec => []DeleteInv
  <1>1. Init => DeleteInv
    <2> SUFFICES ASSUME Init, NEW t \in Threads PROVE th[t].pc = "idle"
      BY DEF DeleteInv, WipeLabels, BuriedLabels
    <2> QED BY DEF Init, Idle
  <1>2. TypeInv /\ OneWriter /\ DeleteInv /\ [Next]_vars => DeleteInv'
    BY DeleteInvStep
  <1> QED BY <1>1, <1>2, StrongTypes, OneWriterHolds, PTL DEF Spec

(* Whatever calls race and whatever fails: the dataset of a service is     *)
(* destroyed only for a terminated service that is being deleted, when     *)
(* none of its containers is left and Caddy has no route to it             *)
(* (manager.go:658-750).                                                   *)
THEOREM DestroyIsLastHolds == Spec => DestroyIsLast
  <1>1. TypeInv /\ OneWriter /\ DeleteInv /\ [Next]_vars =>
          [disk.dataset /\ ~disk'.dataset =>
             /\ rec.state = "terminated" /\ rec.phase = "deleting"
             /\ \A s \in Slots : ctr[s] = NoCtr
             /\ route = NoRoute]_vars
    <2> SUFFICES ASSUME TypeInv, OneWriter, DeleteInv, [Next]_vars,
                        disk.dataset, ~disk'.dataset
                 PROVE  /\ rec.state = "terminated" /\ rec.phase = "deleting"
                        /\ \A s \in Slots : ctr[s] = NoCtr
                        /\ route = NoRoute
      OBVIOUS
    <2>1. PICK t \in Threads : DestroyDataset(t)
      BY OnlyDestroyDestroys
    <2>2. th[t].pc = "destroy"
      BY <2>1 DEF DestroyDataset, At
    <2>3. Deleting(t)
      BY <2>2 DEF DeleteInv, WipeLabels
    <2>4. rec = th[t].svc
      BY <2>2, <2>3 DEF Deleting, OneWriter, CopyIsCurrent, Holding, HoldingLabels, At
    <2> QED BY <2>2, <2>3, <2>4 DEF Deleting
  <1> QED BY <1>1, StrongTypes, OneWriterHolds, DeletesInOrder, PTL DEF Spec, DestroyIsLast

=============================================================================
