--------------------------- MODULE DnsSync_proofs ---------------------------
(* Proofs about DnsSync for any number of services, domains, calls, tries  *)
(* and failures.                                                           *)
EXTENDS DnsSync, TLAPS

-----------------------------------------------------------------------------
(* The strengthened invariant *)

(* It may be said in_sync of this domain.                                  *)
Fine(n) == n \in moved \/ zone[n] = Right

CallType ==
  {NoCall} \union
  [name : Names, at : {"apex", "www", "repair", "ok", "transient", "permanent"},
   todo : SUBSET {"apex", "www"}]

(* What a pass over the API has seen is right, it will repair.             *)
CallOK(k) ==
  k.name \in Names \ moved =>
    /\ k.at \in {"www", "repair"} => "apex" \in k.todo \/ zone[k.name].apex = "ours"
    /\ k.at = "repair" => "www" \in k.todo \/ zone[k.name].www = "ours"
    /\ k.at = "ok" => zone[k.name] = Right

MaybeName == Names \union {NoName}
Live == {r \in RecType : r.dom \in Names}

BusyType ==
  [pc : {"starting", "waiting", "prepare", "route", "stopping", "unroute", "stopped"},
   s : Services, copy : Live]

ThreadType ==
  {Idle}
  \union [pc : {"enqueue", "signal"}, s : Services, name : Names, old : MaybeName]
  \union [pc : {"rename"}, s : Services, copy : Live, name : Names]
  \union BusyType
  \union [pc : {"finish"}, s : Services, copy : Live, old : MaybeName]

(* What the label of a thread says of its service, its copy of the record  *)
(* and its call k.                                                         *)
LocalOK(x, k) ==
  /\ x.pc # "idle" => rec[x.s].dom \in Names
  /\ x.pc \in {"enqueue", "signal"} => x.old \in moved \union {NoName}
  /\ x.pc = "rename" => k.name = x.name
  /\ x.pc = "prepare" => x.copy.phase = "routing" /\ k.name = RoutingDomain(x.copy)
  /\ x.pc = "route" /\ x.copy.status = "in_sync" => Fine(RoutingDomain(x.copy))
  /\ x.pc = "finish" /\ x.copy.status = "in_sync" => Fine(x.copy.dom)
  /\ x.pc = "stopping" => x.copy.op \in {"suspended", "terminated"}

RecOK ==
  /\ rec \in [Services -> RecType]
  /\ \A s \in Services : rec[s].dom = NoName <=> rec[s] = NoRec

ZoneOK == zone \in [Names -> ZoneType] /\ moved \in SUBSET Names

QueueOK ==
  /\ queue \in [Services -> MaybeName]
  /\ active \in {NoUpdate} \union Update
  /\ wake \in BOOLEAN

CleanupType(names) ==
  [name : names, at : {"apex", "delete apex", "www", "delete www"}, tries : {1, 2},
   by : Threads]

CleanupsOK == cleanups \subseteq CleanupType(moved)

CallsOK ==
  /\ call \in [Clients -> CallType]
  /\ \A c \in Clients : CallOK(call[c])

WorkerOK ==
  /\ worker \in [pc : {"wait", "take", "sync", "write", "clear"}, tries : Nat,
                 answer : {"ok", "transient", "permanent"}]
  /\ worker.pc = "sync" => active \in Update /\ call[Syncer].name = active.name
  /\ worker.pc = "write" => active \in Update /\ (worker.answer = "ok" => Fine(active.name))

ThreadsOK ==
  /\ thread \in [Threads -> ThreadType]
  /\ \A t \in Threads : LocalOK(thread[t], call[t])

IInv ==
  RecOK /\ ZoneOK /\ QueueOK /\ CleanupsOK /\ CallsOK /\ WorkerOK /\ ThreadsOK /\ InSyncIsTrue

-----------------------------------------------------------------------------
(* Helpers *)

LEMMA SyncerIsNoThread == Syncer \notin Threads /\ Clients = Threads \union {Syncer}
  BY DnsAssumption DEF Syncer, Threads, Clients

LEMMA RoutingName ==
  ASSUME NEW r \in Live
  PROVE  RoutingDomain(r) \in Names
  BY DEF Live, RecType, RoutingDomain

LEMMA IsLive ==
  ASSUME NEW r \in RecType, r.dom \in Names
  PROVE  r \in Live
  BY DEF Live

LEMMA StatusSet ==
  ASSUME NEW r \in Live, NEW status \in {"in_sync", "pending", "error"}
  PROVE  /\ [r EXCEPT !.status = status] \in Live
         /\ [r EXCEPT !.status = status].status = status
         /\ [r EXCEPT !.status = status].phase = r.phase
         /\ [r EXCEPT !.status = status].dom = r.dom
         /\ [r EXCEPT !.status = status].tdom = r.tdom
  BY DEF Live, RecType

LEMMA NoRecFields == NoRec.dom = NoName /\ NoRec.state = "absent" /\ NoRec.phase = "absent"
  BY DEF NoRec

(* What every step does: right records of domains in use stay right, and a *)
(* record stays one.                                                       *)
Keeps ==
  /\ moved \subseteq moved'
  /\ \A n \in Names \ moved' : /\ zone[n].apex = "ours" => zone'[n].apex = "ours"
                               /\ zone[n].www = "ours" => zone'[n].www = "ours"
  /\ \A s \in Services : rec[s].dom \in Names => rec'[s].dom \in Names

LEMMA RightFields ==
  ASSUME NEW z \in ZoneType
  PROVE  z = Right <=> z.apex = "ours" /\ z.www = "ours"
  BY DEF ZoneType, Right

LEMMA FineKept ==
  ASSUME ZoneOK, ZoneOK', Keeps, NEW n \in Names, Fine(n)
  PROVE  Fine(n)'
  <1>1. zone[n] \in ZoneType /\ zone'[n] \in ZoneType
    BY DEF ZoneOK
  <1> QED BY <1>1, RightFields DEF Keeps, Fine

LEMMA CallKept ==
  ASSUME ZoneOK, ZoneOK', Keeps, NEW k \in CallType, CallOK(k)
  PROVE  CallOK(k)'
  <1> SUFFICES ASSUME k.name \in Names \ moved'
               PROVE  CallOK(k)'
    BY DEF CallOK
  <1>1. zone[k.name] \in ZoneType /\ zone'[k.name] \in ZoneType
    BY DEF ZoneOK
  <1> QED BY <1>1, RightFields DEF Keeps, CallOK

LEMMA LocalKept ==
  ASSUME ZoneOK, ZoneOK', Keeps, NEW x \in ThreadType, NEW k, LocalOK(x, k)
  PROVE  LocalOK(x, k)'
  <1>1. x.pc # "idle" => rec'[x.s].dom \in Names
    BY DEF ThreadType, BusyType, Keeps, LocalOK, Idle
  <1>2. x.pc \in {"enqueue", "signal"} => x.old \in moved' \union {NoName}
    BY DEF Keeps, LocalOK
  <1>3. x.pc = "route" /\ x.copy.status = "in_sync" => Fine(RoutingDomain(x.copy))'
    <2> SUFFICES ASSUME x.pc = "route", x.copy.status = "in_sync"
                 PROVE  Fine(RoutingDomain(x.copy))'
      OBVIOUS
    <2>1. x.copy \in Live
      BY DEF ThreadType, BusyType, Idle
    <2> QED BY <2>1, RoutingName, FineKept DEF LocalOK, RoutingDomain
  <1>4. x.pc = "finish" /\ x.copy.status = "in_sync" => Fine(x.copy.dom)'
    <2> SUFFICES ASSUME x.pc = "finish", x.copy.status = "in_sync"
                 PROVE  Fine(x.copy.dom)'
      OBVIOUS
    <2>1. x.copy \in Live
      BY DEF ThreadType, BusyType, Idle
    <2> QED BY <2>1, FineKept DEF LocalOK, Live
  <1> QED BY <1>1, <1>2, <1>3, <1>4 DEF LocalOK

(* Thread t goes on as x, with the call k; nobody else moves.              *)
LEMMA ThreadStep ==
  ASSUME IInv, ZoneOK', Keeps, NEW t \in Threads, NEW x \in ThreadType,
         NEW k \in CallType, thread' = [thread EXCEPT ![t] = x],
         call' = [call EXCEPT ![t] = k], LocalOK(x, k)', CallOK(k)',
         UNCHANGED <<worker, active>>
  PROVE  ThreadsOK' /\ CallsOK' /\ WorkerOK'
  <1> USE DEF IInv
  <1>1. t \in Clients /\ t # Syncer /\ Threads \subseteq Clients /\ Syncer \in Clients
    BY SyncerIsNoThread
  <1>2. thread' \in [Threads -> ThreadType] /\ call' \in [Clients -> CallType]
    BY DEF ThreadsOK, CallsOK
  <1>3. ASSUME NEW c \in Clients
        PROVE  CallOK(call[c])'
    <2>1. CASE c = t
      BY <1>1, <2>1 DEF CallsOK
    <2>2. CASE c # t
      <3>1. PICK y \in CallType : y = call[c]
        BY DEF CallsOK
      <3>2. call'[c] = y /\ CallOK(y)'
        BY <2>2, <3>1, CallKept DEF CallsOK
      <3> QED BY <3>2
    <2> QED BY <2>1, <2>2
  <1>4. ASSUME NEW u \in Threads
        PROVE  LocalOK(thread[u], call[u])'
    <2>1. CASE u = t
      BY <1>1, <2>1 DEF CallsOK, ThreadsOK
    <2>2. CASE u # t
      <3>1. PICK y \in ThreadType, j \in CallType : y = thread[u] /\ j = call[u]
        BY <1>1 DEF CallsOK, ThreadsOK
      <3>2. thread'[u] = y /\ call'[u] = j /\ LocalOK(y, j)'
        BY <1>1, <2>2, <3>1, LocalKept DEF CallsOK, ThreadsOK
      <3> QED BY <3>2
    <2> QED BY <2>1, <2>2
  <1>5. WorkerOK'
    <2>1. call'[Syncer] = call[Syncer]
      BY <1>1 DEF CallsOK
    <2>2. worker.pc = "write" /\ worker.answer = "ok" => Fine(active.name)'
      <3> SUFFICES ASSUME worker.pc = "write", worker.answer = "ok"
                   PROVE  Fine(active.name)'
        OBVIOUS
      <3>1. PICK n \in Names : n = active.name
        BY DEF WorkerOK, Update
      <3>2. Fine(n)'
        BY <3>1, FineKept DEF WorkerOK
      <3> QED BY <3>1, <3>2
    <2> QED BY <2>1, <2>2 DEF WorkerOK
  <1> QED BY <1>2, <1>3, <1>4, <1>5 DEF ThreadsOK, CallsOK

(* The same when its call stays as it is.                                  *)
LEMMA ThreadMoves ==
  ASSUME IInv, ZoneOK', Keeps, NEW t \in Threads, NEW x \in ThreadType,
         thread' = [thread EXCEPT ![t] = x], UNCHANGED call,
         \A k \in CallType : k = call[t] => LocalOK(x, k)',
         UNCHANGED <<worker, active>>
  PROVE  ThreadsOK' /\ CallsOK' /\ WorkerOK'
  <1>1. PICK k \in CallType : k = call[t]
    BY SyncerIsNoThread DEF IInv, CallsOK
  <1>2. CallOK(k)'
    BY <1>1, SyncerIsNoThread, CallKept DEF IInv, CallsOK
  <1>3. call' = [call EXCEPT ![t] = k]
    BY <1>1 DEF IInv, CallsOK
  <1> QED BY <1>1, <1>2, <1>3, ThreadStep

(* The worker's call becomes k.                                            *)
LEMMA SyncerStep ==
  ASSUME IInv, ZoneOK', Keeps, NEW k \in CallType, CallOK(k)',
         call' = [call EXCEPT ![Syncer] = k], UNCHANGED thread
  PROVE  ThreadsOK' /\ CallsOK'
  <1> USE DEF IInv
  <1>1. Threads \subseteq Clients /\ Syncer \in Clients /\ Syncer \notin Threads
    BY SyncerIsNoThread
  <1>2. ASSUME NEW c \in Clients
        PROVE  CallOK(call[c])'
    <2>1. CASE c = Syncer
      BY <1>1, <2>1 DEF CallsOK
    <2>2. CASE c # Syncer
      <3>1. PICK y \in CallType : y = call[c]
        BY DEF CallsOK
      <3>2. call'[c] = y /\ CallOK(y)'
        BY <2>2, <3>1, CallKept DEF CallsOK
      <3> QED BY <3>2
    <2> QED BY <2>1, <2>2
  <1>3. ASSUME NEW u \in Threads
        PROVE  LocalOK(thread[u], call[u])'
    <2>1. PICK y \in ThreadType, j \in CallType : y = thread[u] /\ j = call[u]
      BY <1>1 DEF CallsOK, ThreadsOK
    <2>2. thread'[u] = y /\ call'[u] = j /\ LocalOK(y, j)'
      BY <1>1, <2>1, LocalKept DEF CallsOK, ThreadsOK
    <2> QED BY <2>2
  <1>4. call' \in [Clients -> CallType]
    BY DEF CallsOK
  <1> QED BY <1>2, <1>3, <1>4 DEF ThreadsOK, CallsOK

(* No thread moves and no call.                                            *)
LEMMA NobodyMoves ==
  ASSUME IInv, ZoneOK', Keeps, UNCHANGED <<call, thread>>
  PROVE  ThreadsOK' /\ CallsOK'
  <1>1. PICK k \in CallType : k = call[Syncer]
    BY SyncerIsNoThread DEF IInv, CallsOK
  <1>2. CallOK(k)'
    BY <1>1, SyncerIsNoThread, CallKept DEF IInv, CallsOK
  <1>3. call' = [call EXCEPT ![Syncer] = k]
    BY <1>1 DEF IInv, CallsOK
  <1> QED BY <1>2, <1>3, SyncerStep

LEMMA WorkerStays ==
  ASSUME IInv, ZoneOK', Keeps, UNCHANGED <<worker, active>>,
         call'[Syncer].name = call[Syncer].name
  PROVE  WorkerOK'
  <1>1. worker.pc = "write" /\ worker.answer = "ok" => Fine(active.name)'
    <2> SUFFICES ASSUME worker.pc = "write", worker.answer = "ok"
                 PROVE  Fine(active.name)'
      OBVIOUS
    <2>1. PICK n \in Names : n = active.name
      BY DEF IInv, WorkerOK, Update
    <2>2. Fine(n)'
      BY <2>1, FineKept DEF IInv, WorkerOK
    <2> QED BY <2>1, <2>2
  <1> QED BY <1>1 DEF IInv, WorkerOK

(* A record is written.                                                    *)
LEMMA PutLive ==
  ASSUME IInv, NEW s \in Services, NEW r \in Live, Puts(s, r), UNCHANGED zone,
         ZoneOK', moved \subseteq moved',
         r.phase = "running" /\ r.status = "in_sync" => Fine(r.dom)'
  PROVE  RecOK' /\ InSyncIsTrue' /\ Keeps
  <1>1. r \in RecType /\ r.dom \in Names /\ r.dom # NoName /\ r # NoRec
    BY DnsAssumption, NoRecFields DEF Live
  <1>2. RecOK'
    BY <1>1 DEF IInv, RecOK, Puts
  <1>3. InSyncIsTrue'
    BY <1>1 DEF IInv, RecOK, Puts, InSyncIsTrue, Fine
  <1>4. Keeps
    BY <1>1 DEF IInv, RecOK, Puts, Keeps
  <1> QED BY <1>2, <1>3, <1>4

(* No record is.                                                           *)
LEMMA SameRec ==
  ASSUME IInv, ZoneOK', UNCHANGED rec, moved \subseteq moved',
         \A n \in Names \ moved' : /\ zone[n].apex = "ours" => zone'[n].apex = "ours"
                                   /\ zone[n].www = "ours" => zone'[n].www = "ours"
  PROVE  RecOK' /\ InSyncIsTrue' /\ Keeps
  <1>1. Keeps
    BY DEF Keeps
  <1>2. RecOK'
    BY DEF IInv, RecOK
  <1>3. ASSUME NEW s \in Services, rec'[s].phase = "running",
               rec'[s].status = "in_sync", rec'[s].dom \notin moved'
        PROVE  zone'[rec'[s].dom] = Right
    <2>1. PICK n \in Names : n = rec[s].dom
      <3>1. rec[s] # NoRec
        BY <1>3, NoRecFields
      <3> QED BY <3>1 DEF IInv, RecOK, RecType
    <2>2. Fine(n)
      BY <1>3, <2>1 DEF IInv, InSyncIsTrue, Fine
    <2>3. Fine(n)'
      BY <2>2, <1>1, FineKept DEF IInv
    <2> QED BY <1>3, <2>1, <2>3 DEF Fine
  <1> QED BY <1>1, <1>2, <1>3 DEF InSyncIsTrue

(* The clean-up of a domain a service has moved away from is added.        *)
LEMMA CleanUpAdded ==
  ASSUME CleanupsOK, NEW t \in Threads, NEW old \in moved' \union {NoName},
         CleanUp(t, old), moved \subseteq moved'
  PROVE  CleanupsOK'
  <1> DEFINE added == [name |-> old, at |-> "apex", tries |-> 1, by |-> t]
  <1>1. cleanups' \subseteq cleanups \union {x \in {added} : old # NoName}
    BY DEF CleanUp
  <1>2. old # NoName => added \in CleanupType(moved')
    BY DEF CleanupType
  <1>3. cleanups \subseteq CleanupType(moved')
    BY DEF CleanupsOK, CleanupType
  <1> HIDE DEF added
  <1> QED BY <1>1, <1>2, <1>3 DEF CleanupsOK

LEMMA CleanupsStay ==
  ASSUME CleanupsOK, UNCHANGED cleanups, moved \subseteq moved'
  PROVE  CleanupsOK'
  BY DEF CleanupsOK, CleanupType

-----------------------------------------------------------------------------
(* Requests to the API *)

(* A call for a domain may start at any time.                              *)
LEMMA AsksOK ==
  ASSUME NEW n \in Names, NEW c \in Clients, Asks(c, n)
  PROVE  \E k \in CallType : /\ call' = [call EXCEPT ![c] = k]
                             /\ k.name = n
                             /\ CallOK(k)'
  <1> DEFINE k == [NoCall EXCEPT !.name = n, !.at = "apex"]
  <1>1. NoCall \in [name : {NoName}, at : {"idle"}, todo : {{}}]
    BY DEF NoCall
  <1>2. k \in CallType /\ k.name = n /\ k.at = "apex"
    BY <1>1 DEF CallType
  <1>3. call' = [call EXCEPT ![c] = k]
    BY DEF Asks
  <1> HIDE DEF k
  <1>4. CallOK(k)'
    BY <1>2 DEF CallOK
  <1> QED BY <1>2, <1>3, <1>4

LEMMA NoCallOK == NoCall \in CallType /\ CallOK(NoCall) /\ CallOK(NoCall)'
  BY DnsAssumption DEF NoCall, CallType, CallOK

(* A repair does not undo the other one.                                   *)
LEMMA RepairKeeps ==
  ASSUME ZoneOK, NEW c \in Clients, NEW k \in CallType, k = call[c], k.at = "repair",
         zone' = Repaired(c), UNCHANGED moved
  PROVE  /\ ZoneOK'
         /\ \A n \in Names : /\ zone[n].apex = "ours" => zone'[n].apex = "ours"
                             /\ zone[n].www = "ours" => zone'[n].www = "ours"
         /\ zone'[k.name].apex = "ours" \/ "apex" \notin k.todo
         /\ "apex" \notin k.todo => zone'[k.name].www = "ours"
  <1>1. k.name \in Names
    BY DEF CallType, NoCall
  <1>2. CASE "apex" \in k.todo
    <2>1. zone' = [zone EXCEPT ![k.name].apex = "ours"]
      BY <1>2 DEF Repaired
    <2> QED BY <1>1, <1>2, <2>1 DEF ZoneOK, ZoneType, Values
  <1>3. CASE "apex" \notin k.todo
    <2>1. zone' = [zone EXCEPT ![k.name].www = "ours"]
      BY <1>3 DEF Repaired
    <2> QED BY <1>1, <1>3, <2>1 DEF ZoneOK, ZoneType, Values
  <1> QED BY <1>2, <1>3

LEMMA ApiStep ==
  ASSUME IInv, NEW c \in Clients, CallDNSAPI(c)
  PROVE  /\ ZoneOK'
         /\ \A n \in Names : /\ zone[n].apex = "ours" => zone'[n].apex = "ours"
                             /\ zone[n].www = "ours" => zone'[n].www = "ours"
         /\ \E k \in CallType : /\ call' = [call EXCEPT ![c] = k]
                                /\ k.name = call[c].name
                                /\ CallOK(k)'
  <1> USE DEF IInv
  <1>1. UNCHANGED moved
    BY DEF CallDNSAPI
  <1>2. PICK j \in CallType : j = call[c] /\ CallOK(j)
    BY DEF CallsOK
  <1>3. ASSUME j.at # "idle"
        PROVE  j.name \in Names /\ j.todo \in SUBSET {"apex", "www"}
               /\ j \in [name : Names, at : {"apex", "www", "repair", "ok", "transient", "permanent"},
                         todo : SUBSET {"apex", "www"}]
    BY <1>3 DEF CallType, NoCall
  <1>4. CASE LookApex(c)
    <2>1. j.at = "apex" /\ j.at # "idle" /\ UNCHANGED zone /\ ZoneOK'
      BY <1>1, <1>2, <1>4 DEF LookApex, ZoneOK
    <2>2. PICK todo \in SUBSET {"apex", "www"} :
            todo = IF zone[j.name].apex = "ours" THEN {} ELSE {"apex"}
      OBVIOUS
    <2> DEFINE k == [j EXCEPT !.at = "www", !.todo = todo]
    <2>3. k \in CallType /\ k.name = j.name /\ k.at = "www" /\ k.todo = todo
      BY <1>3, <2>1 DEF CallType
    <2>4. call' = [call EXCEPT ![c] = k]
      BY <1>2, <1>4, <2>2 DEF LookApex, CallsOK
    <2> HIDE DEF k
    <2>5. CallOK(k)'
      BY <2>1, <2>2, <2>3 DEF CallOK
    <2> QED BY <1>2, <2>1, <2>3, <2>4, <2>5
  <1>5. CASE LookWww(c)
    <2>1. j.at = "www" /\ j.at # "idle" /\ UNCHANGED zone /\ ZoneOK'
      BY <1>1, <1>2, <1>5 DEF LookWww, ZoneOK
    <2>2. PICK todo \in SUBSET {"apex", "www"} :
            todo = j.todo \union IF zone[j.name].www = "ours" THEN {} ELSE {"www"}
      BY <1>3, <2>1
    <2> DEFINE at == IF todo = {} THEN "ok" ELSE "repair"
               k == [j EXCEPT !.at = at, !.todo = todo]
    <2>3. k \in CallType /\ k.name = j.name /\ k.at = at /\ k.todo = todo
      BY <1>3, <2>1 DEF CallType
    <2>4. call' = [call EXCEPT ![c] = k]
      BY <1>2, <1>5, <2>2 DEF LookWww, CallsOK
    <2> HIDE DEF k
    <2>5. CallOK(k)'
      <3>1. zone[j.name] \in ZoneType
        BY <1>3, <2>1 DEF ZoneOK
      <3>2. zone' = zone /\ moved' = moved
        BY <1>1, <2>1
      <3>3. SUFFICES ASSUME j.name \notin moved
                     PROVE  CallOK(k)'
        BY <2>3, <3>2 DEF CallOK
      <3>4. "apex" \in j.todo \/ zone[j.name].apex = "ours"
        BY <1>2, <1>3, <2>1, <3>3 DEF CallOK
      <3>5. todo = {} => zone[j.name] = Right
        BY <2>2, <3>1, <3>4, RightFields
      <3> QED BY <2>2, <2>3, <3>2, <3>4, <3>5 DEF CallOK
    <2> QED BY <1>2, <2>1, <2>3, <2>4, <2>5
  <1>6. CASE Repair(c)
    <2>1. j.at = "repair" /\ j.at # "idle" /\ zone' = Repaired(c)
      BY <1>2, <1>6 DEF Repair
    <2>2. PICK rest \in SUBSET {"apex", "www"} : rest = j.todo \ {Next1(j.todo)}
      BY <1>3, <2>1
    <2> DEFINE at == IF rest = {} THEN "ok" ELSE "repair"
               k == [j EXCEPT !.at = at, !.todo = rest]
    <2>3. k \in CallType /\ k.name = j.name /\ k.at = at /\ k.todo = rest
      BY <1>3, <2>1 DEF CallType
    <2>4. call' = [call EXCEPT ![c] = k]
      BY <1>2, <1>6, <2>2 DEF Repair, CallsOK
    <2> HIDE DEF k
    <2>5. /\ ZoneOK'
          /\ \A n \in Names : /\ zone[n].apex = "ours" => zone'[n].apex = "ours"
                              /\ zone[n].www = "ours" => zone'[n].www = "ours"
          /\ zone'[j.name].apex = "ours" \/ "apex" \notin j.todo
          /\ "apex" \notin j.todo => zone'[j.name].www = "ours"
      BY <1>1, <1>2, <2>1, RepairKeeps
    <2>6. CallOK(k)'
      <3>1. SUFFICES ASSUME j.name \notin moved
                     PROVE  CallOK(k)'
        BY <1>1, <2>3 DEF CallOK
      <3>2. /\ "apex" \in j.todo \/ zone[j.name].apex = "ours"
            /\ "www" \in j.todo \/ zone[j.name].www = "ours"
        BY <1>2, <1>3, <2>1, <3>1 DEF CallOK
      <3>3. zone'[j.name] \in ZoneType /\ j.name \in Names
        BY <1>3, <2>1, <2>5 DEF ZoneOK
      <3>4. /\ "apex" \in rest \/ zone'[j.name].apex = "ours"
            /\ "www" \in rest \/ zone'[j.name].www = "ours"
        BY <2>2, <2>5, <3>2, <3>3 DEF Next1
      <3>5. rest = {} => zone'[j.name] = Right
        BY <3>3, <3>4, RightFields
      <3> QED BY <2>3, <3>4, <3>5 DEF CallOK
    <2> QED BY <1>2, <2>3, <2>4, <2>5, <2>6
  <1>7. CASE RequestFails(c)
    <2>1. j.at # "idle"
      BY <1>2, <1>7 DEF RequestFails
    <2>2. PICK kind \in {"transient", "permanent"} :
            call' = [call EXCEPT ![c].at = kind, ![c].todo = {}]
      BY <1>7 DEF RequestFails
    <2> DEFINE k == [j EXCEPT !.at = kind, !.todo = {}]
    <2>3. k \in CallType /\ k.name = j.name /\ k.at = kind
      BY <1>3, <2>1 DEF CallType
    <2>4. call' = [call EXCEPT ![c] = k]
      BY <1>2, <2>2 DEF CallsOK
    <2> HIDE DEF k
    <2>5. CallOK(k)'
      BY <2>3 DEF CallOK
    <2>6. /\ ZoneOK'
          /\ \A n \in Names : /\ zone[n].apex = "ours" => zone'[n].apex = "ours"
                              /\ zone[n].www = "ours" => zone'[n].www = "ours"
      <3>1. CASE UNCHANGED zone
        BY <1>1, <3>1 DEF ZoneOK
      <3>2. CASE call[c].at = "repair" /\ zone' = Repaired(c)
        BY <1>1, <1>2, <3>2, RepairKeeps
      <3> QED BY <1>7, <3>1, <3>2 DEF RequestFails
    <2> QED BY <1>2, <2>3, <2>4, <2>5, <2>6
  <1> QED BY <1>4, <1>5, <1>6, <1>7 DEF CallDNSAPI

LEMMA CallApiInv ==
  ASSUME IInv, NEW c \in Clients, CallDNSAPI(c)
  PROVE  IInv'
  <1> USE DEF IInv
  <1>1. /\ ZoneOK'
        /\ \A n \in Names : /\ zone[n].apex = "ours" => zone'[n].apex = "ours"
                            /\ zone[n].www = "ours" => zone'[n].www = "ours"
    BY ApiStep
  <1>2. PICK k \in CallType : /\ call' = [call EXCEPT ![c] = k]
                              /\ k.name = call[c].name
                              /\ CallOK(k)'
    BY ApiStep
  <1>3. UNCHANGED <<rec, queue, active, wake, worker, thread, cleanups, moved>>
    BY DEF CallDNSAPI
  <1>4. RecOK' /\ InSyncIsTrue' /\ Keeps
    BY <1>1, <1>3, SameRec
  <1>5. ThreadsOK' /\ CallsOK' /\ WorkerOK'
    <2>1. CASE c = Syncer
      <3>1. call'[Syncer].name = call[Syncer].name
        BY <1>2, <2>1 DEF CallsOK
      <3> QED BY <1>1, <1>2, <1>3, <1>4, <2>1, <3>1, SyncerStep, WorkerStays
    <2>2. CASE c \in Threads
      <3>1. PICK x \in ThreadType, j \in CallType : x = thread[c] /\ j = call[c]
        BY <2>2 DEF ThreadsOK, CallsOK
      <3>2. LocalOK(x, k)
        BY <1>2, <2>2, <3>1 DEF ThreadsOK, LocalOK
      <3>3. LocalOK(x, k)'
        BY <1>1, <1>4, <3>2, LocalKept
      <3>4. thread' = [thread EXCEPT ![c] = x]
        BY <1>3, <3>1 DEF ThreadsOK
      <3> QED BY <1>1, <1>2, <1>3, <1>4, <2>2, <3>3, <3>4, ThreadStep
    <2> QED BY <2>1, <2>2, SyncerIsNoThread
  <1>6. QueueOK' /\ CleanupsOK'
    BY <1>3, CleanupsStay DEF QueueOK
  <1> QED BY <1>1, <1>4, <1>5, <1>6

-----------------------------------------------------------------------------
(* The worker *)

(* Steps of the worker that leave records, DNS and clean-ups alone.        *)
LEMMA Elsewhere ==
  ASSUME IInv, UNCHANGED <<rec, zone, cleanups, moved>>
  PROVE  RecOK' /\ ZoneOK' /\ CleanupsOK' /\ InSyncIsTrue' /\ Keeps
  <1>1. ZoneOK'
    BY DEF IInv, ZoneOK
  <1> QED BY <1>1, SameRec, CleanupsStay DEF IInv

LEMMA AwakeInv ==
  ASSUME IInv, Awake
  PROVE  IInv'
  <1> USE DEF IInv
  <1>1. UNCHANGED <<rec, zone, cleanups, moved, call, thread, queue, active>>
    BY DEF Awake, dns
  <1>2. RecOK' /\ ZoneOK' /\ CleanupsOK' /\ InSyncIsTrue' /\ Keeps
    BY <1>1, Elsewhere
  <1>3. ThreadsOK' /\ CallsOK'
    BY <1>1, <1>2, NobodyMoves
  <1>4. QueueOK' /\ WorkerOK'
    BY <1>1 DEF QueueOK, WorkerOK, Awake
  <1> QED BY <1>2, <1>3, <1>4

LEMMA TakeInv ==
  ASSUME IInv, Take
  PROVE  IInv'
  <1> USE DEF IInv
  <1>1. UNCHANGED <<rec, zone, cleanups, moved, thread, wake>>
    BY DEF Take
  <1>2. RecOK' /\ ZoneOK' /\ CleanupsOK' /\ InSyncIsTrue' /\ Keeps
    BY <1>1, Elsewhere
  <1>3. Waiting \in [pc : {"wait"}, tries : Nat, answer : {"ok"}]
    BY DEF Waiting
  <1>4. ASSUME NEW s \in Services, queue[s] # NoName,
               active' = [s |-> s, name |-> queue[s]],
               queue' = [queue EXCEPT ![s] = NoName],
               Asks(Syncer, queue[s]),
               worker' = [Waiting EXCEPT !.pc = "sync", !.tries = 1]
        PROVE  ThreadsOK' /\ CallsOK' /\ QueueOK' /\ WorkerOK'
    <2>1. PICK n \in Names : n = queue[s]
      BY <1>4 DEF QueueOK, MaybeName
    <2>2. PICK k \in CallType : /\ call' = [call EXCEPT ![Syncer] = k]
                                /\ k.name = n
                                /\ CallOK(k)'
      BY <1>4, <2>1, AsksOK, SyncerIsNoThread
    <2>3. ThreadsOK' /\ CallsOK'
      BY <1>1, <1>2, <2>2, SyncerStep
    <2>4. active' \in Update /\ QueueOK'
      BY <1>1, <1>4, <2>1 DEF QueueOK, Update, MaybeName
    <2>5. call'[Syncer].name = active'.name
      BY <1>4, <2>1, <2>2, SyncerIsNoThread DEF CallsOK
    <2>6. WorkerOK'
      BY <1>3, <1>4, <2>4, <2>5 DEF WorkerOK
    <2> QED BY <2>3, <2>4, <2>6
  <1>5. ASSUME active' = NoUpdate, worker' = Waiting, UNCHANGED <<queue, call>>
        PROVE  ThreadsOK' /\ CallsOK' /\ QueueOK' /\ WorkerOK'
    <2>1. ThreadsOK' /\ CallsOK'
      BY <1>1, <1>2, <1>5, NobodyMoves
    <2>2. QueueOK' /\ WorkerOK'
      BY <1>1, <1>3, <1>5 DEF QueueOK, WorkerOK
    <2> QED BY <2>1, <2>2
  <1>6. ThreadsOK' /\ CallsOK' /\ QueueOK' /\ WorkerOK'
    BY <1>4, <1>5 DEF Take
  <1> QED BY <1>2, <1>6

LEMMA SyncAnsweredInv ==
  ASSUME IInv, SyncAnswered
  PROVE  IInv'
  <1> USE DEF IInv
  <1>1. UNCHANGED <<rec, zone, cleanups, moved, thread, queue, active, wake>>
    BY DEF SyncAnswered
  <1>2. RecOK' /\ ZoneOK' /\ CleanupsOK' /\ InSyncIsTrue' /\ Keeps
    BY <1>1, Elsewhere
  <1>3. QueueOK'
    BY <1>1 DEF QueueOK
  <1>4. worker.pc = "sync" /\ active \in Update /\ call[Syncer].name = active.name
    BY DEF SyncAnswered, WorkerOK
  <1>5. PICK n \in Names : n = active.name
    BY <1>4 DEF Update
  <1>6. PICK j \in CallType : j = call[Syncer] /\ CallOK(j)
    BY SyncerIsNoThread DEF CallsOK
  <1>7. ASSUME worker' = [worker EXCEPT !.tries = @ + 1], Asks(Syncer, n)
        PROVE  ThreadsOK' /\ CallsOK' /\ WorkerOK'
    <2>1. PICK k \in CallType : /\ call' = [call EXCEPT ![Syncer] = k]
                                /\ k.name = n
                                /\ CallOK(k)'
      BY <1>7, AsksOK, SyncerIsNoThread
    <2>2. ThreadsOK' /\ CallsOK'
      BY <1>1, <1>2, <2>1, SyncerStep
    <2>3. call'[Syncer].name = n
      BY <2>1, SyncerIsNoThread DEF CallsOK
    <2>4. WorkerOK'
      BY <1>1, <1>4, <1>5, <1>7, <2>3 DEF WorkerOK
    <2> QED BY <2>2, <2>4
  <1>8. ASSUME worker' = [worker EXCEPT !.pc = "write", !.answer = call[Syncer].at],
               Drops(Syncer)
        PROVE  ThreadsOK' /\ CallsOK' /\ WorkerOK'
    <2>1. ThreadsOK' /\ CallsOK'
      BY <1>1, <1>2, <1>8, NoCallOK, SyncerStep DEF Drops
    <2>2. j.at = "ok" => Fine(n)
      BY <1>4, <1>5, <1>6 DEF CallOK, Fine
    <2>3. j.at \in {"ok", "transient", "permanent"}
      BY <1>6 DEF SyncAnswered, Answered
    <2>4. Fine(n)' <=> Fine(n)
      BY <1>1 DEF Fine
    <2>5. WorkerOK'
      BY <1>1, <1>4, <1>5, <1>6, <1>8, <2>2, <2>3, <2>4 DEF WorkerOK, Fine
    <2> QED BY <2>1, <2>5
  <1>9. ThreadsOK' /\ CallsOK' /\ WorkerOK'
    BY <1>5, <1>7, <1>8 DEF SyncAnswered
  <1> QED BY <1>2, <1>3, <1>9

LEMMA WriteStatusInv ==
  ASSUME IInv, WriteStatus
  PROVE  IInv'
  <1> USE DEF IInv
  <1>1. UNCHANGED <<zone, cleanups, moved, call, thread, queue, active, wake>>
    BY DEF WriteStatus, dns, work
  <1>2. worker.pc = "write" /\ worker' = [worker EXCEPT !.pc = "clear"]
    BY DEF WriteStatus
  <1>3. ZoneOK' /\ QueueOK' /\ CleanupsOK' /\ WorkerOK'
    BY <1>1, <1>2, CleanupsStay DEF ZoneOK, QueueOK, WorkerOK
  <1>4. RecOK' /\ InSyncIsTrue' /\ Keeps
    <2>1. CASE UNCHANGED rec
      BY <1>1, <1>3, <2>1, SameRec
    <2>2. ASSUME StillWanted, Puts(active.s, [rec[active.s] EXCEPT
                   !.status = IF worker.answer = "ok" THEN "in_sync" ELSE "error"])
          PROVE  RecOK' /\ InSyncIsTrue' /\ Keeps
      <3>1. PICK s \in Services, n \in Names :
              s = active.s /\ n = active.name /\ (worker.answer = "ok" => Fine(n))
        BY <1>2 DEF WorkerOK, Update
      <3>2. PICK status \in {"in_sync", "error"} :
              status = IF worker.answer = "ok" THEN "in_sync" ELSE "error"
        OBVIOUS
      <3>3. PICK r \in Live : /\ r = [rec[s] EXCEPT !.status = status]
                              /\ r.dom = n /\ r.status = status
        <4>1. rec[s] \in RecType
          BY DEF RecOK
        <4>2. rec[s].dom = n
          BY <2>2, <3>1 DEF StillWanted
        <4>3. rec[s] \in Live
          BY <4>1, <4>2, IsLive
        <4>4. PICK q \in Live : q = rec[s]
          BY <4>3
        <4>5. [q EXCEPT !.status = status] \in Live
          BY StatusSet
        <4>6. [q EXCEPT !.status = status].dom = n /\ [q EXCEPT !.status = status].status = status
          BY <4>2, <4>4, StatusSet
        <4> QED BY <4>4, <4>5, <4>6
      <3>4. Fine(n)' <=> Fine(n)
        BY <1>1 DEF Fine
      <3>5. Puts(s, r)
        BY <2>2, <3>1, <3>2, <3>3
      <3>6. r.status = "in_sync" => Fine(r.dom)'
        BY <3>1, <3>2, <3>3, <3>4
      <3> QED BY <1>1, <1>3, <3>5, <3>6, PutLive
    <2> QED BY <2>1, <2>2 DEF WriteStatus
  <1>5. ThreadsOK' /\ CallsOK'
    BY <1>1, <1>3, <1>4, NobodyMoves
  <1> QED BY <1>3, <1>4, <1>5

LEMMA ClearInv ==
  ASSUME IInv, Clear
  PROVE  IInv'
  <1> USE DEF IInv
  <1>1. UNCHANGED <<rec, zone, cleanups, moved, call, thread, queue, wake>>
    BY DEF Clear, dns
  <1>2. RecOK' /\ ZoneOK' /\ CleanupsOK' /\ InSyncIsTrue' /\ Keeps
    BY <1>1, Elsewhere
  <1>3. ThreadsOK' /\ CallsOK'
    BY <1>1, <1>2, NobodyMoves
  <1>4. QueueOK' /\ WorkerOK'
    BY <1>1 DEF QueueOK, WorkerOK, Clear, Waiting
  <1> QED BY <1>2, <1>3, <1>4

LEMMA WorkerInv ==
  ASSUME IInv, Worker
  PROVE  IInv'
  BY SyncerIsNoThread, CallApiInv, AwakeInv, TakeInv, SyncAnsweredInv, WriteStatusInv,
     ClearInv DEF Worker

-----------------------------------------------------------------------------
(* Steps of a thread *)

LEMMA ThreadFacts ==
  ASSUME IInv, NEW t \in Threads, thread[t].pc # "idle"
  PROVE  Of(t) \in Services /\ rec[Of(t)] \in Live /\ LocalOK(thread[t], call[t])
  <1>1. PICK y \in ThreadType : y = thread[t] /\ LocalOK(y, call[t])
    BY DEF IInv, ThreadsOK
  <1>2. y.s \in Services /\ rec[y.s].dom \in Names
    BY <1>1 DEF ThreadType, BusyType, Idle, LocalOK
  <1>3. PICK r \in RecType : r = rec[y.s]
    BY <1>2 DEF IInv, RecOK
  <1>4. r \in Live
    BY <1>2, <1>3, IsLive
  <1> QED BY <1>1, <1>2, <1>3, <1>4 DEF Of

LEMMA CopyFacts ==
  ASSUME IInv, NEW t \in Threads,
         thread[t].pc \in {"rename", "starting", "waiting", "prepare", "route", "stopping",
                           "unroute", "stopped", "finish"}
  PROVE  Copy(t) \in Live
  <1>1. PICK y \in ThreadType : y = thread[t]
    BY DEF IInv, ThreadsOK
  <1> QED BY <1>1 DEF ThreadType, BusyType, Idle, Copy

LEMMA IdleOK == Idle \in ThreadType /\ \A k : LocalOK(Idle, k)'
  BY DEF ThreadType, BusyType, Idle, LocalOK

(* A thread writes the record, and its call becomes k.                     *)
LEMMA PutsAndCalls ==
  ASSUME IInv, NEW t \in Threads, NEW s \in Services, NEW r \in Live, Puts(s, r),
         NEW x \in ThreadType, thread' = [thread EXCEPT ![t] = x],
         NEW k \in CallType, call' = [call EXCEPT ![t] = k], CallOK(k)', LocalOK(x, k)',
         UNCHANGED <<zone, work, worker>>,
         moved \subseteq moved', moved' \in SUBSET Names, CleanupsOK',
         r.phase = "running" /\ r.status = "in_sync" => Fine(r.dom)'
  PROVE  IInv'
  <1>1. ZoneOK' /\ QueueOK'
    BY DEF IInv, ZoneOK, QueueOK, work
  <1>2. RecOK' /\ InSyncIsTrue' /\ Keeps
    BY <1>1, PutLive
  <1>3. ThreadsOK' /\ CallsOK' /\ WorkerOK'
    BY <1>1, <1>2, ThreadStep DEF work
  <1> QED BY <1>1, <1>2, <1>3 DEF IInv

(* A thread writes the record and leaves its call as it is.                *)
LEMMA PutsAndMoves ==
  ASSUME IInv, NEW t \in Threads, NEW s \in Services, NEW r \in Live, Puts(s, r),
         NEW x \in ThreadType, thread' = [thread EXCEPT ![t] = x], UNCHANGED call,
         \A k \in CallType : k = call[t] => LocalOK(x, k)',
         UNCHANGED <<zone, work, worker>>,
         moved \subseteq moved', moved' \in SUBSET Names, CleanupsOK',
         r.phase = "running" /\ r.status = "in_sync" => Fine(r.dom)'
  PROVE  IInv'
  <1>1. ZoneOK' /\ QueueOK'
    BY DEF IInv, ZoneOK, QueueOK, work
  <1>2. RecOK' /\ InSyncIsTrue' /\ Keeps
    BY <1>1, PutLive
  <1>3. ThreadsOK' /\ CallsOK' /\ WorkerOK'
    BY <1>1, <1>2, ThreadMoves DEF work
  <1> QED BY <1>1, <1>2, <1>3 DEF IInv

(* A thread goes on, its call becomes k, and the record stays.             *)
LEMMA OnlyCalls ==
  ASSUME IInv, NEW t \in Threads,
         NEW x \in ThreadType, thread' = [thread EXCEPT ![t] = x],
         NEW k \in CallType, call' = [call EXCEPT ![t] = k], CallOK(k)', LocalOK(x, k)',
         UNCHANGED <<rec, zone, work, worker, cleanups, moved>>
  PROVE  IInv'
  <1>1. RecOK' /\ ZoneOK' /\ CleanupsOK' /\ InSyncIsTrue' /\ Keeps
    BY Elsewhere
  <1>2. ThreadsOK' /\ CallsOK' /\ WorkerOK' /\ QueueOK'
    BY <1>1, ThreadStep DEF work, IInv, QueueOK
  <1> QED BY <1>1, <1>2 DEF IInv

(* A thread goes on with the call it has, and the record stays.            *)
LEMMA OnlyMoves ==
  ASSUME IInv, NEW t \in Threads,
         NEW x \in ThreadType, thread' = [thread EXCEPT ![t] = x], UNCHANGED call,
         \A k \in CallType : k = call[t] => LocalOK(x, k)',
         UNCHANGED <<rec, zone, active, worker>>, QueueOK',
         moved \subseteq moved', moved' \in SUBSET Names, CleanupsOK'
  PROVE  IInv'
  <1>1. ZoneOK'
    BY DEF IInv, ZoneOK
  <1>2. RecOK' /\ InSyncIsTrue' /\ Keeps
    BY <1>1, SameRec
  <1>3. ThreadsOK' /\ CallsOK' /\ WorkerOK'
    BY <1>1, <1>2, ThreadMoves
  <1> QED BY <1>1, <1>2, <1>3 DEF IInv

-----------------------------------------------------------------------------
(* Calls *)

LEMMA ClaimInv ==
  ASSUME IInv, NEW t \in Threads, NEW s \in Services, NEW r \in Live, Claims(t, s, r),
         r.phase \in {"starting", "stopping"},
         r.phase = "stopping" => r.op \in {"suspended", "terminated"}
  PROVE  IInv'
  <1> DEFINE x == [pc |-> r.phase, s |-> s, copy |-> r]
  <1>1. thread' = [thread EXCEPT ![t] = x] /\ Puts(s, r)
        /\ UNCHANGED <<zone, call, work, worker, cleanups, moved>>
    BY DEF Claims, Begins, dns
  <1>2. x \in ThreadType
    BY DEF ThreadType, BusyType
  <1>3. rec'[s].dom \in Names
    BY <1>1 DEF Puts, Live, IInv, RecOK
  <1>4. \A k \in CallType : LocalOK(x, k)'
    BY <1>3 DEF LocalOK
  <1>5. moved' \in SUBSET Names /\ CleanupsOK'
    BY <1>1, CleanupsStay DEF IInv, ZoneOK
  <1> HIDE DEF x
  <1> QED BY <1>1, <1>2, <1>4, <1>5, PutsAndMoves

LEMMA StartingLive ==
  ASSUME NEW r \in Live, NEW op \in {"provision", "upgrade", "resume"}, NEW n \in MaybeName
  PROVE  Starting(r, op, n) \in Live /\ Starting(r, op, n).phase = "starting"
  BY DEF Live, RecType, Starting, MaybeName

LEMMA ServingLive ==
  ASSUME NEW n \in Names
  PROVE  [Serving(n) EXCEPT !.status = "pending"] \in Live
  <1>1. Serving(n) \in [state : {"active"}, phase : {"running"}, op : {""}, live : {"blue"},
                        dom : {n}, tdom : {NoName}, status : {"in_sync"}]
    BY DEF Serving, NoRec
  <1>2. Serving(n) \in RecType /\ Serving(n).dom = n
    BY <1>1 DEF RecType, AtRest
  <1>3. Serving(n) \in Live
    BY <1>2 DEF Live
  <1> QED BY <1>3, StatusSet

(* A record somebody may act on is one.                                    *)
LEMMA RecLive ==
  ASSUME IInv, NEW s \in Services,
         rec[s] # NoRec \/ rec[s].state # "absent" \/ rec[s].phase # "absent"
  PROVE  rec[s] \in Live
  <1>1. rec[s] # NoRec
    BY NoRecFields
  <1>2. PICK r \in RecType : r = rec[s]
    BY DEF IInv, RecOK
  <1>3. r.dom \in Names
    BY <1>1, <1>2 DEF IInv, RecOK, RecType
  <1> QED BY <1>2, <1>3, IsLive

LEMMA ProvisionInv ==
  ASSUME IInv, NEW t \in Threads, NEW s \in Services, Provision(t, s)
  PROVE  IInv'
  <1>1. ASSUME NEW n \in Names,
               Claims(t, s, Starting([Serving(n) EXCEPT !.status = "pending"], "provision", NoName))
        PROVE  IInv'
    <2>1. PICK q \in Live : q = [Serving(n) EXCEPT !.status = "pending"]
      BY ServingLive
    <2>2. PICK r \in Live : r = Starting(q, "provision", NoName) /\ r.phase = "starting"
      BY StartingLive DEF MaybeName
    <2> QED BY <1>1, <2>1, <2>2, ClaimInv
  <1>2. ASSUME rec[s].phase = "failed",
               Claims(t, s, Starting(rec[s], "provision", rec[s].tdom))
        PROVE  IInv'
    <2>1. PICK q \in Live : q = rec[s]
      BY <1>2, RecLive
    <2>2. q.tdom \in MaybeName
      BY DEF Live, RecType, MaybeName
    <2>3. PICK r \in Live : r = Starting(q, "provision", q.tdom) /\ r.phase = "starting"
      BY <2>2, StartingLive
    <2> QED BY <1>2, <2>1, <2>3, ClaimInv
  <1> QED BY <1>1, <1>2 DEF Provision

LEMMA UpgradeInv ==
  ASSUME IInv, NEW t \in Threads, NEW s \in Services, Upgrade(t, s)
  PROVE  IInv'
  <1>1. PICK q \in Live : q = rec[s]
    BY RecLive DEF Upgrade, Replaceable
  <1>2. PICK n \in MaybeName :
          Claims(t, s, Starting(q, IF Replaceable(q) THEN q.op ELSE "upgrade",
                                IF Replaceable(q) /\ n = NoName THEN q.tdom ELSE n))
    BY <1>1 DEF Upgrade, MaybeName
  <1>3. PICK op \in {"provision", "upgrade", "resume"} :
          op = IF Replaceable(q) THEN q.op ELSE "upgrade"
    BY DEF Replaceable
  <1>4. PICK m \in MaybeName : m = IF Replaceable(q) /\ n = NoName THEN q.tdom ELSE n
    BY DEF Live, RecType, MaybeName
  <1>5. PICK r \in Live : r = Starting(q, op, m) /\ r.phase = "starting"
    BY StartingLive
  <1> QED BY <1>2, <1>3, <1>4, <1>5, ClaimInv

LEMMA ResumeInv ==
  ASSUME IInv, NEW t \in Threads, NEW s \in Services, Resume(t, s)
  PROVE  IInv'
  <1>1. PICK q \in Live : q = rec[s]
    BY RecLive DEF Resume
  <1>2. PICK r \in Live : r = Starting(q, "resume", NoName) /\ r.phase = "starting"
    BY StartingLive DEF MaybeName
  <1> QED BY <1>1, <1>2, ClaimInv DEF Resume

LEMMA StoppingLive ==
  ASSUME NEW r \in Live, NEW op \in {"suspended", "terminated"}
  PROVE  /\ [r EXCEPT !.phase = "stopping", !.op = op, !.tdom = NoName] \in Live
         /\ [r EXCEPT !.phase = "stopping", !.op = op, !.tdom = NoName].phase = "stopping"
         /\ [r EXCEPT !.phase = "stopping", !.op = op, !.tdom = NoName].op = op
  BY DEF Live, RecType

LEMMA ChangeStateInv ==
  ASSUME IInv, NEW t \in Threads, NEW s \in Services, ChangeState(t, s)
  PROVE  IInv'
  <1>1. PICK target \in {"suspended", "terminated"} :
          /\ rec[s].phase \in AtRest
          /\ Claims(t, s, [rec[s] EXCEPT !.phase = "stopping", !.op = target, !.tdom = NoName])
    BY DEF ChangeState
  <1>2. PICK q \in Live : q = rec[s]
    BY <1>1, RecLive DEF AtRest
  <1> DEFINE r == [q EXCEPT !.phase = "stopping", !.op = target, !.tdom = NoName]
  <1>3. r \in Live /\ r.phase = "stopping" /\ r.op = target
    BY StoppingLive
  <1>4. Claims(t, s, r)
    BY <1>1, <1>2
  <1> HIDE DEF r
  <1> QED BY <1>3, <1>4, ClaimInv

LEMMA QueueDNSInv ==
  ASSUME IInv, NEW t \in Threads, NEW s \in Services, QueueDNS(t, s)
  PROVE  IInv'
  <1>1. PICK q \in Live : q = rec[s]
    BY RecLive DEF QueueDNS
  <1>2. PICK r \in Live : /\ r = [q EXCEPT !.status = "pending"]
                          /\ r.status = "pending" /\ r.dom = q.dom
    BY StatusSet
  <1> DEFINE x == [pc |-> "enqueue", s |-> s, name |-> q.dom, old |-> NoName]
  <1>3. Puts(s, r) /\ thread' = [thread EXCEPT ![t] = x]
        /\ UNCHANGED <<zone, call, work, worker, cleanups, moved>>
    BY <1>1, <1>2 DEF QueueDNS, dns
  <1>4. x \in ThreadType
    BY DEF ThreadType, Live, MaybeName
  <1>5. rec'[s].dom \in Names
    BY <1>3 DEF Puts, Live, IInv, RecOK
  <1>6. \A k \in CallType : LocalOK(x, k)'
    BY <1>5 DEF LocalOK
  <1>7. moved' \in SUBSET Names /\ CleanupsOK'
    BY <1>3, CleanupsStay DEF IInv, ZoneOK
  <1> HIDE DEF x
  <1> QED BY <1>2, <1>3, <1>4, <1>6, <1>7, PutsAndMoves

LEMMA RedeployTerminatedInv ==
  ASSUME IInv, NEW s \in Services, RedeployTerminated(s)
  PROVE  IInv'
  <1>1. PICK q \in Live : q = rec[s] /\ q.phase = "stopped"
    BY RecLive DEF RedeployTerminated
  <1>2. PICK n \in Names : Puts(s, [q EXCEPT !.dom = n])
    BY <1>1 DEF RedeployTerminated
  <1>3. [q EXCEPT !.dom = n] \in Live /\ [q EXCEPT !.dom = n].phase = "stopped"
    BY <1>1 DEF Live, RecType
  <1>4. PICK r \in Live : r = [q EXCEPT !.dom = n] /\ r.phase = "stopped"
    BY <1>3
  <1>5. Puts(s, r) /\ UNCHANGED <<zone, call, work, worker, thread, cleanups, moved>>
    BY <1>2, <1>4 DEF RedeployTerminated, dns
  <1>6. ZoneOK' /\ QueueOK' /\ CleanupsOK'
    BY <1>5, CleanupsStay DEF IInv, ZoneOK, QueueOK, work
  <1>7. RecOK' /\ InSyncIsTrue' /\ Keeps
    BY <1>4, <1>5, <1>6, PutLive
  <1>8. ThreadsOK' /\ CallsOK' /\ WorkerOK'
    BY <1>5, <1>6, <1>7, NobodyMoves, WorkerStays DEF work
  <1> QED BY <1>6, <1>7, <1>8 DEF IInv

LEMMA DeployDomainsInv ==
  ASSUME IInv, NEW t \in Threads, NEW s \in Services, DeployDomains(t, s)
  PROVE  IInv'
  <1>1. PICK n \in Names : /\ MayRename(rec[s])
                           /\ thread' = [thread EXCEPT ![t] =
                                [pc |-> "rename", s |-> s, copy |-> rec[s], name |-> n]]
                           /\ Asks(t, n)
    BY DEF DeployDomains
  <1>2. PICK q \in Live : q = rec[s]
    BY <1>1, RecLive DEF MayRename
  <1> DEFINE x == [pc |-> "rename", s |-> s, copy |-> q, name |-> n]
  <1>3. thread' = [thread EXCEPT ![t] = x]
        /\ UNCHANGED <<rec, zone, work, worker, cleanups, moved>>
    BY <1>1, <1>2 DEF DeployDomains
  <1>4. PICK k \in CallType : /\ call' = [call EXCEPT ![t] = k]
                              /\ k.name = n
                              /\ CallOK(k)'
    BY <1>1, AsksOK, SyncerIsNoThread
  <1>5. x \in ThreadType
    BY DEF ThreadType, BusyType
  <1>6. rec'[s].dom \in Names
    BY <1>2, <1>3 DEF Live
  <1>7. LocalOK(x, k)'
    BY <1>4, <1>6 DEF LocalOK
  <1> HIDE DEF x
  <1> QED BY <1>3, <1>4, <1>5, <1>7, OnlyCalls

LEMMA CallInv ==
  ASSUME IInv, NEW t \in Threads, NEW s \in Services, Call(t, s)
  PROVE  IInv'
  BY ProvisionInv, UpgradeInv, ResumeInv, RedeployTerminatedInv, ChangeStateInv,
     DeployDomainsInv, QueueDNSInv DEF Call

-----------------------------------------------------------------------------
(* Queueing *)

LEMMA UpdateFacts ==
  ASSUME IInv, NEW t \in Threads, thread[t].pc \in {"enqueue", "signal"}
  PROVE  /\ thread[t].name \in Names
         /\ thread[t].old \in moved \union {NoName}
         /\ [thread[t] EXCEPT !.pc = "signal"] \in ThreadType
         /\ \A k : LocalOK([thread[t] EXCEPT !.pc = "signal"], k)
  <1>1. PICK y \in ThreadType : y = thread[t] /\ LocalOK(y, call[t])
    BY DEF IInv, ThreadsOK
  <1>2. y \in [pc : {"enqueue", "signal"}, s : Services, name : Names, old : MaybeName]
    BY <1>1 DEF ThreadType, BusyType, Idle
  <1>3. y.old \in moved \union {NoName} /\ rec[y.s].dom \in Names
    BY <1>1, <1>2 DEF LocalOK
  <1> DEFINE x == [y EXCEPT !.pc = "signal"]
  <1>4. x \in ThreadType /\ x.pc = "signal" /\ x.s = y.s /\ x.old = y.old
    BY <1>2 DEF ThreadType, BusyType
  <1> HIDE DEF x
  <1>5. \A k : LocalOK(x, k)
    BY <1>3, <1>4 DEF LocalOK
  <1> QED BY <1>1, <1>2, <1>3, <1>4, <1>5 DEF x

LEMMA EnqueueInv ==
  ASSUME IInv, NEW t \in Threads, Enqueue(t)
  PROVE  IInv'
  <1>1. thread[t].pc = "enqueue"
    BY DEF Enqueue, At
  <1>2. UNCHANGED <<rec, zone, call, active, wake, worker, moved>>
    BY DEF Enqueue, dns
  <1>3. moved \subseteq moved' /\ moved' \in SUBSET Names
    BY <1>2 DEF IInv, ZoneOK
  <1>4. PICK s \in Services, n \in Names : s = Of(t) /\ n = thread[t].name
    BY <1>1, ThreadFacts, UpdateFacts
  <1>5. ASSUME Returns(t), CleanUp(t, thread[t].old), UNCHANGED queue
        PROVE  IInv'
    <2>1. thread' = [thread EXCEPT ![t] = Idle]
      BY <1>5 DEF Returns
    <2>2. PICK old \in moved \union {NoName} : old = thread[t].old
      BY <1>1, UpdateFacts
    <2>3. CleanupsOK'
      BY <1>2, <1>5, <2>2, CleanUpAdded DEF IInv
    <2>4. QueueOK'
      BY <1>2, <1>5 DEF IInv, QueueOK
    <2> QED BY <1>2, <1>3, <2>1, <2>3, <2>4, IdleOK, OnlyMoves
  <1>6. ASSUME queue' = [queue EXCEPT ![Of(t)] = thread[t].name], Go(t, "signal"),
               UNCHANGED cleanups
        PROVE  IInv'
    <2>1. PICK x \in ThreadType : /\ x = [thread[t] EXCEPT !.pc = "signal"]
                                  /\ \A k : LocalOK(x, k)
      BY <1>1, UpdateFacts
    <2>2. thread' = [thread EXCEPT ![t] = x]
      BY <1>6, <2>1 DEF Go, IInv, ThreadsOK
    <2>3. QueueOK'
      BY <1>2, <1>4, <1>6 DEF IInv, QueueOK, MaybeName
    <2>4. CleanupsOK'
      BY <1>3, <1>6, CleanupsStay DEF IInv
    <2>5. \A k \in CallType : LocalOK(x, k)'
      BY <1>2, <2>1 DEF LocalOK, Fine
    <2> QED BY <1>2, <1>3, <2>2, <2>3, <2>4, <2>5, OnlyMoves
  <1> QED BY <1>5, <1>6 DEF Enqueue

LEMMA SignalInv ==
  ASSUME IInv, NEW t \in Threads, Signal(t)
  PROVE  IInv'
  <1>1. UNCHANGED <<rec, zone, call, queue, active, worker, moved>>
    BY DEF Signal, dns
  <1>2. moved \subseteq moved' /\ moved' \in SUBSET Names
    BY <1>1 DEF IInv, ZoneOK
  <1>3. thread' = [thread EXCEPT ![t] = Idle]
    BY DEF Signal, Returns
  <1>4. PICK old \in moved \union {NoName} : old = thread[t].old
    BY UpdateFacts DEF Signal, At
  <1>5. CleanupsOK'
    BY <1>1, <1>4, CleanUpAdded DEF IInv, Signal
  <1>6. QueueOK'
    BY <1>1 DEF IInv, QueueOK, Signal
  <1> QED BY <1>1, <1>2, <1>3, <1>5, <1>6, IdleOK, OnlyMoves

(* How an operation ends: at once, or by queueing its update.              *)
LEMMA EnqueueOrReturnStep ==
  ASSUME IInv, NEW t \in Threads, NEW s \in Services, s = Of(t), NEW retry \in BOOLEAN,
         NEW n \in Names, NEW old \in moved' \union {NoName}, moved' \in SUBSET Names,
         EnqueueOrReturn(t, retry, n, old), rec'[s].dom \in Names
  PROVE  \E x \in ThreadType : /\ thread' = [thread EXCEPT ![t] = x]
                               /\ \A k : LocalOK(x, k)'
  <1>1. CASE retry
    <2> DEFINE x == [pc |-> "enqueue", s |-> s, name |-> n, old |-> old]
    <2>1. x \in ThreadType
      BY DEF ThreadType, MaybeName
    <2>2. thread' = [thread EXCEPT ![t] = x]
      BY <1>1 DEF EnqueueOrReturn
    <2>3. \A k : LocalOK(x, k)'
      BY DEF LocalOK
    <2> QED BY <2>1, <2>2, <2>3
  <1>2. CASE ~retry
    BY <1>2, IdleOK DEF EnqueueOrReturn, Returns
  <1> QED BY <1>1, <1>2

-----------------------------------------------------------------------------
(* Hostname changes *)

(* What the answer to a call says of its domain.                           *)
LEMMA AnswerFacts ==
  ASSUME IInv, NEW t \in Threads, Answered(t)
  PROVE  /\ Result(t) \in {"in_sync", "pending", "error"}
         /\ Result(t) = "in_sync" => Fine(call[t].name)
         /\ call[t].name \in Names
  <1>1. PICK k \in CallType : k = call[t] /\ CallOK(k)
    BY SyncerIsNoThread DEF IInv, CallsOK
  <1>2. k.at \in {"ok", "transient", "permanent"} /\ k.name \in Names
    BY <1>1 DEF Answered, CallType, NoCall
  <1>3. k.at = "ok" => Fine(k.name)
    BY <1>1, <1>2 DEF CallOK, Fine
  <1>4. k.at = "ok" <=> Result(t) = "in_sync"
    BY <1>1, <1>2 DEF Result
  <1>5. Result(t) \in {"in_sync", "pending", "error"}
    BY <1>1, <1>2 DEF Result
  <1> QED BY <1>1, <1>2, <1>3, <1>4, <1>5

LEMMA ApplyDomainsInv ==
  ASSUME IInv, NEW t \in Threads, ApplyDomains(t)
  PROVE  IInv'
  <1>1. thread[t].pc = "rename"
    BY DEF ApplyDomains, At
  <1>2. PICK y \in ThreadType : y = thread[t] /\ LocalOK(y, call[t])
    BY DEF IInv, ThreadsOK
  <1>3. PICK n \in Names, c \in Live, s \in Services :
          n = thread[t].name /\ c = Copy(t) /\ s = Of(t) /\ call[t].name = n
    BY <1>1, <1>2 DEF ThreadType, BusyType, Idle, LocalOK, Copy, Of
  <1>4. PICK q \in Live : q = rec[s]
    BY <1>1, <1>3, ThreadFacts
  <1>5. PICK old \in MaybeName : old = IF c.dom = n THEN NoName ELSE c.dom
    BY DEF Live, MaybeName
  <1>6. /\ moved' = moved \union ({old} \ {NoName})
        /\ EnqueueOrReturn(t, call[t].at = "transient", n, NoName)
        /\ CleanUp(t, old)
        /\ call' = [call EXCEPT ![t] = NoCall]
        /\ UNCHANGED <<zone, work, worker>>
    BY <1>3, <1>5 DEF ApplyDomains, Drops
  <1>7. PICK status \in {"in_sync", "pending", "error"} :
          status = Result(t) /\ (status = "in_sync" => Fine(n))
    BY <1>3, AnswerFacts DEF ApplyDomains
  <1> DEFINE r == [q EXCEPT !.dom = n, !.status = status]
  <1>8. r \in Live /\ r.dom = n /\ r.status = status
    <2>1. q \in RecType /\ q.dom \in Names
      BY DEF Live
    <2>2. r \in RecType /\ r.dom = n /\ r.status = status
      BY <2>1 DEF RecType
    <2> HIDE DEF r
    <2> QED BY <2>2, IsLive
  <1>9. Puts(s, r)
    BY <1>3, <1>4, <1>7 DEF ApplyDomains
  <1> HIDE DEF r
  <1>10. moved \subseteq moved' /\ moved' \in SUBSET Names /\ old \in moved' \union {NoName}
    BY <1>6 DEF IInv, ZoneOK, MaybeName
  <1>11. CleanupsOK'
    BY <1>6, <1>10, CleanUpAdded DEF IInv
  <1>12. rec'[s].dom \in Names
    BY <1>8, <1>9 DEF Puts, IInv, RecOK
  <1>13. PICK retry \in BOOLEAN : retry <=> call[t].at = "transient"
    OBVIOUS
  <1>14. EnqueueOrReturn(t, retry, n, NoName)
    BY <1>6, <1>13 DEF EnqueueOrReturn
  <1>15. PICK x \in ThreadType : /\ thread' = [thread EXCEPT ![t] = x]
                                 /\ \A k : LocalOK(x, k)'
    BY <1>3, <1>10, <1>12, <1>14, EnqueueOrReturnStep
  <1>16. r.status = "in_sync" => Fine(r.dom)'
    BY <1>6, <1>7, <1>8, <1>10 DEF Fine
  <1> QED BY <1>6, <1>8, <1>9, <1>10, <1>11, <1>15, <1>16, NoCallOK, PutsAndCalls

LEMMA RenameFailsInv ==
  ASSUME IInv, NEW t \in Threads, RenameFails(t)
  PROVE  IInv'
  BY IdleOK, NoCallOK, OnlyCalls DEF RenameFails, Returns, Drops

-----------------------------------------------------------------------------
(* Deployments *)

(* A copy or a record in another phase.                                    *)
LEMMA PhaseSet ==
  ASSUME NEW r \in Live,
         NEW phase \in {"waiting", "routing", "draining", "stopped", "failed"}
  PROVE  /\ [r EXCEPT !.phase = phase] \in Live
         /\ [r EXCEPT !.phase = phase].phase = phase
         /\ [r EXCEPT !.phase = phase].dom = r.dom
         /\ [r EXCEPT !.phase = phase].status = r.status
  BY DEF Live, RecType, AtRest

LEMMA StatePhaseSet ==
  ASSUME NEW r \in Live, NEW phase \in {"routing", "failed"},
         NEW state \in {"absent", "active", "suspended", "terminated"}
  PROVE  /\ [r EXCEPT !.state = state, !.phase = phase] \in Live
         /\ [r EXCEPT !.state = state, !.phase = phase].phase = phase
  BY DEF Live, RecType, AtRest

LEMMA IsBusy ==
  ASSUME NEW y \in ThreadType,
         y.pc \in {"starting", "waiting", "prepare", "route", "stopping", "unroute", "stopped"}
  PROVE  y \in BusyType
  BY DEF ThreadType, BusyType, Idle

LEMMA Returned ==
  ASSUME IInv, NEW t \in Threads, Returns(t)
  PROVE  thread' = [thread EXCEPT ![t] = Idle]
  BY DEF Returns

LEMMA PutWaitingInv ==
  ASSUME IInv, NEW t \in Threads, PutWaiting(t)
  PROVE  IInv'
  <1>1. thread[t].pc = "starting"
    BY DEF PutWaiting, At
  <1>2. PICK y \in ThreadType, s \in Services, c \in Live :
          y = thread[t] /\ s = y.s /\ s = Of(t) /\ c = Copy(t)
    BY <1>1, ThreadFacts, CopyFacts DEF IInv, ThreadsOK, Of
  <1> DEFINE r == [c EXCEPT !.phase = "waiting"]
             x == [y EXCEPT !.pc = "waiting"]
  <1>3. r \in Live /\ r.phase = "waiting"
    BY PhaseSet
  <1>4. x \in ThreadType /\ x.pc = "waiting" /\ x.s = s
    <2>1. y \in BusyType
      BY <1>1, <1>2, IsBusy
    <2> QED BY <1>2, <2>1 DEF ThreadType, BusyType
  <1>5. Puts(s, r) /\ thread' = [thread EXCEPT ![t] = x]
        /\ UNCHANGED <<zone, call, work, worker, cleanups, moved>>
    BY <1>2 DEF PutWaiting, Go, dns, IInv, ThreadsOK
  <1> HIDE DEF r, x
  <1>6. rec'[s].dom \in Names
    BY <1>3, <1>5 DEF Puts, IInv, RecOK, Live
  <1>7. \A k \in CallType : LocalOK(x, k)'
    BY <1>4, <1>6 DEF LocalOK
  <1>8. moved' \in SUBSET Names /\ CleanupsOK'
    BY <1>5, CleanupsStay DEF IInv, ZoneOK
  <1> QED BY <1>3, <1>4, <1>5, <1>7, <1>8, PutsAndMoves

LEMMA HealthVerdictInv ==
  ASSUME IInv, NEW t \in Threads, HealthVerdict(t)
  PROVE  IInv'
  <1>1. thread[t].pc = "waiting"
    BY DEF HealthVerdict, At
  <1>2. PICK y \in ThreadType, s \in Services, q \in Live :
          y = thread[t] /\ s = y.s /\ s = Of(t) /\ q = rec[s]
    BY <1>1, ThreadFacts DEF IInv, ThreadsOK, Of
  <1>3. UNCHANGED <<zone, work, worker, cleanups, moved>>
    BY DEF HealthVerdict
  <1>4. moved' \in SUBSET Names /\ CleanupsOK'
    BY <1>3, CleanupsStay DEF IInv, ZoneOK
  <1> DEFINE r == [q EXCEPT !.phase = "routing", !.status = "pending"]
  <1>5. r \in Live /\ r.phase = "routing"
    BY DEF Live, RecType
  <1>6. ASSUME Puts(s, r), GoWith(t, "prepare", r), Asks(t, RoutingDomain(r))
        PROVE  IInv'
    <2> DEFINE x == [y EXCEPT !.pc = "prepare", !.copy = r]
    <2>1. x \in ThreadType /\ x.pc = "prepare" /\ x.s = s /\ x.copy = r
      <3>1. y \in BusyType
        BY <1>1, <1>2, IsBusy
      <3> HIDE DEF r
      <3> QED BY <1>2, <1>5, <3>1 DEF ThreadType, BusyType
    <2>2. thread' = [thread EXCEPT ![t] = x]
      BY <1>2, <1>6 DEF GoWith, IInv, ThreadsOK
    <2> HIDE DEF x, r
    <2>3. PICK n \in Names : n = RoutingDomain(r)
      BY <1>5, RoutingName
    <2>4. PICK k \in CallType : /\ call' = [call EXCEPT ![t] = k]
                                /\ k.name = n
                                /\ CallOK(k)'
      BY <1>6, <2>3, AsksOK, SyncerIsNoThread
    <2>5. rec'[s].dom \in Names
      BY <1>5, <1>6 DEF Puts, IInv, RecOK, Live
    <2>6. LocalOK(x, k)'
      BY <1>5, <2>1, <2>3, <2>4, <2>5 DEF LocalOK
    <2> QED BY <1>3, <1>4, <1>5, <1>6, <2>1, <2>2, <2>4, <2>6, PutsAndCalls
  <1>7. ASSUME Puts(s, [q EXCEPT !.phase = "failed"]), Returns(t), UNCHANGED call
        PROVE  IInv'
    <2> DEFINE f == [q EXCEPT !.phase = "failed"]
    <2>1. f \in Live /\ f.phase = "failed"
      BY PhaseSet
    <2>2. Puts(s, f)
      BY <1>7
    <2> HIDE DEF f
    <2> QED BY <1>3, <1>4, <1>7, <2>1, <2>2, IdleOK, Returned, PutsAndMoves
  <1> QED BY <1>2, <1>6, <1>7 DEF HealthVerdict

LEMMA PrepareDNSInv ==
  ASSUME IInv, NEW t \in Threads, PrepareDNS(t)
  PROVE  IInv'
  <1>1. thread[t].pc = "prepare" /\ Answered(t)
    BY DEF PrepareDNS, At
  <1>2. PICK y \in ThreadType, s \in Services, c \in Live :
          y = thread[t] /\ s = y.s /\ s = Of(t) /\ c = Copy(t) /\ c = y.copy
    BY <1>1, ThreadFacts, CopyFacts DEF IInv, ThreadsOK, Of, Copy
  <1>3. c.phase = "routing" /\ call[t].name = RoutingDomain(c)
    BY <1>1, <1>2, ThreadFacts DEF LocalOK
  <1>4. PICK status \in {"in_sync", "pending", "error"} :
          status = Result(t) /\ (status = "in_sync" => Fine(RoutingDomain(c)))
    BY <1>1, <1>3, AnswerFacts
  <1> DEFINE r == [c EXCEPT !.status = status]
             x == [y EXCEPT !.pc = "route", !.copy = r]
  <1>5. r \in Live /\ r.phase = "routing" /\ r.status = status
        /\ r.dom = c.dom /\ r.tdom = c.tdom
    BY <1>3, StatusSet
  <1>6. x \in ThreadType /\ x.pc = "route" /\ x.s = s /\ x.copy = r
    <2>1. y \in BusyType
      BY <1>1, <1>2, IsBusy
    <2> HIDE DEF r
    <2> QED BY <1>2, <1>5, <2>1 DEF ThreadType, BusyType
  <1>7. Puts(s, r) /\ thread' = [thread EXCEPT ![t] = x]
        /\ UNCHANGED <<zone, call, work, worker, cleanups, moved>>
    BY <1>2, <1>4 DEF PrepareDNS, GoWith, dns, IInv, ThreadsOK
  <1> HIDE DEF r, x
  <1>8. rec'[s].dom \in Names
    BY <1>5, <1>7 DEF Puts, IInv, RecOK, Live
  <1>9. RoutingDomain(r) = RoutingDomain(c)
    BY <1>5 DEF RoutingDomain
  <1>10. \A k \in CallType : LocalOK(x, k)'
    BY <1>4, <1>5, <1>6, <1>7, <1>8, <1>9 DEF LocalOK, Fine
  <1>11. moved' \in SUBSET Names /\ CleanupsOK'
    BY <1>7, CleanupsStay DEF IInv, ZoneOK
  <1> QED BY <1>5, <1>6, <1>7, <1>10, <1>11, PutsAndMoves

LEMMA RenamedDraining ==
  ASSUME NEW c \in Live
  PROVE  /\ [Renamed(c) EXCEPT !.phase = "draining"] \in Live
         /\ [Renamed(c) EXCEPT !.phase = "draining"].phase = "draining"
         /\ [Renamed(c) EXCEPT !.phase = "draining"].dom = RoutingDomain(c)
         /\ [Renamed(c) EXCEPT !.phase = "draining"].status = c.status
  <1>1. PICK n \in Names : n = RoutingDomain(c)
    BY RoutingName
  <1> DEFINE r == [c EXCEPT !.dom = n, !.tdom = NoName]
  <1>2. r \in Live /\ r.dom = n /\ r.status = c.status
    <2>1. c \in RecType /\ c.dom \in Names
      BY DEF Live
    <2>2. r \in RecType /\ r.dom = n /\ r.status = c.status
      BY <2>1 DEF RecType
    <2> HIDE DEF r
    <2> QED BY <2>2, IsLive
  <1>3. r = Renamed(c)
    BY <1>1 DEF Renamed
  <1> HIDE DEF r
  <1>4. /\ [r EXCEPT !.phase = "draining"] \in Live
        /\ [r EXCEPT !.phase = "draining"].phase = "draining"
        /\ [r EXCEPT !.phase = "draining"].dom = r.dom
        /\ [r EXCEPT !.phase = "draining"].status = r.status
    BY <1>2 DEF Live, RecType
  <1> QED BY <1>1, <1>2, <1>3, <1>4

LEMMA RouteInv ==
  ASSUME IInv, NEW t \in Threads, Route(t)
  PROVE  IInv'
  <1>1. thread[t].pc = "route"
    BY DEF Route, At
  <1>2. PICK y \in ThreadType, s \in Services, c \in Live :
          y = thread[t] /\ s = y.s /\ s = Of(t) /\ c = Copy(t) /\ c = y.copy
    BY <1>1, ThreadFacts, CopyFacts DEF IInv, ThreadsOK, Of, Copy
  <1>3. c.status = "in_sync" => Fine(RoutingDomain(c))
    BY <1>1, <1>2, ThreadFacts DEF LocalOK
  <1>4. PICK old \in MaybeName :
          old = IF RoutingDomain(c) = c.dom THEN NoName ELSE c.dom
    BY DEF Live, MaybeName
  <1> DEFINE r == [Renamed(c) EXCEPT !.phase = "draining"]
             x == [pc |-> "finish", s |-> s, copy |-> r, old |-> old]
  <1>5. r \in Live /\ r.phase = "draining" /\ r.dom = RoutingDomain(c)
        /\ r.status = c.status
    BY RenamedDraining
  <1>6. x \in ThreadType /\ x.pc = "finish" /\ x.s = s /\ x.copy = r
    BY <1>5 DEF ThreadType, BusyType
  <1>7. /\ thread' = [thread EXCEPT ![t] = x]
        /\ UNCHANGED <<zone, call, work, worker, cleanups>>
        /\ \/ Puts(s, r) /\ moved' = moved \union ({old} \ {NoName})
           \/ UNCHANGED <<rec, moved>>
    BY <1>2, <1>4 DEF Route, dns
  <1> HIDE DEF r, x
  <1>8. moved \subseteq moved' /\ moved' \in SUBSET Names
    BY <1>7 DEF IInv, ZoneOK, MaybeName
  <1>9. CleanupsOK' /\ QueueOK'
    BY <1>7, <1>8, CleanupsStay DEF IInv, QueueOK, work
  <1>10. rec'[s].dom \in Names
    BY <1>1, <1>2, <1>5, <1>7, ThreadFacts DEF Puts, IInv, RecOK, Live
  <1>11. \A k \in CallType : LocalOK(x, k)'
    BY <1>3, <1>5, <1>6, <1>7, <1>8, <1>10 DEF LocalOK, Fine
  <1>12. CASE Puts(s, r)
    BY <1>5, <1>6, <1>7, <1>8, <1>9, <1>11, <1>12, PutsAndMoves
  <1>13. CASE UNCHANGED <<rec, moved>>
    BY <1>6, <1>7, <1>8, <1>9, <1>11, <1>13, OnlyMoves DEF work
  <1> QED BY <1>7, <1>12, <1>13

LEMMA RunningLive ==
  ASSUME NEW c \in Live, NEW live \in {"blue", "green"}
  PROVE  /\ [c EXCEPT !.state = "active", !.phase = "running", !.op = "", !.live = live] \in Live
         /\ [c EXCEPT !.state = "active", !.phase = "running", !.op = "", !.live = live].dom = c.dom
         /\ [c EXCEPT !.state = "active", !.phase = "running", !.op = "", !.live = live].status
              = c.status
  BY DEF Live, RecType, AtRest

LEMMA PutRunningInv ==
  ASSUME IInv, NEW t \in Threads, PutRunning(t)
  PROVE  IInv'
  <1>1. thread[t].pc = "finish"
    BY DEF PutRunning, At
  <1>2. PICK y \in ThreadType, s \in Services, c \in Live, old \in MaybeName :
          y = thread[t] /\ s = Of(t) /\ c = Copy(t) /\ c = y.copy /\ old = y.old
    BY <1>1, ThreadFacts, CopyFacts DEF IInv, ThreadsOK, Of, Copy, ThreadType, BusyType, Idle
  <1>3. c.status = "in_sync" => Fine(c.dom)
    BY <1>1, <1>2, ThreadFacts DEF LocalOK
  <1>4. PICK live \in {"blue", "green"} :
          live = IF c.op = "provision" THEN c.live ELSE Opposite(c.live)
    BY DEF Live, RecType, Opposite
  <1> DEFINE r == [c EXCEPT !.state = "active", !.phase = "running", !.op = "", !.live = live]
  <1>5. r \in Live /\ r.dom = c.dom /\ r.status = c.status
    BY RunningLive
  <1>6. Puts(s, r)
    BY <1>2, <1>4 DEF PutRunning
  <1>7. PICK retry \in BOOLEAN : retry <=> call[t].at = "transient"
    OBVIOUS
  <1>8. /\ moved' = moved \union ({old} \ {NoName})
        /\ EnqueueOrReturn(t, retry, c.dom, old)
        /\ UNCHANGED cleanups \/ CleanUp(t, old)
        /\ call' = [call EXCEPT ![t] = NoCall]
        /\ UNCHANGED <<zone, work, worker>>
    BY <1>2, <1>7 DEF PutRunning, Drops, EnqueueOrReturn
  <1> HIDE DEF r
  <1>9. moved \subseteq moved' /\ moved' \in SUBSET Names /\ old \in moved' \union {NoName}
    BY <1>8 DEF IInv, ZoneOK, MaybeName
  <1>10. CleanupsOK'
    BY <1>8, <1>9, CleanUpAdded, CleanupsStay DEF IInv
  <1>11. rec'[s].dom \in Names /\ c.dom \in Names
    BY <1>5, <1>6 DEF Puts, IInv, RecOK, Live
  <1>12. PICK x \in ThreadType : /\ thread' = [thread EXCEPT ![t] = x]
                                 /\ \A k : LocalOK(x, k)'
    BY <1>2, <1>8, <1>9, <1>11, EnqueueOrReturnStep
  <1>13. r.status = "in_sync" => Fine(r.dom)'
    BY <1>3, <1>5, <1>8, <1>9 DEF Fine
  <1> QED BY <1>5, <1>6, <1>8, <1>9, <1>10, <1>12, <1>13, NoCallOK, PutsAndCalls

-----------------------------------------------------------------------------
(* Suspending and terminating *)

LEMMA PutTargetStateInv ==
  ASSUME IInv, NEW t \in Threads, PutTargetState(t)
  PROVE  IInv'
  <1>1. thread[t].pc = "stopping"
    BY DEF PutTargetState, At
  <1>2. PICK y \in ThreadType, s \in Services, c \in Live :
          y = thread[t] /\ s = y.s /\ s = Of(t) /\ c = Copy(t) /\ c = y.copy
    BY <1>1, ThreadFacts, CopyFacts DEF IInv, ThreadsOK, Of, Copy
  <1>3. c.op \in {"suspended", "terminated"}
    BY <1>1, <1>2, ThreadFacts DEF LocalOK
  <1> DEFINE r == [c EXCEPT !.state = c.op, !.phase = "routing"]
             x == [y EXCEPT !.pc = "unroute"]
  <1>4. r \in Live /\ r.phase = "routing"
    <2>1. c \in RecType /\ c.dom \in Names
      BY DEF Live
    <2>2. r \in RecType /\ r.dom \in Names /\ r.phase = "routing"
      BY <1>3, <2>1 DEF RecType
    <2> HIDE DEF r
    <2> QED BY <2>2, IsLive
  <1>5. x \in ThreadType /\ x.pc = "unroute" /\ x.s = s
    <2>1. y \in BusyType
      BY <1>1, <1>2, IsBusy
    <2> QED BY <1>2, <2>1 DEF ThreadType, BusyType
  <1>6. Puts(s, r) /\ thread' = [thread EXCEPT ![t] = x]
        /\ UNCHANGED <<zone, call, work, worker, cleanups, moved>>
    BY <1>2 DEF PutTargetState, Go, dns, IInv, ThreadsOK
  <1> HIDE DEF r, x
  <1>7. rec'[s].dom \in Names
    BY <1>4, <1>6 DEF Puts, IInv, RecOK, Live
  <1>8. \A k \in CallType : LocalOK(x, k)'
    BY <1>5, <1>7 DEF LocalOK
  <1>9. moved' \in SUBSET Names /\ CleanupsOK'
    BY <1>6, CleanupsStay DEF IInv, ZoneOK
  <1> QED BY <1>4, <1>5, <1>6, <1>8, <1>9, PutsAndMoves

LEMMA UnrouteInv ==
  ASSUME IInv, NEW t \in Threads, Unroute(t)
  PROVE  IInv'
  <1>1. thread[t].pc = "unroute"
    BY DEF Unroute, At
  <1>2. PICK y \in ThreadType, s \in Services, q \in Live :
          y = thread[t] /\ s = y.s /\ s = Of(t) /\ q = rec[s]
    BY <1>1, ThreadFacts DEF IInv, ThreadsOK, Of
  <1> DEFINE x == [y EXCEPT !.pc = "stopped", !.copy = q]
  <1>3. x \in ThreadType /\ x.pc = "stopped" /\ x.s = s
    <2>1. y \in BusyType
      BY <1>1, <1>2, IsBusy
    <2> QED BY <1>2, <2>1 DEF ThreadType, BusyType
  <1>4. thread' = [thread EXCEPT ![t] = x]
        /\ UNCHANGED <<rec, zone, call, work, worker, cleanups, moved>>
    BY <1>2 DEF Unroute, GoWith, dns, IInv, ThreadsOK
  <1> HIDE DEF x
  <1>5. rec'[s].dom \in Names
    BY <1>2, <1>4 DEF Live
  <1>6. \A k \in CallType : LocalOK(x, k)'
    BY <1>3, <1>5 DEF LocalOK
  <1>7. moved' \in SUBSET Names /\ CleanupsOK' /\ QueueOK'
    BY <1>4, CleanupsStay DEF IInv, ZoneOK, QueueOK, work
  <1> QED BY <1>3, <1>4, <1>6, <1>7, OnlyMoves DEF work

LEMMA PutStoppedInv ==
  ASSUME IInv, NEW t \in Threads, PutStopped(t)
  PROVE  IInv'
  <1>1. thread[t].pc = "stopped"
    BY DEF PutStopped, At
  <1>2. PICK s \in Services, c \in Live : s = Of(t) /\ c = Copy(t)
    BY <1>1, ThreadFacts, CopyFacts
  <1> DEFINE r == [c EXCEPT !.phase = "stopped", !.op = ""]
  <1>3. r \in Live /\ r.phase = "stopped"
    <2>1. c \in RecType /\ c.dom \in Names
      BY DEF Live
    <2>2. r \in RecType /\ r.dom \in Names /\ r.phase = "stopped"
      BY <2>1 DEF RecType, AtRest
    <2> HIDE DEF r
    <2> QED BY <2>2, IsLive
  <1>4. Puts(s, r) /\ Returns(t)
        /\ UNCHANGED <<zone, call, work, worker, cleanups, moved>>
    BY <1>2 DEF PutStopped, dns
  <1> HIDE DEF r
  <1>5. moved' \in SUBSET Names /\ CleanupsOK'
    BY <1>4, CleanupsStay DEF IInv, ZoneOK
  <1> QED BY <1>3, <1>4, <1>5, IdleOK, Returned, PutsAndMoves

-----------------------------------------------------------------------------
(* Failures *)

LEMMA FailsInv ==
  ASSUME IInv, NEW t \in Threads, Fails(t)
  PROVE  IInv'
  <1>1. thread[t].pc \in {"starting", "prepare", "route", "finish", "stopping", "stopped"}
    BY DEF Fails
  <1>2. PICK s \in Services, c \in Live : s = Of(t) /\ c = Copy(t)
    BY <1>1, ThreadFacts, CopyFacts
  <1>3. PICK state \in {"absent", "active", "suspended", "terminated"} :
          Puts(s, [c EXCEPT !.state = state, !.phase = "failed"])
    <2>1. PICK state \in {c.state} \union {x \in {c.op} : At(t, "stopping")} :
            Puts(s, [c EXCEPT !.state = state, !.phase = "failed"])
      BY <1>2 DEF Fails
    <2>2. At(t, "stopping") => c.op \in {"suspended", "terminated"}
      BY <1>1, <1>2, ThreadFacts DEF LocalOK, At, Copy
    <2>3. c.state \in {"absent", "active", "suspended", "terminated"}
      BY DEF Live, RecType
    <2> QED BY <2>1, <2>2, <2>3
  <1> DEFINE r == [c EXCEPT !.state = state, !.phase = "failed"]
  <1>4. r \in Live /\ r.phase = "failed"
    <2>1. c \in RecType /\ c.dom \in Names
      BY DEF Live
    <2>2. r \in RecType /\ r.dom \in Names /\ r.phase = "failed"
      BY <2>1 DEF RecType, AtRest
    <2> HIDE DEF r
    <2> QED BY <2>2, IsLive
  <1>5. Puts(s, r) /\ Returns(t) /\ call' = [call EXCEPT ![t] = NoCall]
        /\ UNCHANGED <<zone, work, worker, cleanups, moved>>
    BY <1>3 DEF Fails, Drops
  <1> HIDE DEF r
  <1>6. moved' \in SUBSET Names /\ CleanupsOK'
    BY <1>5, CleanupsStay DEF IInv, ZoneOK
  <1> QED BY <1>4, <1>5, <1>6, IdleOK, NoCallOK, Returned, PutsAndCalls

LEMMA WriteFailsInv ==
  ASSUME IInv, NEW t \in Threads, WriteFails(t)
  PROVE  IInv'
  BY IdleOK, NoCallOK, OnlyCalls DEF WriteFails, Returns, Drops

LEMMA WorkInv ==
  ASSUME IInv, NEW t \in Threads, Work(t)
  PROVE  IInv'
  BY SyncerIsNoThread, CallApiInv, EnqueueInv, SignalInv, ApplyDomainsInv, RenameFailsInv,
     PutWaitingInv, HealthVerdictInv, PrepareDNSInv, RouteInv, PutRunningInv,
     PutTargetStateInv, UnrouteInv, PutStoppedInv, FailsInv, WriteFailsInv DEF Work

-----------------------------------------------------------------------------
(* Clean-ups and restarts *)

(* A clean-up takes records of domains somebody has moved away from.       *)
LEMMA CleanUpOldDNSInv ==
  ASSUME IInv, CleanUpOldDNS
  PROVE  IInv'
  <1>1. UNCHANGED <<rec, call, work, worker, thread, moved>>
    BY DEF CleanUpOldDNS
  <1>2. PICK c \in CleanupType(moved) :
          \/ CleanUpStep(c)
          \/ CleanUpFails(c) /\ UNCHANGED zone
    BY DEF CleanUpOldDNS, IInv, CleanupsOK
  <1>3. c.name \in moved /\ c.name \in Names
    BY DEF CleanupType, IInv, ZoneOK
  <1>4. \/ UNCHANGED zone
        \/ zone' = [zone EXCEPT ![c.name].apex = "none"]
        \/ zone' = [zone EXCEPT ![c.name].www = "none"]
    BY <1>2 DEF CleanUpStep
  <1>5. ZoneOK'
    BY <1>1, <1>3, <1>4 DEF IInv, ZoneOK, ZoneType, Values
  <1>6. \A n \in Names \ moved' : /\ zone[n].apex = "ours" => zone'[n].apex = "ours"
                                  /\ zone[n].www = "ours" => zone'[n].www = "ours"
    BY <1>1, <1>3, <1>4 DEF IInv, ZoneOK
  <1>7. RecOK' /\ InSyncIsTrue' /\ Keeps
    BY <1>1, <1>5, <1>6, SameRec
  <1>8. ThreadsOK' /\ CallsOK' /\ WorkerOK' /\ QueueOK'
    BY <1>1, <1>5, <1>7, NobodyMoves, WorkerStays DEF work, IInv, QueueOK
  <1>9. CleanupsOK'
    <2>1. \A at \in {"apex", "delete apex", "www", "delete www"} :
            [c EXCEPT !.at = at] \in CleanupType(moved)
      BY DEF CleanupType
    <2>2. [c EXCEPT !.at = "apex", !.tries = 2] \in CleanupType(moved)
      BY DEF CleanupType
    <2>3. cleanups' \subseteq cleanups \union CleanupType(moved)
      BY <1>2, <2>1, <2>2 DEF CleanUpStep, CleanUpFails, Becomes, Ends
    <2> QED BY <1>1, <2>3 DEF IInv, CleanupsOK
  <1> QED BY <1>5, <1>7, <1>8, <1>9 DEF IInv

LEMMA RestartInv ==
  ASSUME IInv, Restart
  PROVE  IInv'
  <1>1. /\ call' = [c \in Clients |-> NoCall]
        /\ queue' = [s \in Services |-> NoName]
        /\ active' = NoUpdate /\ wake' = FALSE /\ worker' = Waiting
        /\ thread' = [t \in Threads |-> Idle]
        /\ cleanups' = {}
        /\ UNCHANGED <<zone, moved>>
    BY DEF Restart
  <1>2. ZoneOK' /\ QueueOK' /\ CleanupsOK'
    BY <1>1 DEF IInv, ZoneOK, QueueOK, CleanupsOK, MaybeName
  <1>3. CallsOK' /\ ThreadsOK'
    BY <1>1, NoCallOK, IdleOK DEF CallsOK, ThreadsOK
  <1>4. WorkerOK'
    BY <1>1 DEF WorkerOK, Waiting
  <1>5. ASSUME NEW s \in Services
        PROVE  /\ rec'[s] \in RecType
               /\ rec'[s].dom = NoName <=> rec'[s] = NoRec
               /\ rec'[s] = rec[s] \/ rec'[s].phase = "failed"
    <2>1. rec'[s] = IF rec[s].phase \in AtRest \/ rec[s] = NoRec THEN rec[s]
                    ELSE [rec[s] EXCEPT !.phase = "failed"]
      BY DEF Restart
    <2>2. CASE rec'[s] = rec[s]
      BY <2>2 DEF IInv, RecOK
    <2>3. CASE rec[s] # NoRec /\ rec'[s] = [rec[s] EXCEPT !.phase = "failed"]
      <3>1. PICK q \in Live : q = rec[s]
        BY <2>3, RecLive
      <3> DEFINE f == [q EXCEPT !.phase = "failed"]
      <3>2. f \in Live /\ f.phase = "failed"
        BY PhaseSet
      <3>3. rec'[s] = f
        BY <2>3, <3>1
      <3> HIDE DEF f
      <3>4. f.dom # NoName /\ f # NoRec /\ f \in RecType
        BY <3>2, DnsAssumption, NoRecFields DEF Live
      <3> QED BY <3>2, <3>3, <3>4
    <2> QED BY <2>1, <2>2, <2>3
  <1>6. RecOK'
    <2>1. rec' = [s \in Services |-> rec'[s]]
      BY DEF Restart
    <2> QED BY <1>5, <2>1 DEF RecOK
  <1>7. InSyncIsTrue'
    BY <1>1, <1>5 DEF IInv, InSyncIsTrue
  <1> QED BY <1>2, <1>3, <1>4, <1>6, <1>7 DEF IInv

-----------------------------------------------------------------------------
(* The theorems *)

LEMMA InitInv ==
  ASSUME Init
  PROVE  IInv
  <1>1. \A n \in Names : Serving(n) \in Live /\ Serving(n).dom = n
    <2> SUFFICES ASSUME NEW n \in Names
                 PROVE  Serving(n) \in Live /\ Serving(n).dom = n
      OBVIOUS
    <2>1. Serving(n) \in [state : {"active"}, phase : {"running"}, op : {""}, live : {"blue"},
                          dom : {n}, tdom : {NoName}, status : {"in_sync"}]
      BY DEF Serving, NoRec
    <2>2. Serving(n) \in RecType /\ Serving(n).dom = n
      BY <2>1 DEF RecType, AtRest
    <2> QED BY <2>2 DEF Live
  <1>2. \A n \in Names : Stopped(n) \in Live /\ Stopped(n).phase = "stopped"
    <2> SUFFICES ASSUME NEW n \in Names
                 PROVE  Stopped(n) \in Live /\ Stopped(n).phase = "stopped"
      OBVIOUS
    <2>1. PICK q \in Live : q = Serving(n)
      BY <1>1
    <2> DEFINE r == [q EXCEPT !.state = "suspended", !.phase = "stopped"]
    <2>2. r \in RecType /\ r.dom \in Names /\ r.phase = "stopped"
      <3>1. q \in RecType /\ q.dom \in Names
        BY DEF Live
      <3> QED BY <3>1 DEF RecType, AtRest
    <2>3. Stopped(n) = r
      BY <2>1 DEF Stopped
    <2> HIDE DEF r
    <2> QED BY <2>2, <2>3, IsLive
  <1>3. NoRec \in RecType
    BY DEF NoRec, RecType
  <1>4. RecOK
    <2>1. ASSUME NEW s \in Services
          PROVE  rec[s] \in RecType /\ (rec[s].dom = NoName <=> rec[s] = NoRec)
      <3>1. rec[s] = NoRec \/ rec[s] \in Live
        BY <1>1, <1>2 DEF Init
      <3>2. ASSUME NEW q \in Live
            PROVE  q \in RecType /\ q.dom # NoName /\ q # NoRec
        BY DnsAssumption, NoRecFields DEF Live
      <3> QED BY <1>3, <3>1, <3>2, NoRecFields
    <2>2. rec = [s \in Services |-> rec[s]]
      BY DEF Init
    <2> QED BY <2>1, <2>2 DEF RecOK
  <1>5. ZoneOK
    BY DEF Init, ZoneOK, ZoneType, Values, Right
  <1>6. QueueOK /\ CleanupsOK
    BY DEF Init, QueueOK, CleanupsOK, MaybeName
  <1>7. CallsOK
    BY NoCallOK DEF Init, CallsOK
  <1>8. WorkerOK
    BY DEF Init, WorkerOK, Waiting
  <1>9. ThreadsOK
    BY DEF Init, ThreadsOK, ThreadType, Idle, LocalOK
  <1>10. InSyncIsTrue
    <2> SUFFICES ASSUME NEW s \in Services, rec[s].phase = "running"
                 PROVE  zone[rec[s].dom] = Right
      BY DEF InSyncIsTrue
    <2>1. PICK n \in Names : rec[s] = Serving(n)
      BY <1>2, NoRecFields DEF Init
    <2>2. rec[s].dom = n
      BY <1>1, <2>1
    <2> QED BY <2>2 DEF Init
  <1> QED BY <1>4, <1>5, <1>6, <1>7, <1>8, <1>9, <1>10 DEF IInv

LEMMA StutterInv ==
  ASSUME IInv, UNCHANGED vars
  PROVE  IInv'
  <1>1. UNCHANGED <<rec, zone, call, queue, active, wake, worker, thread, cleanups, moved>>
    BY DEF vars
  <1>2. RecOK' /\ ZoneOK' /\ CleanupsOK' /\ InSyncIsTrue' /\ Keeps
    BY <1>1, Elsewhere
  <1>3. ThreadsOK' /\ CallsOK' /\ WorkerOK' /\ QueueOK'
    BY <1>1, <1>2, NobodyMoves, WorkerStays DEF IInv, QueueOK
  <1> QED BY <1>2, <1>3 DEF IInv

LEMMA NextInv ==
  ASSUME IInv, [Next]_vars
  PROVE  IInv'
  BY WorkerInv, WorkInv, CallInv, CleanUpOldDNSInv, RestartInv, StutterInv DEF Next

LEMMA Invariant == Spec => []IInv
  <1>1. Init => IInv
    BY InitInv
  <1>2. IInv /\ [Next]_vars => IInv'
    BY NextInv
  <1> QED BY <1>1, <1>2, PTL DEF Spec

(* Every variable always has a value of its type, and only services        *)
(* without a record are without a domain.                                  *)
THEOREM TypesCorrect == Spec => []TypeOK
  <1>1. IInv => TypeOK
    BY DEF IInv, TypeOK, RecOK, ZoneOK, QueueOK, CleanupsOK, CleanupType, MaybeName
  <1> QED BY <1>1, Invariant, PTL

(* dns_status in_sync of a running service (manager.go, syncDNS,           *)
(* prepareDNSForRouting, deployDomains) is true for every domain nobody    *)
(* has moved away from, for any number of services, calls and failures.    *)
THEOREM InSync == Spec => []InSyncIsTrue
  <1>1. IInv => InSyncIsTrue
    BY DEF IInv
  <1> QED BY <1>1, Invariant, PTL

=============================================================================
