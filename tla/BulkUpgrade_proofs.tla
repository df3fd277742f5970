-------------------------- MODULE BulkUpgrade_proofs --------------------------
(* Proofs about BulkUpgrade for any number of services, requests, troubles *)
(* and writes that fail.                                                   *)
EXTENDS BulkUpgrade, FiniteSetTheorems, WellFoundedInduction, TLAPS

-----------------------------------------------------------------------------
(* Sets of indices *)

LEMMA LeastOf ==
  ASSUME NEW S \in SUBSET Nat, S # {}
  PROVE  \E x \in S : \A y \in S : x <= y
  <1> DEFINE R == {ss \in Nat \X Nat : ss[1] < ss[2]}
  <1>1. IsWellFoundedOn(R, Nat)
    BY NatLessThanWellFounded DEF OpToRel
  <1>2. \A x, y \in Nat : ~(<<y, x>> \in R) => x <= y
    OBVIOUS
  <1> HIDE DEF R
  <1>3. PICK x \in S : \A y \in S : ~(<<y, x>> \in R)
    BY <1>1, WFMin
  <1>4. \A y \in S : x <= y
    BY <1>2, <1>3
  <1> QED BY <1>4

LEMMA MinIsLeast ==
  ASSUME NEW S \in SUBSET Nat, S # {}
  PROVE  Min(S) \in S /\ \A y \in S : Min(S) <= y
  <1>1. PICK x \in S : \A y \in S : x =< y
    BY LeastOf
  <1> QED BY <1>1 DEF Min

-----------------------------------------------------------------------------
(* Types *)

ItemStatus == {"queued", "running", "succeeded", "failed", "cancelled"}

ItemType == [id : Services, ver : Versions, confirm : BOOLEAN, status : ItemStatus]

JobType ==
  [status : {"none", "running", "completed", "cancelled"},
   items : Seq(ItemType), failures : Nat]

WorkerLabels ==
  {"fetch", "next", "asleep", "gone", "call", "starting", "waiting", "finish"}

WorkerType == [pc : WorkerLabels, index : Nat, failed : BOOLEAN]

HavingIn(items, status) == {k \in DOMAIN items : items[k].status = status}

LEMMA ItemsAre ==
  ASSUME NEW items \in Seq(ItemType)
  PROVE  /\ Len(items) \in Nat /\ DOMAIN items = 1 .. Len(items)
         /\ \A k \in DOMAIN items : items[k] \in ItemType
         /\ \A st : /\ HavingIn(items, st) \subseteq Nat
                    /\ IsFiniteSet(HavingIn(items, st))
  <1>1. Len(items) \in Nat /\ DOMAIN items = 1 .. Len(items)
    OBVIOUS
  <1>2. \A k \in DOMAIN items : items[k] \in ItemType
    OBVIOUS
  <1>3. ASSUME NEW st
        PROVE  HavingIn(items, st) \subseteq Nat /\ IsFiniteSet(HavingIn(items, st))
    <2>1. HavingIn(items, st) \in SUBSET (1 .. Len(items))
      BY <1>1 DEF HavingIn
    <2>2. IsFiniteSet(1 .. Len(items))
      BY <1>1, FS_Interval
    <2>3. IsFiniteSet(HavingIn(items, st))
      BY <2>1, <2>2, FS_Subset
    <2> QED BY <2>1, <2>3
  <1> QED BY <1>1, <1>2, <1>3

-----------------------------------------------------------------------------
(* What merging a request into the items keeps of them: every item stays   *)
(* where it is, with its service and status, one that is not queued stays  *)
(* as it is, and what is new is queued.                                    *)
MergeKeeps(new, old) ==
  /\ new \in Seq(ItemType)
  /\ Len(old) <= Len(new)
  /\ \A k \in 1 .. Len(new) :
       IF k <= Len(old)
         THEN /\ new[k].id = old[k].id /\ new[k].status = old[k].status
              /\ old[k].status # "queued" => new[k] = old[k]
         ELSE new[k].status = "queued"

LEMMA MergeItemKeeps ==
  ASSUME NEW items \in Seq(ItemType), NEW r \in Requests, NEW id \in Services
  PROVE  MergeKeeps(MergeItem(items, r, id), items)
  <1> DEFINE same == {i \in DOMAIN items : items[i].id = id /\ items[i].status = "queued"}
             item == [id |-> id, ver |-> r.ver, confirm |-> r.confirm, status |-> "queued"]
  <1>1. item \in ItemType /\ item.id = id /\ item.status = "queued"
    BY RequestsAssumption DEF ItemType, ItemStatus
  <1>2. MergeItem(items, r, id) = IF same = {} THEN Append(items, item)
                                  ELSE [items EXCEPT ![Min(same)] = item]
    BY DEF MergeItem
  <1>3. DOMAIN items = 1 .. Len(items) /\ Len(items) \in Nat
    BY ItemsAre
  <1>4. same # {} => Min(same) \in same
    <2>1. same \in SUBSET Nat
      BY <1>3
    <2> HIDE DEF same
    <2> QED BY <2>1, MinIsLeast
  <1>5. CASE same = {}
    <2> HIDE DEF item, same
    <2>1. /\ Append(items, item) \in Seq(ItemType)
          /\ Len(Append(items, item)) = Len(items) + 1
          /\ \A k \in 1 .. Len(items) : Append(items, item)[k] = items[k]
          /\ Append(items, item)[Len(items) + 1] = item
      BY <1>1, <1>3
    <2> DEFINE c == Append(items, item)
    <2>2. MergeItem(items, r, id) = c
      BY <1>2, <1>5
    <2>3. /\ c \in Seq(ItemType) /\ Len(c) = Len(items) + 1
          /\ \A k \in 1 .. Len(items) : c[k] = items[k]
          /\ c[Len(items) + 1].status = "queued"
      BY <1>1, <2>1
    <2> HIDE DEF c
    <2>4. MergeKeeps(c, items)
      BY <1>3, <2>3 DEF MergeKeeps
    <2> QED BY <2>2, <2>4
  <1>6. CASE same # {}
    <2> DEFINE i == Min(same)
    <2>1. i \in 1 .. Len(items) /\ items[i].id = id /\ items[i].status = "queued"
      BY <1>3, <1>4, <1>6
    <2> HIDE DEF item, same, i
    <2>2. /\ [items EXCEPT ![i] = item] \in Seq(ItemType)
          /\ Len([items EXCEPT ![i] = item]) = Len(items)
          /\ \A k \in 1 .. Len(items) :
               [items EXCEPT ![i] = item][k] = IF k = i THEN item ELSE items[k]
      BY <1>1, <1>3, <2>1
    <2> QED BY <1>1, <1>2, <1>3, <1>6, <2>1, <2>2 DEF MergeKeeps, i
  <1> QED BY <1>5, <1>6

LEMMA MergeKeepsOn ==
  ASSUME NEW a \in Seq(ItemType), NEW b, NEW c, MergeKeeps(b, a), MergeKeeps(c, b)
  PROVE  MergeKeeps(c, a)
  <1>1. Len(a) \in Nat /\ b \in Seq(ItemType) /\ c \in Seq(ItemType)
    BY DEF MergeKeeps
  <1>2. Len(b) \in Nat /\ Len(c) \in Nat
    BY <1>1
  <1> QED BY <1>1, <1>2 DEF MergeKeeps

(* The items after n ids of the request, by induction over n: the least    *)
(* number that fails would not be 0, and its predecessor would fail too.   *)
Merges(m, n, items, r) ==
  m = [k \in 0 .. n |-> IF k = 0 THEN items ELSE MergeItem(m[k - 1], r, r.ids[k])]

LEMMA MergesKeep ==
  ASSUME NEW items \in Seq(ItemType), NEW r \in Requests,
         NEW n \in 0 .. Len(r.ids), NEW m, Merges(m, n, items, r)
  PROVE  \A k \in 0 .. n : MergeKeeps(m[k], items)
  <1> DEFINE T == {k \in 0 .. n : ~MergeKeeps(m[k], items)}
  <1>0. r.ids \in Seq(Services) /\ Len(r.ids) \in Nat
    BY RequestsAssumption
  <1> SUFFICES ASSUME T # {} PROVE FALSE
    OBVIOUS
  <1>1. PICK k \in T : \A j \in T : k <= j
    <2>1. T \in SUBSET Nat
      BY <1>0
    <2> HIDE DEF T
    <2> QED BY <2>1, LeastOf
  <1>2. k \in 0 .. n /\ ~MergeKeeps(m[k], items)
    OBVIOUS
  <1>3. k # 0
    <2>1. m[0] = items
      BY <1>0 DEF Merges
    <2>2. MergeKeeps(items, items)
      BY DEF MergeKeeps
    <2> QED BY <1>2, <2>1, <2>2
  <1>4. MergeKeeps(m[k - 1], items)
    <2>1. k - 1 \in 0 .. n /\ ~(k <= k - 1)
      BY <1>0, <1>2, <1>3
    <2> QED BY <1>1, <2>1
  <1>5. m[k] = MergeItem(m[k - 1], r, r.ids[k])
    BY <1>0, <1>2, <1>3 DEF Merges
  <1>6. m[k - 1] \in Seq(ItemType) /\ r.ids[k] \in Services
    BY <1>0, <1>2, <1>3, <1>4 DEF MergeKeeps
  <1>7. MergeKeeps(m[k], m[k - 1])
    BY <1>5, <1>6, MergeItemKeeps
  <1> QED BY <1>2, <1>4, <1>7, MergeKeepsOn

LEMMA MergesExist ==
  ASSUME NEW items \in Seq(ItemType), NEW r \in Requests
  PROVE  \A n \in 0 .. Len(r.ids) : \E m : Merges(m, n, items, r)
  <1> DEFINE T == {k \in 0 .. Len(r.ids) : ~\E m : Merges(m, k, items, r)}
  <1>0. Len(r.ids) \in Nat
    BY RequestsAssumption
  <1> SUFFICES ASSUME T # {} PROVE FALSE
    OBVIOUS
  <1>1. PICK k \in T : \A j \in T : k <= j
    <2>1. T \in SUBSET Nat
      BY <1>0
    <2> HIDE DEF T
    <2> QED BY <2>1, LeastOf
  <1>2. k \in 0 .. Len(r.ids) /\ ~\E m : Merges(m, k, items, r)
    OBVIOUS
  <1>3. k # 0
    <2> DEFINE m == [j \in 0 .. 0 |-> items]
    <2>1. Merges(m, 0, items, r)
      BY DEF Merges
    <2> QED BY <1>2, <2>1
  <1>4. PICK m : Merges(m, k - 1, items, r)
    <2>1. k - 1 \in 0 .. Len(r.ids) /\ ~(k <= k - 1)
      BY <1>0, <1>2, <1>3
    <2> QED BY <1>1, <2>1
  <1> DEFINE x == MergeItem(m[k - 1], r, r.ids[k])
             g == [j \in 0 .. k |-> IF j = k THEN x ELSE m[j]]
  <1>5. \A j \in 0 .. k - 1 :
          m[j] = IF j = 0 THEN items ELSE MergeItem(m[j - 1], r, r.ids[j])
    BY <1>4 DEF Merges
  <1>6. ASSUME NEW j \in 0 .. k
        PROVE  g[j] = IF j = 0 THEN items ELSE MergeItem(g[j - 1], r, r.ids[j])
    <2>1. CASE j = k
      <3>1. g[k - 1] = m[k - 1] /\ g[k] = x
        BY <1>0, <1>2, <1>3
      <3> QED BY <1>3, <2>1, <3>1
    <2>2. CASE j # k /\ j # 0
      <3>1. g[j] = m[j] /\ g[j - 1] = m[j - 1] /\ j \in 0 .. k - 1
        BY <1>0, <1>2, <2>2
      <3> QED BY <1>5, <2>2, <3>1
    <2>3. CASE j # k /\ j = 0
      <3>1. g[j] = m[j] /\ j \in 0 .. k - 1
        BY <1>0, <1>2, <2>3
      <3> QED BY <1>5, <2>3, <3>1
    <2> QED BY <2>1, <2>2, <2>3
  <1>7. g = [j \in 0 .. k |-> g[j]]
    OBVIOUS
  <1> HIDE DEF g
  <1>8. Merges(g, k, items, r)
    BY <1>6, <1>7 DEF Merges
  <1> QED BY <1>2, <1>8

LEMMA MergeKeepsItems ==
  ASSUME NEW items \in Seq(ItemType), NEW r \in Requests
  PROVE  MergeKeeps(Merge(items, r), items)
  <1> DEFINE n == Len(r.ids)
             merged == CHOOSE m : Merges(m, n, items, r)
  <1>1. n \in 0 .. n
    BY RequestsAssumption
  <1>2. Merges(merged, n, items, r)
    BY <1>1, MergesExist
  <1>3. Merge(items, r) = merged[n]
    BY DEF Merge, Merges
  <1> HIDE DEF merged
  <1> QED BY <1>1, <1>2, <1>3, MergesKeep

-----------------------------------------------------------------------------
(* What the worker makes of a job.                                         *)

(* Failures are counted, the third ends the job, an ended one leaves       *)
(* nothing to do, and only the third failure cancels an item.              *)
CountsOK(j) ==
  /\ j.failures = Cardinality(HavingIn(j.items, "failed"))
  /\ j.status = "running" =>
       j.failures < FailureLimit /\ HavingIn(j.items, "cancelled") = {}
  /\ j.status = "cancelled" => j.failures = FailureLimit
  /\ j.status \in {"completed", "cancelled"} =>
       HavingIn(j.items, "queued") = {} /\ HavingIn(j.items, "running") = {}
  /\ j.status = "completed" => HavingIn(j.items, "cancelled") = {}

(* Nothing that was asked for is lost between two jobs.                    *)
ItemsMove(new, old) ==
  \A k \in DOMAIN old :
    /\ k \in DOMAIN new
    /\ old[k].id = new[k].id
    /\ old[k].status # "queued" => old[k].ver = new[k].ver
    /\ old[k].status = new[k].status \/ <<old[k].status, new[k].status>> \in Moves

(* The items are the same ones, each with a status.                        *)
SameItems(new, old) ==
  /\ new \in Seq(ItemType) /\ DOMAIN new = DOMAIN old
  /\ \A k \in DOMAIN old : new[k].id = old[k].id /\ new[k].ver = old[k].ver

LEMMA WithStatusSets ==
  ASSUME NEW j \in JobType, NEW i \in DOMAIN j.items, NEW st \in ItemStatus,
         NEW n, n = WithStatus(j, i, st)
  PROVE  /\ n \in JobType /\ n.status = j.status /\ n.failures = j.failures
         /\ SameItems(n.items, j.items)
         /\ \A k \in DOMAIN j.items :
              n.items[k].status = IF k = i THEN st ELSE j.items[k].status
  <1> DEFINE old == j.items
             item == [old[i] EXCEPT !.status = st]
             new == [old EXCEPT ![i] = item]
  <1>1. old \in Seq(ItemType) /\ i \in 1 .. Len(old) /\ DOMAIN old = 1 .. Len(old)
    BY ItemsAre DEF JobType
  <1>2. old[i] \in ItemType
    BY <1>1
  <1>3. /\ item \in ItemType /\ item.id = old[i].id /\ item.ver = old[i].ver
        /\ item.status = st
    BY <1>2 DEF ItemType
  <1>4. n = [j EXCEPT !.items = new]
    BY DEF WithStatus
  <1> HIDE DEF item
  <1>5. /\ new \in Seq(ItemType) /\ Len(new) = Len(old) /\ DOMAIN new = DOMAIN old
        /\ \A k \in DOMAIN old : new[k] = IF k = i THEN item ELSE old[k]
    BY <1>1, <1>3
  <1> HIDE DEF new
  <1>6. n \in JobType /\ n.status = j.status /\ n.failures = j.failures /\ n.items = new
    BY <1>4, <1>5 DEF JobType
  <1>7. SameItems(new, old)
    BY <1>3, <1>5 DEF SameItems
  <1>8. \A k \in DOMAIN old : new[k].status = IF k = i THEN st ELSE old[k].status
    BY <1>3, <1>5
  <1> QED BY <1>6, <1>7, <1>8

LEMMA CancelRestSets ==
  ASSUME NEW j \in JobType, NEW n, n = CancelRest(j)
  PROVE  /\ n \in JobType /\ n.status = "cancelled" /\ n.failures = j.failures
         /\ SameItems(n.items, j.items)
         /\ \A k \in DOMAIN j.items :
              n.items[k].status = IF j.items[k].status = "queued" THEN "cancelled"
                                  ELSE j.items[k].status
  <1> DEFINE old == j.items
             Item1(k) == IF old[k].status = "queued" THEN [old[k] EXCEPT !.status = "cancelled"]
                         ELSE old[k]
             new == [k \in DOMAIN old |-> Item1(k)]
  <1>1. old \in Seq(ItemType) /\ Len(old) \in Nat /\ DOMAIN old = 1 .. Len(old)
        /\ \A k \in DOMAIN old : old[k] \in ItemType
    BY ItemsAre DEF JobType
  <1>2. \A k \in DOMAIN old :
          /\ Item1(k) \in ItemType /\ Item1(k).id = old[k].id /\ Item1(k).ver = old[k].ver
          /\ Item1(k).status = IF old[k].status = "queued" THEN "cancelled" ELSE old[k].status
    BY <1>1 DEF ItemType, ItemStatus
  <1>3. n = [j EXCEPT !.status = "cancelled", !.items = new]
    BY DEF CancelRest
  <1> HIDE DEF Item1
  <1>4. new \in [1 .. Len(old) -> ItemType]
    BY <1>1, <1>2
  <1>5. /\ DOMAIN new = DOMAIN old
        /\ \A k \in DOMAIN old : new[k] = Item1(k)
    OBVIOUS
  <1> HIDE DEF new
  <1>6. new \in Seq(ItemType)
    BY <1>1, <1>4
  <1>7. n \in JobType /\ n.status = "cancelled" /\ n.failures = j.failures /\ n.items = new
    BY <1>3, <1>6 DEF JobType
  <1>8. SameItems(new, old)
    BY <1>2, <1>5, <1>6 DEF SameItems
  <1> QED BY <1>2, <1>5, <1>7, <1>8

(* The sets of items by status, once it is known how the statuses change.  *)
LEMMA HavingAfter ==
  ASSUME NEW new, NEW old, SameItems(new, old), NEW i \in DOMAIN old, NEW st,
         \A k \in DOMAIN old : new[k].status = IF k = i THEN st ELSE old[k].status
  PROVE  \A x : HavingIn(new, x) = IF x = st THEN HavingIn(old, x) \union {i}
                                   ELSE HavingIn(old, x) \ {i}
  BY DEF HavingIn, SameItems

-----------------------------------------------------------------------------
(* The invariant *)

OneRunning == \A i, j \in HavingIn(job.items, "running") : i = j

WorkerAtItem ==
  Busy => job.status = "running" /\ worker.index \in HavingIn(job.items, "running")

JobInv ==
  /\ job \in JobType /\ worker \in WorkerType
  /\ CountsOK(job) /\ OneRunning /\ WorkerAtItem

LEMMA HavingIs == \A st : Having(st) = HavingIn(job.items, st)
  BY DEF Having, HavingIn

LEMMA JobInvImplies ==
  ASSUME JobInv
  PROVE  OneAtATime /\ CancelledByThird
  <1>1. Busy => job.status = "running" /\ worker.index \in Having("running")
    BY HavingIs DEF JobInv, WorkerAtItem
  <1>2. \A i, j \in Having("running") : i = j
    BY HavingIs DEF JobInv, OneRunning
  <1>3. ASSUME Having("running") = {} PROVE OneAtATime
    <2>1. Cardinality(Having("running")) = 0
      BY <1>3, FS_EmptySet
    <2> QED BY <1>1, <1>3, <2>1 DEF OneAtATime
  <1>4. ASSUME NEW i \in Having("running") PROVE OneAtATime
    <2>1. Having("running") = {i}
      BY <1>2, <1>4
    <2>2. Cardinality(Having("running")) = 1
      BY <2>1, FS_Singleton
    <2> QED BY <1>1, <2>1, <2>2 DEF OneAtATime
  <1>5. CancelledByThird
    BY HavingIs DEF JobInv, CountsOK, CancelledByThird
  <1> QED BY <1>3, <1>4, <1>5

LEMMA JobInvInit == Init => JobInv
  <1> SUFFICES ASSUME Init PROVE JobInv
    OBVIOUS
  <1>1. job.items = <<>> /\ job.status = "none" /\ job.failures = 0 /\ job \in JobType
    BY DEF Init, NoJob, JobType
  <1>2. \A st : HavingIn(job.items, st) = {}
    BY <1>1 DEF HavingIn
  <1>3. CountsOK(job)
    BY <1>1, <1>2, FS_EmptySet DEF CountsOK
  <1>4. worker \in WorkerType /\ ~Busy
    BY DEF Init, Between, WorkerType, WorkerLabels, Busy
  <1> QED BY <1>1, <1>2, <1>3, <1>4 DEF JobInv, OneRunning, WorkerAtItem

-----------------------------------------------------------------------------
(* Each way a job changes, from a job as the invariant has it.             *)

RunningIn(j) == HavingIn(j.items, "running")

OneRunningIn(j) == \A a, b \in RunningIn(j) : a = b

(* A running item gets its outcome, or is put back.                        *)
Marked(n, j, i, st) ==
  /\ n \in JobType /\ n.status = j.status /\ n.failures = j.failures
  /\ SameItems(n.items, j.items) /\ ItemsMove(n.items, j.items)
  /\ RunningIn(n) = {}
  /\ \A x : x # "running" =>
       HavingIn(n.items, x) = IF x = st THEN HavingIn(j.items, x) \union {i}
                              ELSE HavingIn(j.items, x)

LEMMA MarkRunning ==
  ASSUME NEW j \in JobType, j.status = "running", OneRunningIn(j),
         NEW i \in RunningIn(j), NEW st \in {"queued", "succeeded", "failed"},
         NEW n, n = WithStatus(j, i, st)
  PROVE  Marked(n, j, i, st)
  <1>1. i \in DOMAIN j.items /\ j.items[i].status = "running"
    BY DEF RunningIn, HavingIn
  <1>2. st \in ItemStatus
    BY DEF ItemStatus
  <1>3. /\ n \in JobType /\ n.status = j.status /\ n.failures = j.failures
        /\ SameItems(n.items, j.items)
        /\ \A k \in DOMAIN j.items :
             n.items[k].status = IF k = i THEN st ELSE j.items[k].status
    BY <1>1, <1>2, WithStatusSets
  <1>4. \A x : HavingIn(n.items, x) = IF x = st THEN HavingIn(j.items, x) \union {i}
                                      ELSE HavingIn(j.items, x) \ {i}
    <2> DEFINE new == n.items
               old == j.items
    <2>1. /\ SameItems(new, old) /\ i \in DOMAIN old
          /\ \A k \in DOMAIN old : new[k].status = IF k = i THEN st ELSE old[k].status
      BY <1>1, <1>3
    <2> HIDE DEF new, old
    <2>2. \A x : HavingIn(new, x) = IF x = st THEN HavingIn(old, x) \union {i}
                                   ELSE HavingIn(old, x) \ {i}
      BY <2>1, HavingAfter
    <2> QED BY <2>2 DEF new, old
  <1>5. RunningIn(n) = {}
    <2>1. RunningIn(n) = RunningIn(j) \ {i}
      BY <1>4 DEF RunningIn
    <2> QED BY <2>1 DEF OneRunningIn
  <1>6. ASSUME NEW x, x # "running"
        PROVE  i \notin HavingIn(j.items, x)
    BY <1>1, <1>6 DEF HavingIn
  <1>7. ItemsMove(n.items, j.items)
    <2> SUFFICES ASSUME NEW k \in DOMAIN j.items
                 PROVE  /\ k \in DOMAIN n.items
                        /\ j.items[k].id = n.items[k].id
                        /\ j.items[k].ver = n.items[k].ver
                        /\ \/ j.items[k].status = n.items[k].status
                           \/ <<j.items[k].status, n.items[k].status>> \in Moves
      BY DEF ItemsMove
    <2>1. /\ k \in DOMAIN n.items /\ j.items[k].id = n.items[k].id
          /\ j.items[k].ver = n.items[k].ver
      BY <1>3 DEF SameItems
    <2>2. \/ j.items[k].status = n.items[k].status
          \/ <<j.items[k].status, n.items[k].status>> \in Moves
      BY <1>1, <1>3 DEF Moves
    <2> QED BY <2>1, <2>2
  <1>8. ASSUME NEW x, x # "running"
        PROVE  HavingIn(n.items, x) = IF x = st THEN HavingIn(j.items, x) \union {i}
                                      ELSE HavingIn(j.items, x)
    BY <1>4, <1>6, <1>8
  <1> QED BY <1>3, <1>5, <1>7, <1>8 DEF Marked

(* What an item's outcome may make of the job.                             *)
JobMoves(n, j) ==
  /\ n \in JobType /\ CountsOK(n) /\ OneRunningIn(n) /\ ItemsMove(n.items, j.items)

LEMMA CountsAre ==
  ASSUME NEW j \in JobType, CountsOK(j)
  PROVE  /\ j.items \in Seq(ItemType) /\ j.failures \in Nat
         /\ j.failures = Cardinality(HavingIn(j.items, "failed"))
         /\ IsFiniteSet(HavingIn(j.items, "failed"))
  <1>1. j.items \in Seq(ItemType) /\ j.failures \in Nat
    BY DEF JobType
  <1>2. IsFiniteSet(HavingIn(j.items, "failed"))
    BY <1>1, ItemsAre
  <1> QED BY <1>1, <1>2 DEF CountsOK

LEMMA SucceedMoves ==
  ASSUME NEW j \in JobType, j.status = "running", CountsOK(j), OneRunningIn(j),
         NEW i \in RunningIn(j), NEW st \in {"queued", "succeeded"},
         NEW n, n = WithStatus(j, i, st)
  PROVE  JobMoves(n, j)
  <1>1. /\ n \in JobType /\ n.status = j.status /\ n.failures = j.failures
        /\ ItemsMove(n.items, j.items) /\ RunningIn(n) = {}
        /\ \A x : x # "running" =>
             HavingIn(n.items, x) = IF x = st THEN HavingIn(j.items, x) \union {i}
                                    ELSE HavingIn(j.items, x)
    <2>1. st \in {"queued", "succeeded", "failed"}
      OBVIOUS
    <2>2. Marked(n, j, i, st)
      BY <2>1, MarkRunning
    <2> QED BY <2>2 DEF Marked
  <1>2. /\ HavingIn(n.items, "failed") = HavingIn(j.items, "failed")
        /\ HavingIn(n.items, "cancelled") = HavingIn(j.items, "cancelled")
    BY <1>1
  <1>3. CountsOK(n)
    BY <1>1, <1>2 DEF CountsOK
  <1> QED BY <1>1, <1>3 DEF JobMoves, OneRunningIn

LEMMA FailMoves ==
  ASSUME NEW j \in JobType, j.status = "running", CountsOK(j), OneRunningIn(j),
         NEW i \in RunningIn(j), NEW n,
         n = LET failed == [WithStatus(j, i, "failed") EXCEPT !.failures = @ + 1] IN
             IF failed.failures < FailureLimit THEN failed ELSE CancelRest(failed)
  PROVE  JobMoves(n, j)
  <1> DEFINE m == WithStatus(j, i, "failed")
             failed == [m EXCEPT !.failures = @ + 1]
  <1>1. /\ m \in JobType /\ m.status = "running" /\ m.failures = j.failures
        /\ SameItems(m.items, j.items) /\ ItemsMove(m.items, j.items)
        /\ RunningIn(m) = {}
        /\ \A x : x # "running" =>
             HavingIn(m.items, x) = IF x = "failed" THEN HavingIn(j.items, x) \union {i}
                                    ELSE HavingIn(j.items, x)
    <2>1. "failed" \in {"queued", "succeeded", "failed"}
      OBVIOUS
    <2> HIDE DEF m
    <2>2. m = WithStatus(j, i, "failed")
      BY DEF m
    <2>3. Marked(m, j, i, "failed")
      BY <2>1, <2>2, MarkRunning
    <2> QED BY <2>3 DEF Marked
  <1>2. n = IF failed.failures < FailureLimit THEN failed ELSE CancelRest(failed)
    OBVIOUS
  <1> HIDE DEF m
  <1>3. j.failures < FailureLimit /\ HavingIn(j.items, "cancelled") = {}
    BY DEF CountsOK
  <1>4. /\ failed \in JobType /\ failed.status = "running"
        /\ failed.failures = j.failures + 1 /\ failed.items = m.items
    BY <1>1, CountsAre DEF JobType
  <1> HIDE DEF failed
  <1>5. failed.failures = Cardinality(HavingIn(m.items, "failed"))
    <2>1. i \notin HavingIn(j.items, "failed")
      BY DEF RunningIn, HavingIn
    <2>2. HavingIn(m.items, "failed") = HavingIn(j.items, "failed") \union {i}
      BY <1>1
    <2>3. Cardinality(HavingIn(m.items, "failed"))
            = Cardinality(HavingIn(j.items, "failed")) + 1
      BY <2>1, <2>2, CountsAre, FS_AddElement
    <2> QED BY <1>4, <2>3, CountsAre
  <1>6. ASSUME failed.failures < FailureLimit PROVE JobMoves(n, j)
    <2>1. n = failed
      BY <1>2, <1>6
    <2>2. HavingIn(m.items, "cancelled") = {}
      BY <1>1, <1>3
    <2>3. CountsOK(n)
      BY <1>4, <1>5, <1>6, <2>1, <2>2 DEF CountsOK
    <2>4. RunningIn(n) = {}
      BY <1>1, <1>4, <2>1 DEF RunningIn
    <2> QED BY <1>1, <1>4, <2>1, <2>3, <2>4 DEF JobMoves, OneRunningIn
  <1>7. ASSUME ~(failed.failures < FailureLimit) PROVE JobMoves(n, j)
    <2>1. n = CancelRest(failed)
      BY <1>2, <1>7
    <2>2. /\ n \in JobType /\ n.status = "cancelled" /\ n.failures = failed.failures
          /\ SameItems(n.items, m.items)
          /\ \A k \in DOMAIN m.items :
               n.items[k].status = IF m.items[k].status = "queued" THEN "cancelled"
                                   ELSE m.items[k].status
      <3>1. failed \in JobType /\ failed.items = m.items
        BY <1>4
      <3>2. /\ n \in JobType /\ n.status = "cancelled" /\ n.failures = failed.failures
            /\ SameItems(n.items, failed.items)
            /\ \A k \in DOMAIN failed.items :
                 n.items[k].status = IF failed.items[k].status = "queued" THEN "cancelled"
                                     ELSE failed.items[k].status
        BY <2>1, <3>1, CancelRestSets
      <3> QED BY <3>1, <3>2
    <2>3. failed.failures = FailureLimit
      BY <1>3, <1>4, <1>7, CountsAre DEF FailureLimit
    <2>4. HavingIn(n.items, "failed") = HavingIn(m.items, "failed")
      <3> DEFINE new == n.items
                 old == m.items
      <3>1. /\ DOMAIN new = DOMAIN old
            /\ \A k \in DOMAIN old :
                 new[k].status = IF old[k].status = "queued" THEN "cancelled" ELSE old[k].status
        BY <2>2 DEF SameItems
      <3> HIDE DEF new, old
      <3>2. HavingIn(new, "failed") = HavingIn(old, "failed")
        BY <3>1 DEF HavingIn
      <3> QED BY <3>2 DEF new, old
    <2>5. HavingIn(n.items, "queued") = {} /\ HavingIn(n.items, "running") = {}
      <3> DEFINE new == n.items
                 old == m.items
      <3>1. /\ DOMAIN new = DOMAIN old
            /\ \A k \in DOMAIN old :
                 new[k].status = IF old[k].status = "queued" THEN "cancelled" ELSE old[k].status
        BY <2>2 DEF SameItems
      <3>2. HavingIn(old, "running") = {}
        BY <1>1 DEF RunningIn
      <3> HIDE DEF new, old
      <3>3. HavingIn(new, "queued") = {} /\ HavingIn(new, "running") = {}
        BY <3>1, <3>2 DEF HavingIn
      <3> QED BY <3>3 DEF new, old
    <2>6. CountsOK(n)
      BY <1>5, <2>2, <2>3, <2>4, <2>5 DEF CountsOK
    <2>7. ItemsMove(n.items, j.items)
      <3> SUFFICES ASSUME NEW k \in DOMAIN j.items
                   PROVE  /\ k \in DOMAIN n.items
                          /\ j.items[k].id = n.items[k].id
                          /\ j.items[k].ver = n.items[k].ver
                          /\ \/ j.items[k].status = n.items[k].status
                             \/ <<j.items[k].status, n.items[k].status>> \in Moves
        BY DEF ItemsMove
      <3>1. k \in DOMAIN m.items /\ k \in DOMAIN n.items
        BY <1>1, <2>2 DEF SameItems
      <3>2. /\ n.items[k].id = j.items[k].id /\ n.items[k].ver = j.items[k].ver
        BY <1>1, <2>2, <3>1 DEF SameItems
      <3>3. \/ j.items[k].status = m.items[k].status
            \/ j.items[k].status = "running" /\ m.items[k].status = "failed"
        <4>1. m.items[k].status = IF k = i THEN "failed" ELSE j.items[k].status
          <5>1. i \in DOMAIN j.items /\ "failed" \in ItemStatus
            BY DEF RunningIn, HavingIn, ItemStatus
          <5> QED BY <5>1, WithStatusSets DEF m
        <4> QED BY <4>1 DEF RunningIn, HavingIn
      <3>4. \/ j.items[k].status = n.items[k].status
            \/ <<j.items[k].status, n.items[k].status>> \in Moves
        BY <2>2, <3>1, <3>3 DEF Moves
      <3> QED BY <3>1, <3>2, <3>4
    <2> QED BY <2>2, <2>5, <2>6, <2>7 DEF JobMoves, OneRunningIn, RunningIn
  <1> QED BY <1>6, <1>7

-----------------------------------------------------------------------------
(* The steps *)

StepKeeps ==
  /\ JobInv'
  /\ job.status = "running" => ItemsMove(job'.items, job.items)

LEMMA JobInvIs ==
  ASSUME JobInv
  PROVE  /\ job \in JobType /\ job.items \in Seq(ItemType) /\ worker \in WorkerType
         /\ CountsOK(job) /\ OneRunningIn(job) /\ ItemsMove(job.items, job.items)
         /\ Busy => job.status = "running" /\ worker.index \in RunningIn(job)
         /\ \A st : Having(st) = HavingIn(job.items, st)
  BY HavingIs DEF JobInv, JobType, OneRunning, OneRunningIn, RunningIn, ItemsMove,
     WorkerAtItem

(* A step that leaves the job alone, or moves it, with the worker not at   *)
(* an item afterwards.                                                     *)
LEMMA AwayFromItem ==
  ASSUME JobInv, worker' \in WorkerType, ~Busy', JobMoves(job', job)
  PROVE  StepKeeps
  BY DEF JobMoves, JobInv, StepKeeps, OneRunning, OneRunningIn, RunningIn, WorkerAtItem

LEMMA BetweenIsAway ==
  ASSUME NEW label \in {"fetch", "next", "asleep"}, worker' = Between(label)
  PROVE  worker' \in WorkerType /\ ~Busy'
  <1> DEFINE w == Between(label)
  <1>1. w \in WorkerType /\ w.pc \notin {"call", "starting", "waiting", "finish"}
    BY DEF Between, WorkerType, WorkerLabels
  <1>2. worker' = w
    OBVIOUS
  <1> HIDE DEF w
  <1> QED BY <1>1, <1>2 DEF Busy

LEMMA SameJobMoves ==
  ASSUME JobInv, job' = job
  PROVE  JobMoves(job', job)
  BY JobInvIs DEF JobMoves

(* The worker goes on at the same item.                                    *)
LEMMA AtSameItem ==
  ASSUME JobInv, job' = job, worker' \in WorkerType, Busy, worker'.index = worker.index
  PROVE  StepKeeps
  <1>1. ItemsMove(job'.items, job.items)
    BY JobInvIs
  <1>2. WorkerAtItem' /\ OneRunning' /\ CountsOK(job')
    BY DEF JobInv, WorkerAtItem, OneRunning
  <1> QED BY <1>1, <1>2 DEF JobInv, StepKeeps

LEMMA PutsKeeps ==
  ASSUME JobInv, NEW j, JobMoves(j, job), NEW label \in {"next", "asleep"},
         Puts(j, label)
  PROVE  StepKeeps
  <1>1. \E l \in {"next", "asleep"} : worker' = Between(l)
    BY DEF Puts, Sleeps, Ends
  <1>2. worker' \in WorkerType /\ ~Busy'
    BY <1>1, BetweenIsAway
  <1>3. JobMoves(job', job)
    BY SameJobMoves DEF Puts
  <1> QED BY <1>2, <1>3, AwayFromItem

LEMMA FailureMoves ==
  ASSUME JobInv, job.status = "running", NEW i \in RunningIn(job)
  PROVE  /\ JobMoves(Succeed(i), job) /\ JobMoves(Fail(i), job)
         /\ JobMoves(WithStatus(job, i, "queued"), job)
         /\ \A j : AfterItem(j) \in {"next", "asleep"}
  <1>1. /\ job \in JobType /\ CountsOK(job) /\ OneRunningIn(job)
    BY JobInvIs
  <1>2. JobMoves(WithStatus(job, i, "queued"), job)
    <2>1. "queued" \in {"queued", "succeeded"}
      OBVIOUS
    <2> QED BY <1>1, <2>1, SucceedMoves
  <1>3. JobMoves(Succeed(i), job)
    <2>1. "succeeded" \in {"queued", "succeeded"}
      OBVIOUS
    <2>2. JobMoves(WithStatus(job, i, "succeeded"), job)
      BY <1>1, <2>1, SucceedMoves
    <2> QED BY <2>2 DEF Succeed
  <1>4. JobMoves(Fail(i), job)
    BY <1>1, FailMoves DEF Fail
  <1> QED BY <1>2, <1>3, <1>4 DEF AfterItem

LEMMA RecoverKeeps ==
  ASSUME JobInv, Recover
  PROVE  StepKeeps
  <1> DEFINE i == Min(Having("running"))
  <1>1. job.status = "running" /\ Having("running") # {}
    BY DEF Recover
  <1>2. i \in RunningIn(job)
    <2> DEFINE S == Having("running")
    <2>1. S \in SUBSET Nat /\ S = RunningIn(job)
      BY JobInvIs, ItemsAre DEF RunningIn
    <2> HIDE DEF S
    <2>2. S # {} => Min(S) \in S
      BY <2>1, MinIsLeast
    <2> QED BY <1>1, <2>1, <2>2 DEF S
  <1>3. \/ Puts(Succeed(i), "next")
        \/ Puts(Fail(i), AfterItem(Fail(i)))
        \/ Puts(WithStatus(job, i, "queued"), "next")
    BY DEF Recover
  <1> HIDE DEF i
  <1>4. /\ JobMoves(Succeed(i), job) /\ JobMoves(Fail(i), job)
        /\ JobMoves(WithStatus(job, i, "queued"), job)
        /\ AfterItem(Fail(i)) \in {"next", "asleep"} /\ "next" \in {"next", "asleep"}
    BY <1>1, <1>2, FailureMoves
  <1>5. ASSUME Puts(Succeed(i), "next") PROVE StepKeeps
    BY <1>4, <1>5, PutsKeeps
  <1>6. ASSUME Puts(Fail(i), AfterItem(Fail(i))) PROVE StepKeeps
    BY <1>4, <1>6, PutsKeeps
  <1>7. ASSUME Puts(WithStatus(job, i, "queued"), "next") PROVE StepKeeps
    BY <1>4, <1>7, PutsKeeps
  <1> QED BY <1>3, <1>5, <1>6, <1>7

LEMMA FinishKeeps ==
  ASSUME JobInv, Finish
  PROVE  StepKeeps
  <1> DEFINE i == worker.index
             j == IF worker.failed THEN Fail(i) ELSE Succeed(i)
  <1>1. job.status = "running" /\ i \in RunningIn(job)
    BY JobInvIs DEF Finish, At, Busy
  <1>2. \/ Sleeps /\ job' = job
        \/ Puts(j, AfterItem(j))
    BY DEF Finish
  <1>3. JobMoves(j, job) /\ AfterItem(j) \in {"next", "asleep"}
    BY <1>1, FailureMoves
  <1> HIDE DEF j
  <1>4. ASSUME Puts(j, AfterItem(j)) PROVE StepKeeps
    BY <1>3, <1>4, PutsKeeps
  <1>5. ASSUME Sleeps, job' = job PROVE StepKeeps
    <2>1. worker' = Between("asleep") /\ "asleep" \in {"fetch", "next", "asleep"}
      BY <1>5 DEF Sleeps, Ends
    <2>2. worker' \in WorkerType /\ ~Busy'
      BY <2>1, BetweenIsAway
    <2> QED BY <1>5, <2>2, SameJobMoves, AwayFromItem
  <1> QED BY <1>2, <1>4, <1>5

LEMMA TakeKeeps ==
  ASSUME JobInv, Take
  PROVE  StepKeeps
  <1> DEFINE i == Min(Having("queued"))
             n == WithStatus(job, i, "running")
  <1>0. job.status = "running" /\ Having("running") = {} /\ Having("queued") # {}
    BY DEF Take
  <1>1. i \in HavingIn(job.items, "queued")
    <2> DEFINE S == Having("queued")
    <2>1. S \in SUBSET Nat /\ S = HavingIn(job.items, "queued")
      BY JobInvIs, ItemsAre
    <2> HIDE DEF S
    <2>2. S # {} => Min(S) \in S
      BY <2>1, MinIsLeast
    <2> QED BY <1>0, <2>1, <2>2 DEF S
  <1>2. \/ job' = n /\ worker' = [pc |-> "call", index |-> i, failed |-> FALSE]
        \/ Sleeps /\ job' = job
    BY DEF Take
  <1>3. i \in DOMAIN job.items /\ job.items[i].status = "queued" /\ i \in Nat
    BY <1>1, JobInvIs, ItemsAre DEF HavingIn
  <1> HIDE DEF i
  <1>4. ASSUME Sleeps, job' = job PROVE StepKeeps
    <2>1. worker' = Between("asleep") /\ "asleep" \in {"fetch", "next", "asleep"}
      BY <1>4 DEF Sleeps, Ends
    <2>2. worker' \in WorkerType /\ ~Busy'
      BY <2>1, BetweenIsAway
    <2> QED BY <1>4, <2>2, SameJobMoves, AwayFromItem
  <1>5. /\ n \in JobType /\ n.status = job.status /\ n.failures = job.failures
        /\ SameItems(n.items, job.items)
        /\ \A k \in DOMAIN job.items :
             n.items[k].status = IF k = i THEN "running" ELSE job.items[k].status
    <2>1. "running" \in ItemStatus /\ job \in JobType
      BY JobInvIs DEF ItemStatus
    <2> HIDE DEF n
    <2>2. n = WithStatus(job, i, "running")
      BY DEF n
    <2> QED BY <1>3, <2>1, <2>2, WithStatusSets
  <1> HIDE DEF n
  <1>6. \A x : HavingIn(n.items, x) = IF x = "running" THEN HavingIn(job.items, x) \union {i}
                                      ELSE HavingIn(job.items, x) \ {i}
    <2> DEFINE new == n.items
               old == job.items
    <2>1. /\ SameItems(new, old) /\ i \in DOMAIN old
          /\ \A k \in DOMAIN old : new[k].status = IF k = i THEN "running" ELSE old[k].status
      BY <1>3, <1>5
    <2> HIDE DEF new, old
    <2>2. \A x : HavingIn(new, x) = IF x = "running" THEN HavingIn(old, x) \union {i}
                                    ELSE HavingIn(old, x) \ {i}
      BY <2>1, HavingAfter
    <2> QED BY <2>2 DEF new, old
  <1>7. RunningIn(n) = {i}
    BY <1>0, <1>6, JobInvIs DEF RunningIn
  <1>8. CountsOK(n)
    <2>1. i \notin HavingIn(job.items, "failed") /\ i \notin HavingIn(job.items, "cancelled")
      BY <1>3 DEF HavingIn
    <2>2. /\ HavingIn(n.items, "failed") = HavingIn(job.items, "failed")
          /\ HavingIn(n.items, "cancelled") = HavingIn(job.items, "cancelled")
      BY <1>6, <2>1
    <2> QED BY <1>0, <1>5, <2>2, JobInvIs DEF CountsOK
  <1>9. ItemsMove(n.items, job.items)
    <2> SUFFICES ASSUME NEW k \in DOMAIN job.items
                 PROVE  /\ k \in DOMAIN n.items
                        /\ job.items[k].id = n.items[k].id
                        /\ job.items[k].ver = n.items[k].ver
                        /\ \/ job.items[k].status = n.items[k].status
                           \/ <<job.items[k].status, n.items[k].status>> \in Moves
      BY DEF ItemsMove
    <2>1. /\ k \in DOMAIN n.items /\ job.items[k].id = n.items[k].id
          /\ job.items[k].ver = n.items[k].ver
      BY <1>5 DEF SameItems
    <2>2. \/ job.items[k].status = n.items[k].status
          \/ <<job.items[k].status, n.items[k].status>> \in Moves
      BY <1>3, <1>5 DEF Moves
    <2> QED BY <2>1, <2>2
  <1>10. ASSUME job' = n, worker' = [pc |-> "call", index |-> i, failed |-> FALSE]
         PROVE  StepKeeps
    <2>1. worker' \in WorkerType /\ worker'.index = i
      BY <1>3, <1>10 DEF WorkerType, WorkerLabels
    <2>2. WorkerAtItem'
      BY <1>0, <1>5, <1>7, <1>10, <2>1 DEF WorkerAtItem, RunningIn
    <2>3. OneRunning'
      BY <1>7, <1>10 DEF OneRunning, RunningIn
    <2> QED BY <1>5, <1>8, <1>9, <1>10, <2>1, <2>2, <2>3 DEF JobInv, StepKeeps
  <1> QED BY <1>2, <1>4, <1>10

LEMMA CompleteKeeps ==
  ASSUME JobInv, Complete
  PROVE  StepKeeps
  <1> DEFINE n == [job EXCEPT !.status = "completed"]
  <1>1. /\ job.status = "running" /\ Having("running") = {} /\ Having("queued") = {}
        /\ Puts(n, "asleep")
    BY DEF Complete
  <1>2. /\ n \in JobType /\ n.status = "completed" /\ n.items = job.items
        /\ n.failures = job.failures
    BY JobInvIs DEF JobType
  <1> HIDE DEF n
  <1>3. CountsOK(n)
    BY <1>1, <1>2, JobInvIs DEF CountsOK
  <1>4. JobMoves(n, job)
    BY <1>2, <1>3, JobInvIs DEF JobMoves, OneRunningIn, RunningIn
  <1>5. "asleep" \in {"next", "asleep"}
    OBVIOUS
  <1> QED BY <1>1, <1>4, <1>5, PutsKeeps

(* A request merged into the items of a job, or the first of a new one.    *)
LEMMA QueueKeeps ==
  ASSUME JobInv, Queue
  PROVE  StepKeeps
  <1> DEFINE runs == job.status = "running"
             old == IF runs THEN job.items ELSE <<>>
             count == IF runs THEN job.failures ELSE 0
  <1>1. PICK r \in Requests :
          job' = [status |-> "running", items |-> Merge(old, r), failures |-> count]
    BY DEF Queue
  <1>2. worker' = worker
    BY DEF Queue
  <1> DEFINE new == Merge(old, r)
  <1>3. /\ old \in Seq(ItemType) /\ count \in Nat
        /\ count = Cardinality(HavingIn(old, "failed")) /\ count < FailureLimit
        /\ HavingIn(old, "cancelled") = {} /\ \A a, b \in HavingIn(old, "running") : a = b
    <2>1. ASSUME runs
          PROVE  /\ job.items \in Seq(ItemType) /\ job.failures \in Nat
                 /\ job.failures = Cardinality(HavingIn(job.items, "failed"))
                 /\ job.failures < FailureLimit /\ HavingIn(job.items, "cancelled") = {}
                 /\ \A a, b \in HavingIn(job.items, "running") : a = b
      <3>1. job \in JobType /\ CountsOK(job)
        BY JobInvIs
      <3>2. \A a, b \in HavingIn(job.items, "running") : a = b
        BY JobInvIs DEF OneRunningIn, RunningIn
      <3>3. job.failures < FailureLimit /\ HavingIn(job.items, "cancelled") = {}
        BY <2>1, <3>1 DEF CountsOK
      <3> QED BY <3>1, <3>2, <3>3, CountsAre
    <2>2. /\ <<>> \in Seq(ItemType) /\ \A x : HavingIn(<<>>, x) = {}
          /\ 0 = Cardinality({}) /\ 0 < FailureLimit
      BY FS_EmptySet DEF HavingIn, FailureLimit
    <2> QED BY <2>1, <2>2
  <1>4. MergeKeeps(new, old)
    <2> HIDE DEF old
    <2> QED BY <1>3, MergeKeepsItems
  <1>5. job'.status = "running" /\ job'.items = new /\ job'.failures = count
    BY <1>1
  <1>6. job' \in JobType
    <2> HIDE DEF new, count
    <2>1. new \in Seq(ItemType)
      BY <1>4 DEF MergeKeeps
    <2> QED BY <1>1, <1>3, <2>1 DEF JobType, new, count
  <1> HIDE DEF new, old, count
  <1>7. /\ Len(old) \in Nat /\ DOMAIN old = 1 .. Len(old)
        /\ Len(new) \in Nat /\ DOMAIN new = 1 .. Len(new) /\ Len(old) <= Len(new)
    BY <1>3, <1>4, ItemsAre DEF MergeKeeps
  <1>8. ASSUME NEW x, x # "queued"
        PROVE  HavingIn(new, x) = HavingIn(old, x)
    <2>1. ASSUME NEW k \in HavingIn(new, x) PROVE k \in HavingIn(old, x)
      BY <1>4, <1>7, <1>8, <2>1 DEF MergeKeeps, HavingIn
    <2>2. ASSUME NEW k \in HavingIn(old, x) PROVE k \in HavingIn(new, x)
      BY <1>4, <1>7, <1>8, <2>2 DEF MergeKeeps, HavingIn
    <2> QED BY <2>1, <2>2
  <1>9. /\ HavingIn(new, "failed") = HavingIn(old, "failed")
        /\ HavingIn(new, "cancelled") = HavingIn(old, "cancelled")
        /\ HavingIn(new, "running") = HavingIn(old, "running")
    BY <1>8
  <1>10. CountsOK(job')
    BY <1>3, <1>5, <1>9 DEF CountsOK
  <1>11. OneRunning'
    BY <1>3, <1>5, <1>9 DEF OneRunning
  <1>12. ASSUME runs PROVE ItemsMove(job'.items, job.items)
    <2>1. old = job.items
      BY <1>12 DEF old
    <2>2. ItemsMove(new, old)
      BY <1>4, <1>7 DEF MergeKeeps, ItemsMove
    <2> QED BY <1>5, <2>1, <2>2
  <1>13. WorkerAtItem'
    <2>1. Busy' => Busy /\ worker'.index = worker.index
      BY <1>2 DEF Busy
    <2>2. Busy => runs /\ worker.index \in HavingIn(job.items, "running")
      BY JobInvIs DEF RunningIn
    <2>3. runs => old = job.items
      BY DEF old
    <2> QED BY <1>5, <1>9, <2>1, <2>2, <2>3 DEF WorkerAtItem
  <1> QED BY <1>2, <1>6, <1>10, <1>11, <1>12, <1>13 DEF JobInv, StepKeeps

(* The rest of the worker, and of the world, leave the job alone.          *)
LEMMA WorkerKeeps ==
  ASSUME JobInv, Worker
  PROVE  StepKeeps
  <1>0. worker \in WorkerType
    BY JobInvIs
  <1>1. ASSUME NEW label \in {"next", "fetch", "gone"}, Go(label), job' = job PROVE StepKeeps
    <2>1. worker' \in WorkerType /\ worker'.pc = label
      BY <1>0, <1>1 DEF Go, WorkerType, WorkerLabels
    <2>2. ~Busy'
      BY <2>1 DEF Busy
    <2> QED BY <1>1, <2>1, <2>2, SameJobMoves, AwayFromItem
  <1>2. ASSUME NEW label \in {"starting", "waiting"}, Go(label), job' = job, Busy
        PROVE  StepKeeps
    <2>1. worker' \in WorkerType /\ worker'.index = worker.index
      BY <1>0, <1>2 DEF Go, WorkerType, WorkerLabels
    <2> QED BY <1>2, <2>1, AtSameItem
  <1>3. ASSUME NEW failed \in BOOLEAN, Returns(failed), job' = job, Busy PROVE StepKeeps
    <2>1. worker' \in WorkerType /\ worker'.index = worker.index
      <3>1. worker' = [worker EXCEPT !.pc = "finish", !.failed = failed]
        BY <1>3 DEF Returns
      <3>2. "finish" \in WorkerLabels
        BY DEF WorkerLabels
      <3> QED BY <1>0, <3>1, <3>2, Zenon DEF WorkerType
    <2> QED BY <1>3, <2>1, AtSameItem
  <1>4. ASSUME FetchWake \/ Wake \/ Leave PROVE StepKeeps
    BY <1>1, <1>4 DEF FetchWake, Wake, Leave
  <1>5. ASSUME NothingToDo PROVE StepKeeps
    <2>1. worker' = Between("asleep") /\ "asleep" \in {"fetch", "next", "asleep"} /\ job' = job
      BY <1>5 DEF NothingToDo, Sleeps, Ends
    <2>2. worker' \in WorkerType /\ ~Busy'
      BY <2>1, BetweenIsAway
    <2> QED BY <2>1, <2>2, SameJobMoves, AwayFromItem
  <1>6. ASSUME CallUpgrade PROVE StepKeeps
    <2>1. Busy /\ job' = job /\ (Go("starting") \/ Go("waiting") \/ Returns(TRUE))
      BY <1>6 DEF CallUpgrade, At, Busy
    <2> QED BY <1>2, <1>3, <2>1
  <1>7. ASSUME UpgradeReturns PROVE StepKeeps
    <2>1. Busy /\ job' = job /\ (Go("waiting") \/ Returns(TRUE))
      BY <1>7 DEF UpgradeReturns, At, Busy
    <2> QED BY <1>2, <1>3, <2>1
  <1>8. ASSUME Poll PROVE StepKeeps
    <2>1. Busy /\ job' = job /\ \E f \in BOOLEAN : Returns(f)
      BY <1>8 DEF Poll, At, Busy
    <2> QED BY <1>3, <2>1
  <1> QED BY <1>4, <1>5, <1>6, <1>7, <1>8, RecoverKeeps, TakeKeeps, CompleteKeeps,
             FinishKeeps DEF Worker, Rounds

LEMMA JobStep ==
  ASSUME JobInv, [Next]_vars
  PROVE  StepKeeps
  <1>1. ASSUME job' = job, worker' = worker PROVE StepKeeps
    <2>1. ItemsMove(job'.items, job.items)
      BY <1>1, JobInvIs
    <2>2. CountsOK(job') /\ OneRunning' /\ WorkerAtItem'
      BY <1>1 DEF JobInv, OneRunning, WorkerAtItem, Busy
    <2> QED BY <1>1, <2>1, <2>2 DEF JobInv, StepKeeps
  <1>2. ASSUME NEW i \in Services, OtherCall(i) \/ GoesOn(i) \/ GoesWrong(i)
        PROVE  StepKeeps
    BY <1>1, <1>2 DEF OtherCall, GoesOn, GoesWrong
  <1>3. ASSUME Stop PROVE StepKeeps
    BY <1>1, <1>3 DEF Stop
  <1>4. ASSUME Restart PROVE StepKeeps
    <2>1. worker' = Between("fetch") /\ "fetch" \in {"fetch", "next", "asleep"} /\ job' = job
      BY <1>4 DEF Restart, Ends
    <2>2. worker' \in WorkerType /\ ~Busy'
      BY <2>1, BetweenIsAway
    <2> QED BY <2>1, <2>2, SameJobMoves, AwayFromItem
  <1>5. ASSUME UNCHANGED vars PROVE StepKeeps
    BY <1>1, <1>5 DEF vars
  <1> QED BY <1>2, <1>3, <1>4, <1>5, QueueKeeps, WorkerKeeps DEF Next

-----------------------------------------------------------------------------
(* The theorems *)

LEMMA JobInvHolds == Spec => []JobInv
  <1>1. JobInv /\ [Next]_vars => JobInv'
    BY JobStep DEF StepKeeps
  <1> QED BY <1>1, JobInvInit, PTL DEF Spec

(* However requests are merged into the file, whatever fails and however   *)
(* often the controller restarts, at most one item is marked running, and  *)
(* it is the one the worker is at (runNextBulkUpgrade, manager.go:944-956; *)
(* container-runtime.md:357-358).                                          *)
THEOREM OneAtATimeHolds == Spec => []OneAtATime
  BY JobInvHolds, JobInvImplies, PTL

(* The third failed item, and nothing else, cancels what is left, and a    *)
(* job that has ended has nothing left to do (finishBulkUpgradeItem,       *)
(* manager.go:1005-1024).                                                  *)
THEOREM CancelledByThirdHolds == Spec => []CancelledByThird
  BY JobInvHolds, JobInvImplies, PTL

(* While a job runs no item is lost, moved, or given another service, an   *)
(* outcome stays, and only a queued item is given another version: a       *)
(* request of any length merged into the items of a job of any length      *)
(* (mergeBulkUpgradeItems, manager.go:1026-1040).                          *)
THEOREM RequestsKeptHolds == Spec => RequestsKept
  <1>1. JobInv /\ [Next]_vars =>
          [job.status = "running" =>
             \A k \in DOMAIN job.items :
               /\ k \in DOMAIN job'.items
               /\ LET a == job.items[k]
                      b == job'.items[k]
                  IN /\ a.id = b.id
                     /\ a.status # "queued" => a.ver = b.ver
                     /\ a.status = b.status \/ <<a.status, b.status>> \in Moves]_vars
    BY JobStep DEF StepKeeps, ItemsMove
  <1> QED BY <1>1, JobInvHolds, PTL DEF Spec, RequestsKept

=============================================================================
