--------------------------- MODULE Matomo_proofs ---------------------------
(* Proofs about Matomo for any number of PHP requests, keys, saves and     *)
(* failures.                                                               *)
EXTENDS Matomo, FiniteSetTheorems, TLAPS

-----------------------------------------------------------------------------
(* The strengthened invariant *)

Holding == {"read", "mark", "add", "answer", "unmark", "look", "save",
            "sync", "note", "fail"}

Busy == [pc : Holding \union {"lock"}, kind : {"deploy", "invalid", "unsuspend"},
         id : Ids \union {None}, saved : Ids \union {None}, doubt : BOOLEAN]

(* What the label of the lock's holder says of the row and of Matomo.      *)
LocalOK(x) ==
  /\ x.pc # "read" /\ ~x.doubt => x.saved = row.id
  /\ x.pc = "mark" => row.id = None /\ row.attempt = None
  /\ x.pc \in {"add", "answer", "unmark", "look", "save"} =>
       row.id = None /\ row.attempt \in Keys
  /\ x.pc \in {"add", "unmark"} => ~Exists(row.attempt) /\ row.attempt \notin asked
  /\ x.pc = "save" => x.id = row.attempt /\ Exists(x.id)
  /\ x.pc \in {"sync", "note"} => x.id = row.id /\ row.id # None
  /\ x.pc = "note" => sites[row.id] = "own"

ThreadsOK ==
  /\ th \in [Threads -> {Idle} \union Busy]
  /\ lock \in Threads \union {None}
  /\ \A t \in Threads : th[t].pc \in Holding <=> lock = t
  /\ \A t \in Threads : lock = t => LocalOK(th[t])

RowType ==
  /\ row \in [id : Ids \union {None}, attempt : Keys \union {None},
              err : {"null", "ok", "error"}]
  /\ sites \in [Ids -> Groups]
  /\ asked \subseteq used
  /\ cleared \subseteq used
  /\ used \subseteq Keys

(* Keys are found where they may be found, and one is pending only while   *)
(* there is no ID.                                                         *)
KeysOK ==
  /\ row.attempt # None => row.id = None /\ row.attempt \in used \ cleared
  /\ row.id # None => Exists(row.id)
  /\ \A k \in Keys : sites[k] \in {"none", "own", k}
  /\ sites[Imported] \in {"other", "own"}
  /\ \A k \in Keys : Exists(k) => k \in used
  /\ \A k \in asked : ~Exists(k)

RowOK == RowType /\ KeysOK /\ NoneForgotten /\ OkIsSynced

IInv == ThreadsOK /\ RowOK

-----------------------------------------------------------------------------
(* Helpers *)

LEMMA Labels ==
  "lock" \notin Holding /\ "idle" \notin Holding /\ Idle.pc = "idle"
  BY DEF Holding, Idle

(* The holder of the lock goes on to x and keeps the lock.                 *)
LEMMA HolderStep ==
  ASSUME IInv, NEW t \in Threads, lock = t, lock' = lock,
         NEW x \in Busy, x.pc \in Holding, LocalOK(x)',
         th' = [th EXCEPT ![t] = x]
  PROVE  ThreadsOK'
  BY DEF IInv, ThreadsOK

(* The holder releases the lock, or its process ends.                      *)
LEMMA ReleaseStep ==
  ASSUME IInv, NEW t \in Threads, lock = t, Returns(t)
  PROVE  ThreadsOK'
  BY Labels, MatomoAssumption DEF IInv, ThreadsOK, Returns

(* A request that does not hold the lock moves on without it.              *)
LEMMA OutsideStep ==
  ASSUME IInv, NEW t \in Threads, lock # t, lock' = lock,
         NEW x \in {Idle} \union Busy, x.pc \notin Holding,
         th' = [th EXCEPT ![t] = x], UNCHANGED <<row, sites, asked>>
  PROVE  ThreadsOK'
  BY DEF IInv, ThreadsOK, LocalOK, Exists

(* What a request at a label under the lock is.                            *)
LEMMA HolderFacts ==
  ASSUME IInv, NEW t \in Threads, NEW l \in Holding, At(t, l)
  PROVE  lock = t /\ th[t] \in Busy /\ LocalOK(th[t])
  BY Labels DEF IInv, ThreadsOK, At

(* Another label for a request.                                            *)
LEMMA GoType ==
  ASSUME NEW y \in Busy, NEW l \in Holding
  PROVE  /\ [y EXCEPT !.pc = l] \in Busy
         /\ [y EXCEPT !.pc = l].pc = l
         /\ [y EXCEPT !.pc = l].id = y.id
         /\ [y EXCEPT !.pc = l].saved = y.saved
         /\ [y EXCEPT !.pc = l].doubt = y.doubt
  BY DEF Busy

(* Groups are never mistaken for one another.                              *)
LEMMA GroupsDiffer ==
  \A k \in Keys : k # "none" /\ k # "own" /\ k # "other" /\ k # None /\ k # Imported
  BY MatomoAssumption

-----------------------------------------------------------------------------
LEMMA InitInv ==
  ASSUME Init
  PROVE  IInv
  <1>1. ThreadsOK
    BY MatomoAssumption, Labels DEF Init, ThreadsOK, LocalOK
  <1>2. RowOK
    BY MatomoAssumption, GroupsDiffer
    DEF Init, RowOK, RowType, KeysOK, NoneForgotten, OkIsSynced, Exists, Ids, Groups
  <1> QED BY <1>1, <1>2 DEF IInv

LEMMA StutterInv ==
  ASSUME IInv, UNCHANGED vars
  PROVE  IInv'
  BY DEF IInv, vars, ThreadsOK, LocalOK, RowOK, RowType, KeysOK, NoneForgotten,
         OkIsSynced, Exists

(* RowOK is about the row, Matomo and the history only.                    *)
LEMMA SameRow ==
  ASSUME IInv, UNCHANGED <<row, sites, asked, used, cleared>>
  PROVE  RowOK'
  BY DEF IInv, RowOK, RowType, KeysOK, NoneForgotten, OkIsSynced, Exists

(* So is it when only the status changes, to one that is not OK.           *)
LEMMA OnlyStatus ==
  ASSUME IInv, row' \in {row, [row EXCEPT !.err = "error"]},
         UNCHANGED <<sites, asked, used, cleared>>
  PROVE  RowOK'
  <1>1. row'.id = row.id /\ row'.attempt = row.attempt
        /\ (row'.err = row.err \/ row'.err = "error") /\ RowType'
    BY DEF IInv, RowOK, RowType
  <1> QED BY <1>1 DEF IInv, RowOK, KeysOK, NoneForgotten, OkIsSynced, Exists

-----------------------------------------------------------------------------
(* Steps that leave the row as it is *)

LEMMA CallInv ==
  ASSUME IInv, NEW t \in Threads, Call(t)
  PROVE  IInv'
  <1>1. PICK kind \in {"deploy", "invalid", "unsuspend"} :
          th' = [th EXCEPT ![t] =
            [pc |-> "lock", kind |-> kind, id |-> None, saved |-> None, doubt |-> FALSE]]
    BY DEF Call
  <1>2. PICK x : x = [pc |-> "lock", kind |-> kind, id |-> None, saved |-> None, doubt |-> FALSE]
    OBVIOUS
  <1>3. x \in Busy /\ x.pc \notin Holding
    BY <1>2, Labels DEF Busy
  <1>4. lock # t
    BY Labels DEF IInv, ThreadsOK, Call, At
  <1>5. ThreadsOK'
    BY <1>1, <1>2, <1>3, <1>4, OutsideStep DEF Call
  <1>6. RowOK'
    BY SameRow DEF Call, history
  <1> QED BY <1>5, <1>6 DEF IInv

LEMMA GetLockInv ==
  ASSUME IInv, NEW t \in Threads, GetLock(t)
  PROVE  IInv'
  <1>1. th[t] \in Busy
    BY Labels DEF IInv, ThreadsOK, GetLock, At
  <1>2. PICK x \in Busy : x = [th[t] EXCEPT !.pc = "read"]
    BY <1>1, GoType DEF Holding
  <1>3. x.pc = "read" /\ "read" \in Holding
    BY <1>1, <1>2, GoType DEF Holding
  <1>4. LocalOK(x)'
    BY <1>3 DEF LocalOK
  <1>5. th' = [th EXCEPT ![t] = x] /\ lock = None /\ lock' = t
    BY <1>2 DEF GetLock, Go
  <1>6. ThreadsOK'
    BY <1>3, <1>4, <1>5, MatomoAssumption DEF IInv, ThreadsOK
  <1>7. RowOK'
    BY SameRow DEF GetLock, history
  <1> QED BY <1>6, <1>7 DEF IInv

LEMMA LockTimesOutInv ==
  ASSUME IInv, NEW t \in Threads, LockTimesOut(t)
  PROVE  IInv'
  <1>1. lock # t
    BY Labels DEF IInv, ThreadsOK, LockTimesOut, At
  <1>2. ThreadsOK'
    BY <1>1, Labels, OutsideStep DEF LockTimesOut
  <1>3. RowOK'
    BY SameRow DEF LockTimesOut, history
  <1> QED BY <1>2, <1>3 DEF IInv

LEMMA CrashInv ==
  ASSUME IInv, NEW t \in Threads, Crash(t)
  PROVE  IInv'
  <1>1. ThreadsOK'
    BY ReleaseStep DEF Crash
  <1>2. RowOK'
    BY SameRow DEF Crash, history
  <1> QED BY <1>1, <1>2 DEF IInv

LEMMA ReadInv ==
  ASSUME IInv, NEW t \in Threads, Read(t)
  PROVE  IInv'
  <1>1. lock = t /\ th[t] \in Busy
    BY HolderFacts DEF Read, Holding
  <1>2. RowOK'
    BY SameRow DEF Read, history
  <1>3. CASE th[t].kind = "unsuspend"
    <2>1. ThreadsOK'
      BY <1>1, <1>3, ReleaseStep DEF Read
    <2> QED BY <2>1, <1>2 DEF IInv
  <1>4. CASE th[t].kind # "unsuspend"
    <2> DEFINE l == IF th[t].kind = "invalid" THEN "fail"
                    ELSE IF row.id # None     THEN "sync"
                    ELSE IF row.attempt # None THEN "look" ELSE "mark"
    <2>1. PICK x : x = [th[t] EXCEPT !.id = row.id, !.saved = row.id, !.pc = l]
      OBVIOUS
    <2>2. th' = [th EXCEPT ![t] = x] /\ lock' = lock
      BY <1>4, <2>1 DEF Read
    <2>3. x \in Busy /\ x.pc = l /\ x.id = row.id /\ x.saved = row.id /\ l \in Holding
      BY <1>1, <2>1 DEF Busy, Holding, IInv, RowOK, RowType
    <2>4. row.attempt \in Keys \union {None}
      BY DEF IInv, RowOK, RowType
    <2>5. LocalOK(x)
      BY <2>3, <2>4 DEF LocalOK
    <2>6. LocalOK(x)'
      BY <2>5 DEF LocalOK, Exists, Read
    <2>7. ThreadsOK'
      BY <1>1, <2>2, <2>3, <2>6, HolderStep
    <2> QED BY <2>7, <1>2 DEF IInv
  <1> QED BY <1>3, <1>4

LEMMA ReadFailsInv ==
  ASSUME IInv, NEW t \in Threads, ReadFails(t)
  PROVE  IInv'
  <1>1. lock = t /\ th[t] \in Busy
    BY HolderFacts DEF ReadFails, Holding
  <1>2. PICK x : x = [th[t] EXCEPT !.pc = "fail", !.doubt = TRUE]
    OBVIOUS
  <1>3. x \in Busy /\ x.pc = "fail" /\ x.doubt /\ "fail" \in Holding
    BY <1>1, <1>2 DEF Busy, Holding
  <1>4. LocalOK(x)'
    BY <1>3 DEF LocalOK
  <1>5. th' = [th EXCEPT ![t] = x] /\ lock' = lock
    BY <1>2 DEF ReadFails
  <1>6. ThreadsOK'
    BY <1>1, <1>3, <1>4, <1>5, HolderStep
  <1>7. RowOK'
    BY SameRow DEF ReadFails, history
  <1> QED BY <1>6, <1>7 DEF IInv

-----------------------------------------------------------------------------
(* Steps that change the row or Matomo *)

(* The holder goes on to another label that fits the new row.              *)
LEMMA GoStep ==
  ASSUME IInv, NEW t \in Threads, lock = t, lock' = lock, NEW l \in Holding, Go(t, l),
         \A x \in Busy : x.pc = l /\ x.id = th[t].id /\ x.saved = th[t].saved
                           /\ x.doubt = th[t].doubt => LocalOK(x)'
  PROVE  ThreadsOK'
  <1>1. th[t] \in Busy
    BY Labels DEF IInv, ThreadsOK
  <1>2. PICK x \in Busy : x = [th[t] EXCEPT !.pc = l]
    BY <1>1, GoType
  <1>3. /\ x.pc = l /\ x.id = th[t].id /\ x.saved = th[t].saved /\ x.doubt = th[t].doubt
    BY <1>1, <1>2, GoType
  <1>4. th' = [th EXCEPT ![t] = x]
    BY <1>2 DEF Go
  <1> QED BY <1>2, <1>3, <1>4, HolderStep

(* To the catch clause, with the ID in the row unchanged.                  *)
LEMMA GoFail ==
  ASSUME IInv, NEW t \in Threads, NEW l \in Holding, At(t, l), l # "read",
         lock' = lock, Go(t, "fail"), row'.id = row.id
  PROVE  ThreadsOK'
  <1>1. lock = t /\ LocalOK(th[t])
    BY HolderFacts
  <1>2. "fail" \in Holding
    BY DEF Holding
  <1>3. ASSUME NEW x \in Busy, x.pc = "fail", x.saved = th[t].saved,
               x.doubt = th[t].doubt
        PROVE  LocalOK(x)'
    BY <1>1, <1>3 DEF LocalOK, At
  <1> QED BY <1>1, <1>2, <1>3, GoStep

LEMMA FreshKey ==
  ASSUME IInv, used # Keys
  PROVE  LET key == CHOOSE k \in Keys : k \notin used
         IN  key \in Keys /\ key \notin used /\ key \notin asked /\ ~Exists(key)
  BY DEF IInv, RowOK, RowType, KeysOK

LEMMA MarkInv ==
  ASSUME IInv, NEW t \in Threads, Mark(t)
  PROVE  IInv'
  <1> DEFINE key == CHOOSE k \in Keys : k \notin used
  <1>1. key \in Keys /\ key \notin used /\ key \notin asked /\ ~Exists(key)
    BY FreshKey DEF Mark
  <1>2. used' = used \union {key} /\ row' \in {row, [row EXCEPT !.attempt = key]}
    BY DEF Mark, Sets, FailsToSet
  <1> HIDE DEF key
  <1>3. lock = t /\ th[t] \in Busy /\ LocalOK(th[t]) /\ "mark" \in Holding
    BY HolderFacts DEF Mark, Holding
  <1>4. row.id = None /\ row.attempt = None
    BY <1>3 DEF Mark, At, LocalOK
  <1>5. row'.id = None /\ row'.attempt \in {None, key} /\ row'.err = row.err /\ RowType'
    BY <1>1, <1>2, <1>4 DEF IInv, RowOK, RowType, Mark
  <1>6. RowOK'
    <2>1. KeysOK'
      BY <1>1, <1>2, <1>5 DEF IInv, RowOK, RowType, KeysOK, Exists, Mark
    <2>2. NoneForgotten'
      BY <1>1, <1>2, <1>4, <1>5, GroupsDiffer DEF IInv, RowOK, NoneForgotten, Exists, Mark
    <2>3. OkIsSynced'
      BY <1>4, <1>5 DEF IInv, RowOK, OkIsSynced
    <2> QED BY <1>5, <2>1, <2>2, <2>3 DEF RowOK
  <1>7. CASE Go(t, "fail")
    <2>1. ThreadsOK'
      BY <1>3, <1>4, <1>5, <1>7, GoFail DEF Mark
    <2> QED BY <1>6, <2>1 DEF IInv
  <1>8. CASE Go(t, "add") /\ row' = [row EXCEPT !.attempt = key]
    <2>1. row'.attempt = key
      BY <1>8 DEF IInv, RowOK, RowType
    <2>2. "add" \in Holding
      BY DEF Holding
    <2>3. ASSUME NEW x \in Busy, x.pc = "add", x.saved = th[t].saved,
                 x.doubt = th[t].doubt
          PROVE  LocalOK(x)'
      BY <1>1, <1>3, <1>4, <1>5, <2>1, <2>3 DEF LocalOK, Exists, Mark, At
    <2>4. ThreadsOK'
      BY <1>3, <1>8, <2>2, <2>3, GoStep DEF Mark
    <2> QED BY <1>6, <2>4 DEF IInv
  <1> QED BY <1>7, <1>8 DEF Mark, Sets, FailsToSet, key

LEMMA AddSiteInv ==
  ASSUME IInv, NEW t \in Threads, AddSite(t)
  PROVE  IInv'
  <1>1. lock = t /\ th[t] \in Busy /\ LocalOK(th[t]) /\ {"add", "answer", "unmark"} \subseteq Holding
    BY HolderFacts DEF AddSite, Holding
  <1>2. row.id = None /\ row.attempt \in Keys /\ ~Exists(row.attempt) /\ row.attempt \notin asked
    BY <1>1 DEF AddSite, At, LocalOK
  <1>3. row.attempt \in used \ cleared
    BY <1>2, GroupsDiffer DEF IInv, RowOK, KeysOK
  <1>4. CASE asked' = asked \union {row.attempt} /\ Go(t, "answer")
    <2>1. RowOK'
      BY <1>2, <1>3, <1>4
      DEF IInv, RowOK, RowType, KeysOK, NoneForgotten, OkIsSynced, Exists, AddSite, history
    <2>2. ASSUME NEW x \in Busy, x.pc = "answer", x.saved = th[t].saved,
                 x.doubt = th[t].doubt
          PROVE  LocalOK(x)'
      BY <1>1, <1>2, <2>2 DEF LocalOK, AddSite, At
    <2>3. ThreadsOK'
      BY <1>1, <1>4, <2>2, GoStep DEF AddSite
    <2> QED BY <2>1, <2>3 DEF IInv
  <1>5. CASE UNCHANGED asked /\ Go(t, "unmark")
    <2>1. RowOK'
      BY <1>5, SameRow DEF AddSite, history
    <2>2. ASSUME NEW x \in Busy, x.pc = "unmark", x.saved = th[t].saved,
                 x.doubt = th[t].doubt
          PROVE  LocalOK(x)'
      BY <1>1, <1>2, <1>5, <2>2 DEF LocalOK, AddSite, At, Exists
    <2>3. ThreadsOK'
      BY <1>1, <1>5, <2>2, GoStep DEF AddSite
    <2> QED BY <2>1, <2>3 DEF IInv
  <1> QED BY <1>4, <1>5 DEF AddSite

LEMMA CreatedInv ==
  ASSUME IInv, NEW t \in Threads, Created(t)
  PROVE  IInv'
  <1>1. lock = t /\ th[t] \in Busy /\ LocalOK(th[t]) /\ "save" \in Holding
    BY HolderFacts DEF Created, Holding
  <1>2. row.id = None /\ row.attempt \in Keys /\ Exists(row.attempt)
    BY <1>1 DEF Created, At, LocalOK
  <1>3. PICK x : x = [th[t] EXCEPT !.pc = "save", !.id = row.attempt]
    OBVIOUS
  <1>4. x \in Busy /\ x.pc = "save" /\ x.id = row.attempt /\ x.saved = th[t].saved
        /\ x.doubt = th[t].doubt
    BY <1>1, <1>2, <1>3 DEF Busy, Ids, Holding
  <1>5. LocalOK(x)'
    BY <1>1, <1>2, <1>4 DEF LocalOK, Created, At, Exists
  <1>6. ThreadsOK'
    BY <1>1, <1>3, <1>4, <1>5, HolderStep DEF Created
  <1>7. RowOK'
    BY SameRow DEF Created, history
  <1> QED BY <1>6, <1>7 DEF IInv

LEMMA AnswerLostInv ==
  ASSUME IInv, NEW t \in Threads, AnswerLost(t)
  PROVE  IInv'
  <1>1. "answer" \in Holding
    BY DEF Holding
  <1>2. ThreadsOK'
    BY <1>1, GoFail DEF AnswerLost
  <1>3. asked' \subseteq asked
    BY DEF AnswerLost
  <1>4. RowOK'
    BY <1>3 DEF IInv, RowOK, RowType, KeysOK, NoneForgotten, OkIsSynced, Exists,
                AnswerLost, history
  <1> QED BY <1>2, <1>4 DEF IInv

LEMMA UnmarkInv ==
  ASSUME IInv, NEW t \in Threads, Unmark(t)
  PROVE  IInv'
  <1>1. lock = t /\ LocalOK(th[t]) /\ "unmark" \in Holding
    BY HolderFacts DEF Unmark, Holding
  <1>2. row.id = None /\ row.attempt \in Keys /\ ~Exists(row.attempt) /\ row.attempt \notin asked
    BY <1>1 DEF Unmark, At, LocalOK
  <1>3. row' \in {row, [row EXCEPT !.attempt = None]}
    BY DEF Unmark, Sets, FailsToSet
  <1>4. row'.id = row.id /\ row'.attempt \in {row.attempt, None} /\ row'.err = row.err /\ RowType'
    BY <1>3 DEF IInv, RowOK, RowType, Unmark, history
  <1>5. ThreadsOK'
    BY <1>1, <1>4, GoFail DEF Unmark
  <1>6. RowOK'
    BY <1>2, <1>4 DEF IInv, RowOK, KeysOK, NoneForgotten, OkIsSynced, Exists, Unmark, history
  <1> QED BY <1>5, <1>6 DEF IInv

(* A site that bears a key is the one that key has created.                *)
LEMMA MatchIsOwn ==
  ASSUME IInv, NEW key \in Keys, NEW i \in Ids, sites[i] = key
  PROVE  i = key /\ Exists(i)
  BY GroupsDiffer DEF IInv, RowOK, KeysOK, Exists, Ids

LEMMA LookInv ==
  ASSUME IInv, NEW t \in Threads, Look(t)
  PROVE  IInv'
  <1>1. lock = t /\ th[t] \in Busy /\ LocalOK(th[t]) /\ {"look", "save"} \subseteq Holding
    BY HolderFacts DEF Look, Holding
  <1>2. row.id = None /\ row.attempt \in Keys
    BY <1>1 DEF Look, At, LocalOK
  <1>3. RowOK'
    BY SameRow DEF Look, history
  <1>4. CASE Go(t, "fail")
    <2>1. ThreadsOK'
      BY <1>1, <1>4, GoFail DEF Look
    <2> QED BY <1>3, <2>1 DEF IInv
  <1>5. CASE /\ Cardinality(Matches(row.attempt)) = 1
             /\ th' = [th EXCEPT ![t].pc = "save",
                         ![t].id = CHOOSE i \in Matches(row.attempt) : TRUE]
    <2>1. Matches(row.attempt) # {}
      BY <1>5, FS_EmptySet
    <2>2. PICK i : i = CHOOSE j \in Matches(row.attempt) : TRUE
      OBVIOUS
    <2>3. i \in Ids /\ sites[i] = row.attempt
      BY <2>1, <2>2 DEF Matches
    <2>4. i = row.attempt /\ Exists(i)
      BY <1>2, <2>3, MatchIsOwn
    <2>5. PICK x : x = [th[t] EXCEPT !.pc = "save", !.id = i]
      OBVIOUS
    <2>6. x \in Busy /\ x.pc = "save" /\ x.id = i /\ x.saved = th[t].saved
          /\ x.doubt = th[t].doubt
      BY <1>1, <2>3, <2>5 DEF Busy
    <2>7. LocalOK(x)'
      BY <1>1, <1>2, <2>4, <2>6 DEF LocalOK, Look, At, Exists
    <2>8. th' = [th EXCEPT ![t] = x]
      <3>1. th' = [th EXCEPT ![t].pc = "save", ![t].id = i]
        BY <1>5, <2>2, Zenon
      <3> QED BY <2>5, <3>1
    <2>9. ThreadsOK'
      BY <1>1, <2>6, <2>7, <2>8, HolderStep DEF Look
    <2> QED BY <1>3, <2>9 DEF IInv
  <1> QED BY <1>4, <1>5 DEF Look

LEMMA SaveIdInv ==
  ASSUME IInv, NEW t \in Threads, SaveId(t)
  PROVE  IInv'
  <1>1. lock = t /\ th[t] \in Busy /\ LocalOK(th[t]) /\ {"save", "sync", "fail"} \subseteq Holding
    BY HolderFacts DEF SaveId, Holding
  <1>2. row.id = None /\ row.attempt \in Keys /\ th[t].id = row.attempt /\ Exists(row.attempt)
    BY <1>1 DEF SaveId, At, LocalOK
  <1> DEFINE saved == [row EXCEPT !.id = th[t].id, !.attempt = None]
  <1>3. row' \in {row, saved}
    BY DEF SaveId, Sets, FailsToSet
  <1>4. RowType'
    BY <1>2, <1>3 DEF IInv, RowOK, RowType, SaveId, history, Ids
  <1>5. \/ row' = row
        \/ row'.id = row.attempt /\ row'.attempt = None /\ row'.err = row.err
    BY <1>2, <1>3 DEF IInv, RowOK, RowType
  <1>6. RowOK'
    <2>1. KeysOK' /\ NoneForgotten'
      BY <1>2, <1>5, GroupsDiffer
      DEF IInv, RowOK, KeysOK, NoneForgotten, Exists, SaveId, history
    <2>2. OkIsSynced'
      BY <1>2, <1>5 DEF IInv, RowOK, OkIsSynced, SaveId
    <2> QED BY <1>4, <2>1, <2>2 DEF RowOK
  <1>7. CASE row' = saved /\ th' = [th EXCEPT ![t].pc = "sync", ![t].saved = th[t].id]
    <2>1. PICK x : x = [th[t] EXCEPT !.pc = "sync", !.saved = th[t].id]
      OBVIOUS
    <2>2. x \in Busy /\ x.pc = "sync" /\ x.id = th[t].id /\ x.saved = th[t].id
      BY <1>1, <2>1 DEF Busy
    <2>3. row'.id = th[t].id
      BY <1>7 DEF IInv, RowOK, RowType
    <2>4. LocalOK(x)'
      BY <1>2, <2>2, <2>3, GroupsDiffer DEF LocalOK
    <2>5. th' = [th EXCEPT ![t] = x]
      BY <1>7, <2>1
    <2>6. ThreadsOK'
      BY <1>1, <2>2, <2>4, <2>5, HolderStep DEF SaveId
    <2> QED BY <1>6, <2>6 DEF IInv
  <1>8. CASE th' = [th EXCEPT ![t].pc = "fail", ![t].doubt = TRUE]
    <2>1. PICK x : x = [th[t] EXCEPT !.pc = "fail", !.doubt = TRUE]
      OBVIOUS
    <2>2. x \in Busy /\ x.pc = "fail" /\ x.doubt
      BY <1>1, <2>1 DEF Busy
    <2>3. LocalOK(x)'
      BY <2>2 DEF LocalOK
    <2>4. th' = [th EXCEPT ![t] = x]
      BY <1>8, <2>1
    <2>5. ThreadsOK'
      BY <1>1, <2>2, <2>3, <2>4, HolderStep DEF SaveId
    <2> QED BY <1>6, <2>5 DEF IInv
  <1> QED BY <1>7, <1>8 DEF SaveId, Sets

LEMMA UpdateSiteInv ==
  ASSUME IInv, NEW t \in Threads, UpdateSite(t)
  PROVE  IInv'
  <1>1. lock = t /\ th[t] \in Busy /\ LocalOK(th[t]) /\ {"sync", "note"} \subseteq Holding
    BY HolderFacts DEF UpdateSite, Holding
  <1>2. th[t].id = row.id /\ row.id \in Ids /\ Exists(row.id) /\ row.attempt = None
    BY <1>1 DEF UpdateSite, At, LocalOK, IInv, RowOK, RowType, KeysOK
  <1>3. sites' \in {sites, [sites EXCEPT ![row.id] = "own"]}
    BY <1>2 DEF UpdateSite
  <1>4. /\ \A i \in Ids : i # row.id => sites'[i] = sites[i]
        /\ sites'[row.id] \in {sites[row.id], "own"}
        /\ sites' \in [Ids -> Groups]
    BY <1>2, <1>3 DEF IInv, RowOK, RowType, Groups
  <1>5. RowOK'
    <2>1. RowType'
      BY <1>4 DEF IInv, RowOK, RowType, UpdateSite, history
    <2>2. KeysOK'
      BY <1>2, <1>4, GroupsDiffer DEF IInv, RowOK, RowType, KeysOK, Exists, UpdateSite, history, Ids
    <2>3. NoneForgotten'
      BY <1>2, <1>4, GroupsDiffer DEF IInv, RowOK, NoneForgotten, Exists, UpdateSite, history, Ids
    <2>4. OkIsSynced'
      BY <1>2, <1>4 DEF IInv, RowOK, OkIsSynced, UpdateSite
    <2> QED BY <2>1, <2>2, <2>3, <2>4 DEF RowOK
  <1>6. CASE Go(t, "fail")
    <2>1. ThreadsOK'
      BY <1>1, <1>6, GoFail DEF UpdateSite
    <2> QED BY <1>5, <2>1 DEF IInv
  <1>7. CASE sites' = [sites EXCEPT ![th[t].id] = "own"] /\ Go(t, "note")
    <2>1. sites'[row.id] = "own"
      BY <1>2, <1>7 DEF IInv, RowOK, RowType
    <2>2. ASSUME NEW x \in Busy, x.pc = "note", x.id = th[t].id,
                 x.saved = th[t].saved, x.doubt = th[t].doubt
          PROVE  LocalOK(x)'
      BY <1>1, <2>1, <2>2 DEF LocalOK, UpdateSite, At
    <2>3. ThreadsOK'
      BY <1>1, <1>7, <2>2, GoStep DEF UpdateSite
    <2> QED BY <1>5, <2>3 DEF IInv
  <1> QED BY <1>6, <1>7 DEF UpdateSite

LEMMA NoteInv ==
  ASSUME IInv, NEW t \in Threads, Note(t)
  PROVE  IInv'
  <1>1. lock = t /\ LocalOK(th[t]) /\ "note" \in Holding
    BY HolderFacts DEF Note, Holding
  <1>2. row.id # None /\ sites[row.id] = "own"
    BY <1>1 DEF Note, At, LocalOK
  <1>3. row' \in {row, [row EXCEPT !.err = "ok"]}
    BY DEF Note, Sets, FailsToSet
  <1>4. row'.id = row.id /\ row'.attempt = row.attempt /\ RowType'
    BY <1>3 DEF IInv, RowOK, RowType, Note, history
  <1>5. RowOK'
    BY <1>2, <1>4 DEF IInv, RowOK, KeysOK, NoneForgotten, OkIsSynced, Exists, Note, history
  <1>6. CASE Returns(t)
    <2>1. ThreadsOK'
      BY <1>1, <1>6, ReleaseStep
    <2> QED BY <1>5, <2>1 DEF IInv
  <1>7. CASE Go(t, "fail") /\ UNCHANGED lock
    <2>1. ThreadsOK'
      BY <1>1, <1>4, <1>7, GoFail DEF Note
    <2> QED BY <1>5, <2>1 DEF IInv
  <1> QED BY <1>6, <1>7 DEF Note

LEMMA FailInv ==
  ASSUME IInv, NEW t \in Threads, Fail(t)
  PROVE  IInv'
  <1>1. lock = t
    BY HolderFacts DEF Fail, Holding
  <1>2. ThreadsOK'
    BY <1>1, ReleaseStep DEF Fail
  <1>3. RowOK'
    BY OnlyStatus DEF Fail, Sets, FailsToSet, history
  <1> QED BY <1>2, <1>3 DEF IInv

(* Matomo creates a site beside the holder of the lock.                    *)
LEMMA MatomoCreatesInv ==
  ASSUME IInv, MatomoCreates
  PROVE  IInv'
  <1>1. PICK key \in asked : sites' = [sites EXCEPT ![key] = key] /\ asked' = asked \ {key}
    BY DEF MatomoCreates
  <1>2. key \in Keys /\ key \in used /\ ~Exists(key) /\ key \in Ids
    BY DEF IInv, RowOK, RowType, KeysOK, Ids
  <1>3. /\ \A i \in Ids : i # key => sites'[i] = sites[i]
        /\ sites'[key] = key
        /\ sites' \in [Ids -> Groups]
    BY <1>1, <1>2 DEF IInv, RowOK, RowType, Groups
  <1>4. row.id # key
    BY <1>2, GroupsDiffer DEF IInv, RowOK, KeysOK
  <1>5. RowOK'
    <2>1. RowType'
      BY <1>1, <1>3 DEF IInv, RowOK, RowType, MatomoCreates, history
    <2>2. KeysOK'
      BY <1>1, <1>2, <1>3, <1>4, GroupsDiffer
      DEF IInv, RowOK, RowType, KeysOK, Exists, MatomoCreates, history, Ids
    <2>3. NoneForgotten'
      BY <1>1, <1>2, <1>3 DEF IInv, RowOK, NoneForgotten, Exists, MatomoCreates, history, Ids
    <2>4. OkIsSynced'
      BY <1>3, <1>4 DEF IInv, RowOK, RowType, OkIsSynced, MatomoCreates
    <2> QED BY <2>1, <2>2, <2>3, <2>4 DEF RowOK
  <1>6. ASSUME NEW t \in Threads, lock = t
        PROVE  LocalOK(th[t])'
    <2>1. LocalOK(th[t]) /\ th[t] \in Busy
      BY <1>6, Labels DEF IInv, ThreadsOK
    <2> QED BY <1>1, <1>2, <1>3, <1>4, <2>1, GroupsDiffer
            DEF IInv, RowOK, RowType, LocalOK, Exists, MatomoCreates, Ids
  <1>7. ThreadsOK'
    BY <1>6 DEF IInv, ThreadsOK, MatomoCreates
  <1> QED BY <1>5, <1>7 DEF IInv

LEMMA SaveConfigInv ==
  ASSUME IInv, SaveConfig
  PROVE  IInv'
  <1>1. PICK id \in {i \in Ids : Exists(i)} \union {None}, preserve \in BOOLEAN :
          row' = Saved(id, preserve) /\ row' # row
    BY DEF SaveConfig
  <1>2. /\ row'.id = id /\ row'.attempt = None
        /\ row'.err = "null" \/ (row'.err = row.err /\ row'.id = row.id)
        /\ RowType'
    BY <1>1 DEF IInv, RowOK, RowType, Saved, SaveConfig
  <1>3. RowOK'
    <2>1. KeysOK' /\ OkIsSynced'
      BY <1>1, <1>2 DEF IInv, RowOK, KeysOK, OkIsSynced, Exists, SaveConfig
    <2>2. NoneForgotten'
      BY DEF IInv, RowOK, RowType, KeysOK, NoneForgotten, Exists, SaveConfig
    <2> QED BY <1>2, <2>1, <2>2 DEF RowOK
  <1>4. ThreadsOK'
    BY MatomoAssumption DEF IInv, ThreadsOK, SaveConfig
  <1> QED BY <1>3, <1>4 DEF IInv

-----------------------------------------------------------------------------
LEMMA Inductive ==
  ASSUME IInv, [Next]_vars
  PROVE  IInv'
  <1>1. ASSUME NEW t \in Threads, Call(t) \/ Work(t) \/ Crash(t)
        PROVE  IInv'
    BY <1>1, CallInv, CrashInv, GetLockInv, LockTimesOutInv, ReadInv, ReadFailsInv,
       MarkInv, AddSiteInv, CreatedInv, AnswerLostInv, UnmarkInv, LookInv,
       SaveIdInv, UpdateSiteInv, NoteInv, FailInv
    DEF Work
  <1> QED BY <1>1, MatomoCreatesInv, SaveConfigInv, StutterInv DEF Next

LEMMA Invariant ==
  Spec => []IInv
  <1> QED BY InitInv, Inductive, PTL DEF Spec

(* The row, the sites and the requests keep their types, and a Deploy that *)
(* goes on to save or to rename has an ID (matomo.php:124-139).            *)
THEOREM TypesCorrect ==
  Spec => []TypeOK
  <1>1. ASSUME IInv
        PROVE  TypeOK
    <2>1. RowType /\ KeysOK /\ lock \in Threads \union {None}
      BY <1>1 DEF IInv, ThreadsOK, RowOK
    <2>2. ASSUME NEW t \in Threads, th[t].pc \in {"save", "sync"}
          PROVE  th[t].id \in Ids
      <3>1. LocalOK(th[t]) /\ th[t] \in {Idle} \union Busy
        BY <1>1, <2>2 DEF IInv, ThreadsOK, Holding
      <3>2. CASE th[t].pc = "save"
        <4>1. th[t].id = row.attempt /\ row.attempt \in Keys
          BY <3>1, <3>2 DEF LocalOK
        <4> QED BY <4>1 DEF Ids
      <3>3. CASE th[t].pc = "sync"
        <4>1. th[t].id = row.id /\ row.id # None
          BY <3>1, <3>3 DEF LocalOK
        <4>2. row.id \in Ids \union {None}
          BY <2>1 DEF RowType
        <4> QED BY <4>1, <4>2
      <3> QED BY <2>2, <3>2, <3>3
    <2> QED BY <2>1, <2>2 DEF RowType, TypeOK
  <1> QED BY <1>1, Invariant, PTL

(* The service gets one Matomo site at most, for any number of Deploys at  *)
(* once, of keys, of failures and of saves.                                *)
THEOREM OneSite ==
  Spec => []AtMostOneSite
  <1>1. ASSUME IInv
        PROVE  AtMostOneSite
    <2> DEFINE made == {k \in Keys \ cleared : Exists(k)}
    <2>1. PICK x : made \subseteq {x}
      <3>1. \A k \in made : k = row.id \/ k = row.attempt
        BY <1>1 DEF IInv, RowOK, NoneForgotten
      <3>2. CASE row.id = None
        <4>1. made \subseteq {row.attempt}
          BY <3>1, <3>2, GroupsDiffer
        <4> QED BY <4>1
      <3>3. CASE row.id # None
        <4>1. made \subseteq {row.id}
          BY <1>1, <3>1, <3>3, GroupsDiffer DEF IInv, RowOK, KeysOK
        <4> QED BY <4>1
      <3> QED BY <3>2, <3>3
    <2>2. IsFiniteSet({x}) /\ Cardinality({x}) = 1
      BY FS_Singleton
    <2>3. Cardinality(made) <= Cardinality({x})
      BY <2>1, <2>2, FS_Subset
    <2> QED BY <2>2, <2>3 DEF AtMostOneSite
  <1> QED BY <1>1, Invariant, PTL

(* A site that has been asked for can always be found again.               *)
THEOREM NoSiteForgotten ==
  Spec => []NoneForgotten
  <1>1. IInv => NoneForgotten
    BY DEF IInv, RowOK
  <1> QED BY <1>1, Invariant, PTL

(* A Deploy returns the ID that is in the row.                             *)
THEOREM SavedIsReturned ==
  Spec => []ReturnsTheSaved
  <1>1. IInv => ReturnsTheSaved
    BY DEF IInv, ThreadsOK, ReturnsTheSaved, LocalOK, At
  <1> QED BY <1>1, Invariant, PTL

(* "Status: OK" is about the site in the row.                              *)
THEOREM StatusIsTrue ==
  Spec => []OkIsSynced
  <1>1. IInv => OkIsSynced
    BY DEF IInv, RowOK
  <1> QED BY <1>1, Invariant, PTL

=============================================================================
