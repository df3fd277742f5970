------------------------- MODULE CaddyRoutes_proofs -------------------------
(* Proofs about CaddyRoutes for any number of services, hostnames, calls   *)
(* and troubles.                                                           *)
EXTENDS CaddyRoutes, TLAPS

-----------------------------------------------------------------------------
(* The inductive invariant, part by part. *)

(* What is known of a call at each of its steps.  The last two conjuncts   *)
(* need a roll-back that could write.                                      *)

Restores == troubles \intersect {"restore", "crash"} = {}

Changed == {"map", "validate", "reload", "loading", "cut"}
Undone == {"revalidate", "rereload", "reloading"}

CallOK(s) ==
  LET c == call[s] IN
  /\ c.pc = "site" => file[s] = c.old /\ map[s] = c.oldMap
  /\ c.pc = "map" => map[s] = c.oldMap
  /\ c.pc \in {"site", "map", "validate", "reload", "loading"} => ~c.apply
  /\ c.pc \in Changed => file[s] = c.site
  /\ c.pc \in {"validate", "reload", "loading"} => map[s] = MapOf(c.site)
  /\ c.pc \in {"cut", "rewrite"} /\ ~c.apply => map[s] = c.oldMap
  /\ c.pc \in {"cut", "rewrite"} /\ "map" \notin troubles => c.apply
  /\ Restores /\ c.pc = "rewrite" => file[s] = NoSite
  /\ Restores /\ c.pc \in Undone => file[s] = c.old /\ map[s] = c.oldMap

(* The files of a service at rest, and those it would be given back, belong*)
(* together and are those of its last good answer.                         *)
KeptOK(s) ==
  IF Resting(s)
    THEN map[s] = MapOf(file[s]) /\ file[s] = answered[s]
    ELSE call[s].oldMap = MapOf(call[s].old) /\ call[s].old = answered[s]

DoneOK(s) == At(s, "done") => file[s] = answered[s]

CallInv ==
  /\ TypeOK
  /\ \A s \in Services : CallOK(s) /\ DoneOK(s)
  /\ Restores => \A s \in Services : KeptOK(s)

(* Two services whose files have a hostname in common: one of them has a   *)
(* change that no validation has accepted.  What a roll-back gives back is *)
(* nobody else's, in a file or in a call.                                  *)
Overlap(x, y) == x.hosts \intersect y.hosts # {}

Calm == troubles \intersect {"restore", "crash", "contested"} = {}

Unsettled(s) == call[s].pc \in {"map", "validate", "cut"}

ApartOK(s, u) ==
  /\ Overlap(file[s], file[u]) => Unsettled(s) \/ Unsettled(u)
  /\ ~Resting(s) => ~Overlap(call[s].old, file[u])
  /\ ~Resting(s) /\ ~Resting(u) =>
       ~Overlap(call[s].old, call[u].site) /\ ~Overlap(call[s].old, call[u].old)

ApartInv == Calm => \A s, u \in Services : s # u => ApartOK(s, u)

(* Every read has a number of its own.  A call waits for the reload that   *)
(* read for it, and for no other.                                          *)
Loading(s) == call[s].pc \in {"loading", "reloading"}

WaitsOK(s) ==
  IF Loading(s) THEN \E r \in reloads : r.at = call[s].at
                ELSE call[s].at = NoRead

NumberInv ==
  /\ newest <= reads
  /\ \A r \in reloads : r.at <= reads /\ r.at # newest
  /\ \A q, r \in reloads : q.at = r.at => q = r
  /\ \A s \in Services : WaitsOK(s)
  /\ \A s, u \in Services :
       s # u /\ Loading(s) /\ Loading(u) => call[s].at # call[u].at

(* What the k-th read and later ones that may still be loaded have seen.   *)
SeenFrom(k, s, site) == \A r \in reloads : r.at >= k => r.seen[s] = site
AllSeenFrom(k) == \A r \in reloads : r.at >= k => r.seen = file

InOrder == "overtaken" \notin troubles

(* A good answer is loaded, unless it was for no route, and no later read  *)
(* can unload it.  That is so because no read since that of the call which *)
(* has brought the answer has missed it.                                   *)
LoadedOK(s) ==
  /\ At(s, "loading") => SeenFrom(call[s].at, s, file[s])
  /\ InOrder /\ At(s, "done") /\ answered[s] # NoSite =>
       loaded[s] = answered[s] /\ SeenFrom(newest, s, answered[s])

LoadedInv == \A s \in Services : LoadedOK(s)

(* Where Caddy and the files differ, or may do so yet, somebody will still *)
(* read the files, or waits for a reload that has.                         *)
Sound ==
  troubles \intersect
    {"restore", "crash", "contested", "map", "again", "overtaken"} = {}

WillRead(s) == call[s].pc \in InFlight \ {"site", "loading", "reloading"}

FilesLoaded == loaded = file /\ AllSeenFrom(newest)

ReadInv ==
  Sound => \/ \E s \in Services : WillRead(s)
           \/ FilesLoaded
           \/ \E s \in Services : Loading(s) /\ AllSeenFrom(call[s].at)

IInv == CallInv /\ ApartInv /\ NumberInv /\ LoadedInv /\ ReadInv

-----------------------------------------------------------------------------
(* Steps *)

(* A step of s leaves the other services as they are.                      *)
Only(s) ==
  /\ \A u \in Services \ {s} :
       /\ file'[u] = file[u] /\ map'[u] = map[u]
       /\ call'[u] = call[u] /\ answered'[u] = answered[u]
  /\ troubles \subseteq troubles'

LEMMA TroubleType ==
  ASSUME TypeOK, NEW kind, NoTrouble \/ Trouble(kind)
  PROVE  /\ troubles' \subseteq FaultKinds \union {"contested", "overtaken"}
         /\ left' \in [calls : Nat, faults : Nat]
         /\ troubles \subseteq troubles'
  BY CaddyAssumption DEF NoTrouble, Trouble, TypeOK

LEMMA SiteTypes ==
  /\ NoSite \in Sites
  /\ \A x \in Sites : MapOf(x) \in Sites
  BY DEF NoSite, Sites, MapOf

(* How a call may go on: to another label, to the roll-back, or to its end.*)
LEMMA GoStep ==
  ASSUME TypeOK, NEW s \in Services, NEW l \in AtRest \union InFlight, Go(s, l)
  PROVE  /\ call' \in [Services -> CallType]
         /\ call'[s].pc = l
         /\ call'[s].site = call[s].site /\ call'[s].old = call[s].old
         /\ call'[s].oldMap = call[s].oldMap /\ call'[s].apply = call[s].apply
         /\ call'[s].at = call[s].at
         /\ \A u \in Services \ {s} : call'[u] = call[u]
  BY DEF TypeOK, Go, CallType

LEMMA RollBackStep ==
  ASSUME TypeOK, NEW s \in Services, RollBack(s)
  PROVE  /\ call' \in [Services -> CallType]
         /\ call'[s].pc = "cut" /\ call'[s].apply /\ call'[s].at = NoRead
         /\ call'[s].site = call[s].site /\ call'[s].old = call[s].old
         /\ call'[s].oldMap = call[s].oldMap
         /\ \A u \in Services \ {s} : call'[u] = call[u]
  BY DEF TypeOK, RollBack, CallType, InFlight, NoRead

LEMMA FailStep ==
  ASSUME TypeOK, NEW s \in Services, Fails(s)
  PROVE  /\ call' \in [Services -> CallType]
         /\ call'[s].pc = "failed" /\ call'[s].at = NoRead
         /\ \A u \in Services \ {s} : call'[u] = call[u]
  BY SiteTypes DEF TypeOK, Fails, Returned, CallType, AtRest, NoRead

LEMMA AnswerStep ==
  ASSUME TypeOK, NEW s \in Services, NEW site \in Sites, Answers(s, site)
  PROVE  /\ call' \in [Services -> CallType]
         /\ answered' \in [Services -> Sites]
         /\ call'[s].pc = "done" /\ call'[s].at = NoRead /\ answered'[s] = site
         /\ \A u \in Services \ {s} : call'[u] = call[u] /\ answered'[u] = answered[u]
  BY SiteTypes DEF TypeOK, Answers, Returned, CallType, AtRest, NoRead

LEMMA CallTypes ==
  ASSUME TypeOK, NEW s \in Services
  PROVE  /\ call[s].site \in Sites /\ call[s].old \in Sites
         /\ call[s].oldMap \in Sites /\ call[s].apply \in BOOLEAN
         /\ call[s].pc \in AtRest \union InFlight /\ call[s].at \in Nat
         /\ file[s] \in Sites /\ map[s] \in Sites
  BY DEF TypeOK, CallType

LEMMA ReadsTypes ==
  ASSUME TypeOK, Reads
  PROVE  /\ reads' \in Nat /\ newest' \in Nat
         /\ reloads' \subseteq ReloadType /\ loaded' \in [Services -> Sites]
<1>1. [at |-> reads + 1, seen |-> file] \in ReloadType
  BY DEF TypeOK, ReloadType
<1> QED BY <1>1 DEF TypeOK, Reads

LEMMA LoadsTypes ==
  ASSUME TypeOK, NEW r \in reloads, Loads(r)
  PROVE  /\ reads' \in Nat /\ newest' \in Nat /\ strays' \in [Services -> Nat]
         /\ reloads' \subseteq ReloadType /\ loaded' \in [Services -> Sites]
         /\ troubles' \subseteq FaultKinds \union {"contested", "overtaken"}
         /\ left' \in [calls : Nat, faults : Nat]
         /\ troubles \subseteq troubles'
<1>1. r.at \in Nat /\ r.seen \in [Services -> Sites]
  BY DEF TypeOK, ReloadType
<1> QED BY <1>1 DEF TypeOK, Loads

LEMMA GivesUpTypes ==
  ASSUME TypeOK, NEW s \in Services, GivesUp(s)
  PROVE  /\ reads' \in Nat /\ newest' \in Nat /\ strays' \in [Services -> Nat]
         /\ reloads' \subseteq ReloadType /\ loaded' \in [Services -> Sites]
  BY DEF TypeOK, GivesUp

LEMMA ReadByStep ==
  ASSUME TypeOK, NEW s \in Services, NEW l \in InFlight, ReadBy(s, l)
  PROVE  /\ call' \in [Services -> CallType]
         /\ call'[s].pc = l /\ call'[s].at = reads + 1
         /\ call'[s].site = call[s].site /\ call'[s].old = call[s].old
         /\ call'[s].oldMap = call[s].oldMap /\ call'[s].apply = call[s].apply
         /\ \A u \in Services \ {s} : call'[u] = call[u]
<1>1. reads + 1 \in Nat
  BY DEF TypeOK
<1> QED BY <1>1 DEF TypeOK, ReadBy, CallType

(* Every step of a service is typed, and leaves the others alone.          *)
LEMMA ServiceStep ==
  ASSUME TypeOK, NEW s \in Services, Begin(s) \/ RemoveAbsent(s) \/ Work(s)
  PROVE  TypeOK' /\ Only(s)
<1> USE CallTypes, SiteTypes
<1>Begin. CASE Begin(s)
  <2>1. PICK site \in Sites :
          /\ call' = [call EXCEPT ![s] =
               [pc |-> "site", site |-> site, old |-> file[s], oldMap |-> map[s],
                apply |-> FALSE, at |-> NoRead]]
          /\ troubles' = IF Contested(s, site) THEN troubles \union {"contested"}
                         ELSE troubles
    BY <1>Begin DEF Begin
  <2>2. call' \in [Services -> CallType] /\ \A u \in Services \ {s} : call'[u] = call[u]
    BY <2>1 DEF TypeOK, CallType, InFlight, NoRead
  <2>3. left' \in [calls : Nat, faults : Nat]
    BY <1>Begin DEF Begin, TypeOK
  <2>4. /\ troubles \subseteq troubles'
        /\ troubles' \subseteq FaultKinds \union {"contested", "overtaken"}
    BY <2>1 DEF TypeOK
  <2> QED BY <1>Begin, <2>2, <2>3, <2>4 DEF Begin, files, reloading, TypeOK, Only
<1>RemoveAbsent. CASE RemoveAbsent(s)
  <2>1. left' \in [calls : Nat, faults : Nat]
    BY <1>RemoveAbsent DEF RemoveAbsent, TypeOK
  <2> QED BY <1>RemoveAbsent, <2>1, AnswerStep DEF RemoveAbsent, files, reloading, TypeOK, Only
<1>ReplaceSite. CASE ReplaceSite(s)
  <2>1. file' \in [Services -> Sites] /\ \A u \in Services \ {s} : file'[u] = file[u]
    BY <1>ReplaceSite DEF ReplaceSite, TypeOK
  <2>2. call' \in [Services -> CallType] /\ \A u \in Services \ {s} : call'[u] = call[u]
    BY <1>ReplaceSite, GoStep, FailStep DEF ReplaceSite, InFlight
  <2> QED BY <1>ReplaceSite, <2>1, <2>2, TroubleType DEF ReplaceSite, reloading, TypeOK, Only
<1>ReplaceMap. CASE ReplaceMap(s)
  <2>1. map' \in [Services -> Sites] /\ \A u \in Services \ {s} : map'[u] = map[u]
    BY <1>ReplaceMap DEF ReplaceMap, TypeOK
  <2>2. call' \in [Services -> CallType] /\ \A u \in Services \ {s} : call'[u] = call[u]
    BY <1>ReplaceMap, GoStep DEF ReplaceMap, InFlight
  <2> QED BY <1>ReplaceMap, <2>1, <2>2, TroubleType DEF ReplaceMap, reloading, TypeOK, Only
<1>Validate. CASE Validate(s)
  <2>1. call' \in [Services -> CallType] /\ \A u \in Services \ {s} : call'[u] = call[u]
    BY <1>Validate, GoStep, RollBackStep DEF Validate, InFlight
  <2> QED BY <1>Validate, <2>1, TroubleType DEF Validate, files, reloading, TypeOK, Only
<1>Reload. CASE Reload(s)
  <2>1. call' \in [Services -> CallType] /\ \A u \in Services \ {s} : call'[u] = call[u]
    BY <1>Reload, ReadByStep, RollBackStep DEF Reload, InFlight
  <2>2. /\ reads' \in Nat /\ newest' \in Nat /\ strays' \in [Services -> Nat]
        /\ reloads' \subseteq ReloadType /\ loaded' \in [Services -> Sites]
    BY <1>Reload, ReadsTypes, GivesUpTypes DEF Reload, ReadBy, reloading, TypeOK
  <2> QED BY <1>Reload, <2>1, <2>2, TroubleType DEF Reload, files, TypeOK, Only
<1>Load. CASE Load(s)
  <2>1. /\ call' \in [Services -> CallType] /\ answered' \in [Services -> Sites]
        /\ \A u \in Services \ {s} : call'[u] = call[u] /\ answered'[u] = answered[u]
    BY <1>Load, AnswerStep, RollBackStep DEF Load, TypeOK
  <2>2. CASE \E r \in reloads : Loads(r)
    BY <1>Load, <2>1, <2>2, LoadsTypes DEF Load, files, TypeOK, Only
  <2>3. CASE Trouble("command") /\ UNCHANGED reloading
    BY <1>Load, <2>1, <2>3, TroubleType DEF Load, files, reloading, TypeOK, Only
  <2> QED BY <1>Load, <2>2, <2>3 DEF Load
<1>CutFile. CASE CutFile(s)
  <2>1. file' \in [Services -> Sites] /\ \A u \in Services \ {s} : file'[u] = file[u]
    BY <1>CutFile DEF CutFile, TypeOK
  <2>2. call' \in [Services -> CallType] /\ \A u \in Services \ {s} : call'[u] = call[u]
    BY <1>CutFile, GoStep DEF CutFile, InFlight
  <2> QED BY <1>CutFile, <2>1, <2>2, TroubleType DEF CutFile, reloading, TypeOK, Only
<1>RewriteFiles. CASE RewriteFiles(s)
  <2>1. /\ file' \in [Services -> Sites] /\ \A u \in Services \ {s} : file'[u] = file[u]
        /\ map' \in [Services -> Sites] /\ \A u \in Services \ {s} : map'[u] = map[u]
    BY <1>RewriteFiles DEF RewriteFiles, TypeOK
  <2>2. call' \in [Services -> CallType] /\ \A u \in Services \ {s} : call'[u] = call[u]
    BY <1>RewriteFiles, GoStep, FailStep DEF RewriteFiles, AfterRestore, InFlight
  <2>3. NoTrouble \/ Trouble("restore")
    BY <1>RewriteFiles DEF RewriteFiles
  <2> QED BY <1>RewriteFiles, <2>1, <2>2, <2>3, TroubleType
          DEF RewriteFiles, reloading, TypeOK, Only
<1>Revalidate. CASE Revalidate(s)
  <2>1. call' \in [Services -> CallType] /\ \A u \in Services \ {s} : call'[u] = call[u]
    BY <1>Revalidate, GoStep, FailStep DEF Revalidate, InFlight
  <2> QED BY <1>Revalidate, <2>1, TroubleType DEF Revalidate, files, reloading, TypeOK, Only
<1>Rereload. CASE Rereload(s)
  <2>1. call' \in [Services -> CallType] /\ \A u \in Services \ {s} : call'[u] = call[u]
    BY <1>Rereload, ReadByStep, FailStep DEF Rereload, InFlight
  <2>2. /\ reads' \in Nat /\ newest' \in Nat /\ strays' \in [Services -> Nat]
        /\ reloads' \subseteq ReloadType /\ loaded' \in [Services -> Sites]
    BY <1>Rereload, ReadsTypes, GivesUpTypes DEF Rereload, ReadBy, reloading, TypeOK
  <2> QED BY <1>Rereload, <2>1, <2>2, TroubleType DEF Rereload, files, TypeOK, Only
<1>LoadAgain. CASE LoadAgain(s)
  <2>1. call' \in [Services -> CallType] /\ \A u \in Services \ {s} : call'[u] = call[u]
    BY <1>LoadAgain, FailStep DEF LoadAgain
  <2>2. CASE \E r \in reloads : Loads(r)
    BY <1>LoadAgain, <2>1, <2>2, LoadsTypes DEF LoadAgain, files, TypeOK, Only
  <2>3. CASE Trouble("again") /\ UNCHANGED reloading
    BY <1>LoadAgain, <2>1, <2>3, TroubleType
       DEF LoadAgain, files, reloading, TypeOK, Only
  <2> QED BY <1>LoadAgain, <2>2, <2>3 DEF LoadAgain
<1> QED BY <1>Begin, <1>RemoveAbsent, <1>ReplaceSite, <1>ReplaceMap, <1>Validate,
           <1>Reload, <1>Load, <1>CutFile, <1>RewriteFiles, <1>Revalidate,
           <1>Rereload, <1>LoadAgain DEF Work

(* A reload that nobody waits for changes only what Caddy runs.            *)
LEMMA StrayStep ==
  ASSUME TypeOK, (\E s \in Services : StrayReads(s)) \/ StrayLoads
  PROVE  /\ TypeOK' /\ troubles \subseteq troubles'
         /\ UNCHANGED <<file, map, call, answered>>
<1>1. CASE \E s \in Services : StrayReads(s)
  <2>1. strays' \in [Services -> Nat]
    BY <1>1 DEF StrayReads, TypeOK
  <2> QED BY <1>1, <2>1, ReadsTypes DEF StrayReads, files, TypeOK
<1>2. CASE StrayLoads
  BY <1>2, LoadsTypes DEF StrayLoads, files, TypeOK
<1> QED BY <1>1, <1>2

LEMMA CrashStep ==
  ASSUME TypeOK, Crash
  PROVE  /\ TypeOK' /\ ~Restores' /\ ~Calm' /\ ~Sound'
         /\ \A u \in Services : IF Resting(u) THEN call'[u] = call[u]
                                ELSE call'[u].pc = "failed" /\ call'[u].at = NoRead
  <1>1. Returned("failed") \in CallType
    BY SiteTypes DEF Returned, CallType, AtRest, NoRead
  <1>2. call' \in [Services -> CallType]
    BY <1>1 DEF Crash, TypeOK
  <1>3. \A u \in Services : IF Resting(u) THEN call'[u] = call[u]
                           ELSE call'[u].pc = "failed" /\ call'[u].at = NoRead
    BY DEF Crash, Returned
  <1>4. "crash" \in troubles'
    BY DEF Crash, Trouble
  <1>5. strays' \in [Services -> Nat]
    BY DEF Crash, TypeOK
  <1> QED BY <1>2, <1>3, <1>4, <1>5, TroubleType DEF Crash, files, TypeOK, Restores, Calm, Sound

-----------------------------------------------------------------------------
(* A step of s keeps the invariant when it does so for s. *)

LEMMA CallInvFrom ==
  ASSUME CallInv, TypeOK', NEW s \in Services, Only(s),
         CallOK(s)', DoneOK(s)', Restores' => KeptOK(s)'
  PROVE  CallInv'
<1>1. ASSUME NEW u \in Services \ {s} PROVE CallOK(u)' /\ DoneOK(u)'
  <2>1. CallOK(u) /\ DoneOK(u)
    BY DEF CallInv
  <2>2. CallOK(u)'
    BY <2>1 DEF Only, CallOK, Restores
  <2>3. DoneOK(u)'
    BY <2>1 DEF Only, DoneOK, At
  <2> QED BY <2>2, <2>3
<1>2. ASSUME Restores', NEW u \in Services \ {s} PROVE KeptOK(u)'
  <2>1. KeptOK(u)
    BY <1>2 DEF CallInv, Only, Restores
  <2> QED BY <2>1 DEF Only, KeptOK, Resting
<1> QED BY <1>1, <1>2 DEF CallInv

LEMMA CallInvService ==
  ASSUME CallInv, TypeOK', NEW s \in Services, Only(s),
         Begin(s) \/ RemoveAbsent(s) \/ Work(s)
  PROVE  CallInv'
<1> TypeOK /\ CallOK(s) /\ DoneOK(s) /\ (Restores => KeptOK(s))
  BY DEF CallInv
<1> Restores' => Restores
  BY DEF Only, Restores
<1> USE CallTypes, SiteTypes DEF At, AtRest, InFlight, Changed, Undone, Resting
<1>Begin. CASE Begin(s)
  <2>1. call'[s].pc = "site" /\ call'[s].old = file[s] /\ call'[s].oldMap = map[s]
        /\ ~call'[s].apply
    BY <1>Begin DEF Begin, TypeOK
  <2>2. file' = file /\ map' = map /\ answered' = answered
    BY <1>Begin DEF Begin, files
  <2>3. CallOK(s)' /\ DoneOK(s)'
    BY <2>1, <2>2 DEF CallOK, DoneOK
  <2>4. Restores' => KeptOK(s)'
    BY <1>Begin, <2>1, <2>2 DEF Begin, KeptOK
  <2> QED BY <2>3, <2>4, CallInvFrom
<1>RemoveAbsent. CASE RemoveAbsent(s)
  <2>1. call'[s].pc = "done" /\ answered'[s] = NoSite
        /\ file'[s] = NoSite /\ map'[s] = NoSite
    BY <1>RemoveAbsent, AnswerStep DEF RemoveAbsent, files
  <2>2. CallOK(s)' /\ DoneOK(s)'
    BY <2>1 DEF CallOK, DoneOK
  <2>3. KeptOK(s)'
    BY <2>1 DEF KeptOK, MapOf, NoSite
  <2> QED BY <2>2, <2>3, CallInvFrom
<1>ReplaceSite. CASE ReplaceSite(s)
  <2>1. map' = map /\ answered' = answered
    BY <1>ReplaceSite DEF ReplaceSite
  <2>2. CASE file' = [file EXCEPT ![s] = call[s].site] /\ Go(s, "map")
    <3>1. call'[s].pc = "map" /\ file'[s] = call'[s].site
          /\ call'[s].old = call[s].old /\ call'[s].oldMap = call[s].oldMap
          /\ call'[s].apply = call[s].apply
      BY <2>2, GoStep DEF TypeOK
    <3>2. CallOK(s)' /\ DoneOK(s)' /\ (Restores' => KeptOK(s)')
      BY <1>ReplaceSite, <2>1, <3>1 DEF ReplaceSite, CallOK, DoneOK, KeptOK
    <3> QED BY <3>2, CallInvFrom
  <2>3. CASE Fails(s) /\ file' = file
    <3>1. call'[s].pc = "failed"
      BY <2>3, FailStep
    <3>2. CallOK(s)' /\ DoneOK(s)' /\ (Restores' => KeptOK(s)')
      BY <1>ReplaceSite, <2>1, <2>3, <3>1 DEF ReplaceSite, CallOK, DoneOK, KeptOK
    <3> QED BY <3>2, CallInvFrom
  <2> QED BY <1>ReplaceSite, <2>2, <2>3 DEF ReplaceSite
<1>ReplaceMap. CASE ReplaceMap(s)
  <2>1. file' = file /\ answered' = answered
    BY <1>ReplaceMap DEF ReplaceMap
  <2>2. \E l \in {"validate", "cut"} : Go(s, l)
    BY <1>ReplaceMap DEF ReplaceMap
  <2>3. call'[s].pc \in {"validate", "cut"} /\ call'[s].site = call[s].site
        /\ call'[s].old = call[s].old /\ call'[s].oldMap = call[s].oldMap
        /\ call'[s].apply = call[s].apply
    BY <2>2, GoStep
  <2>4. /\ call'[s].pc = "validate" => map'[s] = MapOf(call'[s].site)
        /\ call'[s].pc = "cut" => map'[s] = map[s] /\ "map" \in troubles'
    BY <1>ReplaceMap, GoStep DEF ReplaceMap, Trouble, TypeOK
  <2>5. CallOK(s)' /\ DoneOK(s)' /\ (Restores' => KeptOK(s)')
    BY <1>ReplaceMap, <2>1, <2>3, <2>4 DEF ReplaceMap, CallOK, DoneOK, KeptOK
  <2> QED BY <2>5, CallInvFrom
<1>Validate. CASE Validate(s)
  <2>1. file' = file /\ map' = map /\ answered' = answered
    BY <1>Validate DEF Validate, files
  <2>2. /\ \/ call'[s].pc = "reload" /\ call'[s].apply = call[s].apply
           \/ call'[s].pc = "cut" /\ call'[s].apply
        /\ call'[s].site = call[s].site
        /\ call'[s].old = call[s].old /\ call'[s].oldMap = call[s].oldMap
    BY <1>Validate, GoStep, RollBackStep DEF Validate
  <2>3. CallOK(s)' /\ DoneOK(s)' /\ (Restores' => KeptOK(s)')
    BY <1>Validate, <2>1, <2>2 DEF Validate, CallOK, DoneOK, KeptOK
  <2> QED BY <2>3, CallInvFrom
<1>Reload. CASE Reload(s)
  <2>1. file' = file /\ map' = map /\ answered' = answered
    BY <1>Reload DEF Reload, files
  <2>2. /\ \/ call'[s].pc = "loading" /\ call'[s].apply = call[s].apply
           \/ call'[s].pc = "cut" /\ call'[s].apply
        /\ call'[s].site = call[s].site
        /\ call'[s].old = call[s].old /\ call'[s].oldMap = call[s].oldMap
    BY <1>Reload, ReadByStep, RollBackStep DEF Reload
  <2>3. CallOK(s)' /\ DoneOK(s)' /\ (Restores' => KeptOK(s)')
    BY <1>Reload, <2>1, <2>2 DEF Reload, CallOK, DoneOK, KeptOK
  <2> QED BY <2>3, CallInvFrom
<1>Load. CASE Load(s)
  <2>1. file' = file /\ map' = map
    BY <1>Load DEF Load, files
  <2>2. CASE Answers(s, call[s].site)
    <3>1. call'[s].pc = "done" /\ answered'[s] = call[s].site
      BY <2>2, AnswerStep
    <3>2. file[s] = call[s].site /\ map[s] = MapOf(call[s].site)
      BY <1>Load DEF Load, CallOK
    <3>3. CallOK(s)' /\ DoneOK(s)' /\ KeptOK(s)'
      BY <2>1, <3>1, <3>2 DEF CallOK, DoneOK, KeptOK
    <3> QED BY <3>3, CallInvFrom
  <2>3. CASE RollBack(s) /\ answered' = answered
    <3>1. /\ call'[s].pc = "cut" /\ call'[s].apply /\ call'[s].site = call[s].site
          /\ call'[s].old = call[s].old /\ call'[s].oldMap = call[s].oldMap
      BY <2>3, RollBackStep
    <3>2. CallOK(s)' /\ DoneOK(s)' /\ (Restores' => KeptOK(s)')
      BY <1>Load, <2>1, <2>3, <3>1 DEF Load, CallOK, DoneOK, KeptOK
    <3> QED BY <3>2, CallInvFrom
  <2> QED BY <1>Load, <2>2, <2>3 DEF Load
<1>CutFile. CASE CutFile(s)
  <2>1. map' = map /\ answered' = answered
    BY <1>CutFile DEF CutFile
  <2>2. call'[s].pc = "rewrite" /\ call'[s].apply = call[s].apply
        /\ call'[s].old = call[s].old /\ call'[s].oldMap = call[s].oldMap
    BY <1>CutFile, GoStep DEF CutFile
  <2>3. Restores' => file'[s] = NoSite
    BY <1>CutFile DEF CutFile, Trouble, Restores, TypeOK
  <2>4. "map" \notin troubles' => "map" \notin troubles
    BY DEF Only
  <2>5. CallOK(s)' /\ DoneOK(s)' /\ (Restores' => KeptOK(s)')
    BY <1>CutFile, <2>1, <2>2, <2>3, <2>4 DEF CutFile, CallOK, DoneOK, KeptOK
  <2> QED BY <2>5, CallInvFrom
<1>RewriteFiles. CASE RewriteFiles(s)
  <2>1. answered' = answered
    BY <1>RewriteFiles DEF RewriteFiles
  <2>2. \/ /\ call'[s].pc = "revalidate"
           /\ call'[s].old = call[s].old /\ call'[s].oldMap = call[s].oldMap
        \/ call'[s].pc = "failed"
    BY <1>RewriteFiles, GoStep, FailStep DEF RewriteFiles, AfterRestore
  <2>3. Restores' => file'[s] = call[s].old
                     /\ map'[s] = IF call[s].apply THEN call[s].oldMap ELSE map[s]
    BY <1>RewriteFiles DEF RewriteFiles, Trouble, Restores, TypeOK
  <2>4. Restores' => file'[s] = call[s].old /\ map'[s] = call[s].oldMap
    BY <1>RewriteFiles, <2>3 DEF RewriteFiles, CallOK
  <2>5. CallOK(s)' /\ DoneOK(s)' /\ (Restores' => KeptOK(s)')
    BY <1>RewriteFiles, <2>1, <2>2, <2>4 DEF RewriteFiles, CallOK, DoneOK, KeptOK
  <2> QED BY <2>5, CallInvFrom
<1>Revalidate. CASE Revalidate(s)
  <2>1. file' = file /\ map' = map /\ answered' = answered
    BY <1>Revalidate DEF Revalidate, files
  <2>2. \/ /\ call'[s].pc = "rereload"
           /\ call'[s].old = call[s].old /\ call'[s].oldMap = call[s].oldMap
        \/ call'[s].pc = "failed"
    BY <1>Revalidate, GoStep, FailStep DEF Revalidate
  <2>3. CallOK(s)' /\ DoneOK(s)' /\ (Restores' => KeptOK(s)')
    BY <1>Revalidate, <2>1, <2>2 DEF Revalidate, CallOK, DoneOK, KeptOK
  <2> QED BY <2>3, CallInvFrom
<1>Rereload. CASE Rereload(s)
  <2>1. file' = file /\ map' = map /\ answered' = answered
    BY <1>Rereload DEF Rereload, files
  <2>2. \/ /\ call'[s].pc = "reloading"
           /\ call'[s].old = call[s].old /\ call'[s].oldMap = call[s].oldMap
        \/ call'[s].pc = "failed"
    BY <1>Rereload, ReadByStep, FailStep DEF Rereload
  <2>3. CallOK(s)' /\ DoneOK(s)' /\ (Restores' => KeptOK(s)')
    BY <1>Rereload, <2>1, <2>2 DEF Rereload, CallOK, DoneOK, KeptOK
  <2> QED BY <2>3, CallInvFrom
<1>LoadAgain. CASE LoadAgain(s)
  <2>1. file' = file /\ map' = map /\ answered' = answered
    BY <1>LoadAgain DEF LoadAgain, files
  <2>2. call'[s].pc = "failed"
    BY <1>LoadAgain, FailStep DEF LoadAgain
  <2>3. CallOK(s)' /\ DoneOK(s)' /\ (Restores' => KeptOK(s)')
    BY <1>LoadAgain, <2>1, <2>2 DEF LoadAgain, CallOK, DoneOK, KeptOK
  <2> QED BY <2>3, CallInvFrom
<1> QED BY <1>Begin, <1>RemoveAbsent, <1>ReplaceSite, <1>ReplaceMap, <1>Validate,
           <1>Reload, <1>Load, <1>CutFile, <1>RewriteFiles, <1>Revalidate,
           <1>Rereload, <1>LoadAgain DEF Work

LEMMA CallInvCrash ==
  ASSUME CallInv, Crash
  PROVE  CallInv'
<1>1. TypeOK' /\ ~Restores'
  BY CrashStep DEF CallInv
<1>2. file' = file /\ map' = map /\ answered' = answered
  BY DEF Crash, files
<1>3. ASSUME NEW u \in Services PROVE CallOK(u)' /\ DoneOK(u)'
  <2>1. (call'[u] = call[u] /\ Resting(u)) \/ call'[u].pc = "failed"
    BY CrashStep DEF CallInv
  <2>2. DoneOK(u)
    BY DEF CallInv
  <2> QED BY <1>1, <1>2, <2>1, <2>2
          DEF CallOK, DoneOK, At, Resting, AtRest, Changed, Undone
<1> QED BY <1>1, <1>3 DEF CallInv

LEMMA CallInvStray ==
  ASSUME CallInv, TypeOK', troubles \subseteq troubles',
         UNCHANGED <<file, map, call, answered>>
  PROVE  CallInv'
<1>1. ASSUME NEW s \in Services PROVE CallOK(s)' /\ DoneOK(s)'
  <2>1. CallOK(s) /\ DoneOK(s) /\ call'[s] = call[s]
    BY DEF CallInv
  <2> QED BY <2>1 DEF CallOK, DoneOK, At, Restores
<1>2. ASSUME Restores', NEW s \in Services PROVE KeptOK(s)'
  BY <1>2 DEF CallInv, KeptOK, Restores, Resting
<1> QED BY <1>1, <1>2 DEF CallInv

-----------------------------------------------------------------------------
(* Files with a hostname in common *)

LEMMA OverlapSymmetric ==
  /\ \A x, y : Overlap(x, y) <=> Overlap(y, x)
  /\ \A x : ~Overlap(x, NoSite) /\ ~Overlap(NoSite, x)
  BY DEF Overlap, NoSite

LEMMA ApartFrom ==
  ASSUME ApartInv, NEW s \in Services, Only(s),
         Calm' => \A u \in Services \ {s} : ApartOK(s, u)' /\ ApartOK(u, s)'
  PROVE  ApartInv'
<1>1. ASSUME Calm', NEW t \in Services \ {s}, NEW u \in Services \ {s}, t # u
      PROVE  ApartOK(t, u)'
  <2>1. ApartOK(t, u)
    BY <1>1 DEF ApartInv, Only, Calm
  <2> QED BY <2>1 DEF Only, ApartOK, Resting, Unsettled
<1> QED BY <1>1 DEF ApartInv

(* A step that changes neither the file of s nor what its call has to do   *)
(* with hostnames.                                                         *)
LEMMA ApartSame ==
  ASSUME ApartInv, NEW s \in Services, Only(s), file' = file,
         Unsettled(s) => Unsettled(s)' \/ Valid(file),
         ~Resting(s)' => /\ ~Resting(s)
                         /\ call'[s].old = call[s].old /\ call'[s].site = call[s].site
  PROVE  ApartInv'
<1>1. ASSUME Calm', NEW u \in Services \ {s} PROVE ApartOK(s, u)' /\ ApartOK(u, s)'
  <2>1. ApartOK(s, u) /\ ApartOK(u, s)
    BY <1>1 DEF ApartInv, Only, Calm
  <2>2. Valid(file) => ~Overlap(file[s], file[u]) /\ ~Overlap(file[u], file[s])
    BY DEF Valid, Overlap
  <2>3. call'[u] = call[u]
    BY DEF Only
  <2> QED BY <2>1, <2>2, <2>3 DEF ApartOK, Resting, Unsettled
<1> QED BY <1>1, ApartFrom

LEMMA ApartService ==
  ASSUME CallInv, ApartInv, NEW s \in Services, Only(s),
         Begin(s) \/ RemoveAbsent(s) \/ Work(s)
  PROVE  ApartInv'
<1> TypeOK /\ CallOK(s)
  BY DEF CallInv
<1> USE CallTypes, SiteTypes DEF At, AtRest, InFlight, Unsettled, Resting
<1>1. ASSUME Calm', NEW u \in Services \ {s}
      PROVE  /\ Calm /\ Restores /\ ApartOK(s, u) /\ ApartOK(u, s)
             /\ file'[u] = file[u] /\ call'[u] = call[u]
  BY <1>1 DEF ApartInv, Only, Calm, Restores
<1>Begin. CASE Begin(s)
  <2>1. PICK site \in Sites :
          /\ call' = [call EXCEPT ![s] =
               [pc |-> "site", site |-> site, old |-> file[s], oldMap |-> map[s],
                apply |-> FALSE, at |-> NoRead]]
          /\ troubles' = IF Contested(s, site) THEN troubles \union {"contested"}
                         ELSE troubles
    BY <1>Begin DEF Begin
  <2>2. call'[s].pc = "site" /\ call'[s].site = site /\ call'[s].old = file[s]
    BY <2>1 DEF TypeOK
  <2>3. ASSUME Calm', NEW u \in Services \ {s}
        PROVE  ApartOK(s, u)' /\ ApartOK(u, s)'
    <3>1. ~Contested(s, site)
      BY <2>1, <2>3 DEF Calm
    <3>2. ~Resting(u) => ~Overlap(site, call[u].old) /\ ~Overlap(file[s], call[u].site)
      BY <3>1 DEF Contested, Overlap
    <3>3. Unsettled(u) => file[u] = call[u].site /\ ~Resting(u)
      BY DEF CallInv, CallOK, Changed
    <3>4. ~Overlap(file[s], file[u])
      BY <1>Begin, <1>1, <2>3, <3>2, <3>3 DEF Begin, ApartOK
    <3>5. file' = file
      BY <1>Begin DEF Begin, files
    <3>6. ApartOK(s, u)'
      BY <1>1, <2>2, <2>3, <3>2, <3>4, <3>5, OverlapSymmetric DEF ApartOK
    <3>7. ApartOK(u, s)'
      BY <1>1, <2>2, <2>3, <3>2, <3>4, <3>5, OverlapSymmetric DEF ApartOK
    <3> QED BY <3>6, <3>7
  <2> QED BY <2>3, ApartFrom
<1>RemoveAbsent. CASE RemoveAbsent(s)
  <2>1. call'[s].pc = "done"
    BY <1>RemoveAbsent, AnswerStep DEF RemoveAbsent
  <2> QED BY <1>RemoveAbsent, <2>1, ApartSame DEF RemoveAbsent, files
<1>ReplaceSite. CASE ReplaceSite(s)
  <2>1. CASE file' = [file EXCEPT ![s] = call[s].site] /\ Go(s, "map")
    <3>1. call'[s].pc = "map" /\ file'[s] = call[s].site
          /\ call'[s].old = call[s].old /\ call'[s].site = call[s].site
      BY <2>1, GoStep DEF TypeOK
    <3>2. ASSUME Calm', NEW u \in Services \ {s} PROVE ApartOK(s, u)' /\ ApartOK(u, s)'
      BY <1>ReplaceSite, <1>1, <3>1, <3>2 DEF ReplaceSite, ApartOK
    <3> QED BY <3>2, ApartFrom
  <2>2. CASE Fails(s) /\ file' = file
    <3>1. call'[s].pc = "failed"
      BY <2>2, FailStep
    <3> QED BY <1>ReplaceSite, <2>2, <3>1, ApartSame DEF ReplaceSite
  <2> QED BY <1>ReplaceSite, <2>1, <2>2 DEF ReplaceSite
<1>ReplaceMap. CASE ReplaceMap(s)
  <2>1. call'[s].pc \in {"validate", "cut"}
        /\ call'[s].old = call[s].old /\ call'[s].site = call[s].site
    BY <1>ReplaceMap, GoStep DEF ReplaceMap
  <2> QED BY <1>ReplaceMap, <2>1, ApartSame DEF ReplaceMap
<1>Validate. CASE Validate(s)
  <2>1. /\ \/ call'[s].pc = "cut"
           \/ call'[s].pc = "reload" /\ Valid(file)
        /\ call'[s].old = call[s].old /\ call'[s].site = call[s].site
    BY <1>Validate, GoStep, RollBackStep DEF Validate
  <2> QED BY <1>Validate, <2>1, ApartSame DEF Validate, files
<1>Reload. CASE Reload(s)
  <2>1. /\ call'[s].pc \in {"loading", "cut"}
        /\ call'[s].old = call[s].old /\ call'[s].site = call[s].site
    BY <1>Reload, ReadByStep, RollBackStep DEF Reload
  <2> QED BY <1>Reload, <2>1, ApartSame DEF Reload, files
<1>Load. CASE Load(s)
  <2>1. \/ call'[s].pc = "done"
        \/ call'[s].pc = "cut"
           /\ call'[s].old = call[s].old /\ call'[s].site = call[s].site
    BY <1>Load, AnswerStep, RollBackStep DEF Load
  <2> QED BY <1>Load, <2>1, ApartSame DEF Load, files
<1>CutFile. CASE CutFile(s)
  <2>1. call'[s].pc = "rewrite"
        /\ call'[s].old = call[s].old /\ call'[s].site = call[s].site
    BY <1>CutFile, GoStep DEF CutFile
  <2>2. Restores' => file'[s] = NoSite
    BY <1>CutFile DEF CutFile, Trouble, Restores, TypeOK
  <2>3. ASSUME Calm', NEW u \in Services \ {s} PROVE ApartOK(s, u)' /\ ApartOK(u, s)'
    <3>1. file'[s] = NoSite
      BY <2>2, <2>3 DEF Calm, Restores
    <3> QED BY <1>CutFile, <1>1, <2>1, <2>3, <3>1, OverlapSymmetric DEF CutFile, ApartOK
  <2> QED BY <2>3, ApartFrom
<1>RewriteFiles. CASE RewriteFiles(s)
  <2>1. \/ /\ call'[s].pc = "revalidate"
           /\ call'[s].old = call[s].old /\ call'[s].site = call[s].site
        \/ call'[s].pc = "failed"
    BY <1>RewriteFiles, GoStep, FailStep DEF RewriteFiles, AfterRestore
  <2>2. Restores' => file'[s] = call[s].old
    BY <1>RewriteFiles DEF RewriteFiles, Trouble, Restores, TypeOK
  <2>3. ASSUME Calm', NEW u \in Services \ {s} PROVE ApartOK(s, u)' /\ ApartOK(u, s)'
    <3>1. file'[s] = call[s].old
      BY <2>2, <2>3 DEF Calm, Restores
    <3> QED BY <1>RewriteFiles, <1>1, <2>1, <2>3, <3>1, OverlapSymmetric
            DEF RewriteFiles, ApartOK
  <2> QED BY <2>3, ApartFrom
<1>Revalidate. CASE Revalidate(s)
  <2>1. \/ /\ call'[s].pc = "rereload"
           /\ call'[s].old = call[s].old /\ call'[s].site = call[s].site
        \/ call'[s].pc = "failed"
    BY <1>Revalidate, GoStep, FailStep DEF Revalidate
  <2> QED BY <1>Revalidate, <2>1, ApartSame DEF Revalidate, files
<1>Rereload. CASE Rereload(s)
  <2>1. \/ /\ call'[s].pc = "reloading"
           /\ call'[s].old = call[s].old /\ call'[s].site = call[s].site
        \/ call'[s].pc = "failed"
    BY <1>Rereload, ReadByStep, FailStep DEF Rereload
  <2> QED BY <1>Rereload, <2>1, ApartSame DEF Rereload, files
<1>LoadAgain. CASE LoadAgain(s)
  <2>1. call'[s].pc = "failed"
    BY <1>LoadAgain, FailStep DEF LoadAgain
  <2> QED BY <1>LoadAgain, <2>1, ApartSame DEF LoadAgain, files
<1> QED BY <1>Begin, <1>RemoveAbsent, <1>ReplaceSite, <1>ReplaceMap, <1>Validate,
           <1>Reload, <1>Load, <1>CutFile, <1>RewriteFiles, <1>Revalidate,
           <1>Rereload, <1>LoadAgain DEF Work

LEMMA ApartCrash ==
  ASSUME TypeOK, Crash
  PROVE  ApartInv'
  BY CrashStep DEF ApartInv

LEMMA ApartStray ==
  ASSUME ApartInv, troubles \subseteq troubles', UNCHANGED <<file, call>>
  PROVE  ApartInv'
  BY DEF ApartInv, ApartOK, Calm, Resting, Unsettled

-----------------------------------------------------------------------------
(* What a step of s does about reloads: nothing, a read, or the load that  *)
(* its call waits for. *)

Idles(s) ==
  /\ UNCHANGED <<loaded, reloads, reads, newest>>
  /\ ~Loading(s)' /\ call'[s].at = NoRead
  /\ call'[s].pc = "done" => answered'[s] = NoSite

Fetches(s) ==
  /\ Reads /\ file' = file /\ answered' = answered
  /\ Loading(s)' /\ call'[s].at = reads + 1

Finishes(s, r) ==
  /\ Loads(r) /\ file' = file
  /\ Loading(s) /\ r.at = call[s].at
  /\ ~Loading(s)' /\ call'[s].at = NoRead
  /\ call'[s].pc = "done" => At(s, "loading") /\ answered'[s] = file[s]

LEMMA ReloadKinds ==
  ASSUME CallInv, NumberInv, NEW s \in Services,
         Begin(s) \/ RemoveAbsent(s) \/ Work(s)
  PROVE  Idles(s) \/ Fetches(s) \/ \E r \in reloads : Finishes(s, r)
<1> TypeOK /\ CallOK(s) /\ WaitsOK(s)
  BY DEF CallInv, NumberInv
<1> USE CallTypes, SiteTypes DEF At, AtRest, InFlight, Loading
<1>Begin. CASE Begin(s)
  <2>1. call'[s].pc = "site" /\ call'[s].at = NoRead
    BY <1>Begin DEF Begin, TypeOK
  <2> QED BY <1>Begin, <2>1 DEF Begin, reloading, Idles
<1>RemoveAbsent. CASE RemoveAbsent(s)
  <2>1. call'[s].pc = "done" /\ call'[s].at = NoRead /\ answered'[s] = NoSite
    BY <1>RemoveAbsent, AnswerStep DEF RemoveAbsent
  <2> QED BY <1>RemoveAbsent, <2>1 DEF RemoveAbsent, reloading, Idles
<1>ReplaceSite. CASE ReplaceSite(s)
  <2>1. call'[s].pc \in {"map", "failed"} /\ call'[s].at = NoRead
    BY <1>ReplaceSite, GoStep, FailStep DEF ReplaceSite, WaitsOK
  <2> QED BY <1>ReplaceSite, <2>1 DEF ReplaceSite, reloading, Idles
<1>ReplaceMap. CASE ReplaceMap(s)
  <2>1. call'[s].pc \in {"validate", "cut"} /\ call'[s].at = NoRead
    BY <1>ReplaceMap, GoStep DEF ReplaceMap, WaitsOK
  <2> QED BY <1>ReplaceMap, <2>1 DEF ReplaceMap, reloading, Idles
<1>Validate. CASE Validate(s)
  <2>1. call'[s].pc \in {"reload", "cut"} /\ call'[s].at = NoRead
    BY <1>Validate, GoStep, RollBackStep DEF Validate, WaitsOK
  <2> QED BY <1>Validate, <2>1 DEF Validate, reloading, Idles
<1>Reload. CASE Reload(s)
  <2>1. CASE ReadBy(s, "loading")
    <3>1. call'[s].pc = "loading" /\ call'[s].at = reads + 1
      BY <2>1, ReadByStep
    <3> QED BY <1>Reload, <2>1, <3>1 DEF Reload, ReadBy, files, Fetches
  <2>2. CASE RollBack(s) /\ (UNCHANGED reloading \/ GivesUp(s))
    <3>1. call'[s].pc = "cut" /\ call'[s].at = NoRead
      BY <2>2, RollBackStep
    <3> QED BY <2>2, <3>1 DEF reloading, GivesUp, Idles
  <2> QED BY <1>Reload, <2>1, <2>2 DEF Reload
<1>Load. CASE Load(s)
  <2>1. CASE RollBack(s) /\ UNCHANGED reloading
    <3>1. call'[s].pc = "cut" /\ call'[s].at = NoRead
      BY <2>1, RollBackStep
    <3> QED BY <2>1, <3>1 DEF reloading, Idles
  <2>2. ASSUME NEW r \in reloads, r.at = call[s].at, Loads(r), Answers(s, call[s].site)
        PROVE  Finishes(s, r)
    <3>1. /\ call'[s].pc = "done" /\ call'[s].at = NoRead
          /\ answered'[s] = call[s].site
      BY <2>2, AnswerStep
    <3>2. file' = file /\ file[s] = call[s].site
      BY <1>Load DEF Load, files, CallOK, Changed
    <3> QED BY <1>Load, <2>2, <3>1, <3>2 DEF Load, Finishes
  <2> QED BY <1>Load, <2>1, <2>2 DEF Load
<1>CutFile. CASE CutFile(s)
  <2>1. call'[s].pc = "rewrite" /\ call'[s].at = NoRead
    BY <1>CutFile, GoStep DEF CutFile, WaitsOK
  <2> QED BY <1>CutFile, <2>1 DEF CutFile, reloading, Idles
<1>RewriteFiles. CASE RewriteFiles(s)
  <2>1. call'[s].pc \in {"revalidate", "failed"} /\ call'[s].at = NoRead
    BY <1>RewriteFiles, GoStep, FailStep DEF RewriteFiles, AfterRestore, WaitsOK
  <2> QED BY <1>RewriteFiles, <2>1 DEF RewriteFiles, reloading, Idles
<1>Revalidate. CASE Revalidate(s)
  <2>1. call'[s].pc \in {"rereload", "failed"} /\ call'[s].at = NoRead
    BY <1>Revalidate, GoStep, FailStep DEF Revalidate, WaitsOK
  <2> QED BY <1>Revalidate, <2>1 DEF Revalidate, reloading, Idles
<1>Rereload. CASE Rereload(s)
  <2>1. CASE ReadBy(s, "reloading")
    <3>1. call'[s].pc = "reloading" /\ call'[s].at = reads + 1
      BY <2>1, ReadByStep
    <3> QED BY <1>Rereload, <2>1, <3>1 DEF Rereload, ReadBy, files, Fetches
  <2>2. CASE Fails(s) /\ (UNCHANGED reloading \/ GivesUp(s))
    <3>1. call'[s].pc = "failed" /\ call'[s].at = NoRead
      BY <2>2, FailStep
    <3> QED BY <2>2, <3>1 DEF reloading, GivesUp, Idles
  <2> QED BY <1>Rereload, <2>1, <2>2 DEF Rereload
<1>LoadAgain. CASE LoadAgain(s)
  <2>1. call'[s].pc = "failed" /\ call'[s].at = NoRead
    BY <1>LoadAgain, FailStep DEF LoadAgain
  <2>2. CASE UNCHANGED reloading
    BY <2>1, <2>2 DEF reloading, Idles
  <2>3. ASSUME NEW r \in reloads, r.at = call[s].at, Loads(r)
        PROVE  Finishes(s, r)
    BY <1>LoadAgain, <2>1, <2>3 DEF LoadAgain, files, Finishes
  <2> QED BY <1>LoadAgain, <2>2, <2>3 DEF LoadAgain
<1> QED BY <1>Begin, <1>RemoveAbsent, <1>ReplaceSite, <1>ReplaceMap, <1>Validate,
           <1>Reload, <1>Load, <1>CutFile, <1>RewriteFiles, <1>Revalidate,
           <1>Rereload, <1>LoadAgain DEF Work

-----------------------------------------------------------------------------
(* The numbers of the reads *)

LEMMA NumberTypes ==
  ASSUME TypeOK
  PROVE  /\ reads \in Nat /\ newest \in Nat
         /\ \A r \in reloads : r.at \in Nat /\ r.at > 0 /\ r.seen \in [Services -> Sites]
         /\ \A s \in Services : call[s].at \in Nat
  BY DEF TypeOK, ReloadType, CallType

(* A read gets the next number, whoever it is for.                         *)
LEMMA NumberRead ==
  ASSUME TypeOK, NumberInv, Reads
  PROVE  /\ newest' <= reads'
         /\ \A r \in reloads' : r.at <= reads' /\ r.at # newest'
         /\ \A q, r \in reloads' : q.at = r.at => q = r
         /\ \A r \in reloads : r \in reloads'
         /\ \E r \in reloads' : r.at = reads + 1
<1> USE NumberTypes
<1>1. \A r \in reloads' : r \in reloads \/ (r.at = reads + 1 /\ r.seen = file)
  BY DEF Reads
<1>2. \A r \in reloads' : r \notin reloads => r = [at |-> reads + 1, seen |-> file]
  BY DEF Reads
<1>3. reads' = reads + 1 /\ newest' = newest
  BY DEF Reads
<1>4. \A r \in reloads : r.at # reads + 1
  BY DEF NumberInv
<1>5. \A q, r \in reloads' : q.at = r.at => q = r
  BY <1>1, <1>2, <1>4 DEF NumberInv
<1>6. [at |-> reads + 1, seen |-> file] \in reloads'
  BY DEF Reads
<1>7. \A r \in reloads' : r.at <= reads' /\ r.at # newest'
  BY <1>1, <1>3 DEF NumberInv
<1>8. \A r \in reloads : r \in reloads'
  BY DEF Reads
<1> QED BY <1>3, <1>5, <1>6, <1>7, <1>8 DEF NumberInv

LEMMA NumberLoad ==
  ASSUME TypeOK, NumberInv, NEW r \in reloads, Loads(r)
  PROVE  /\ newest' <= reads'
         /\ \A q \in reloads' : q \in reloads /\ q # r /\ q.at <= reads' /\ q.at # newest'
         /\ \A p, q \in reloads' : p.at = q.at => p = q
         /\ \A q \in reloads : q.at # r.at => q \in reloads'
         /\ newest' >= newest /\ reads' = reads
         /\ InOrder' => InOrder /\ newest' = r.at /\ r.at > newest
<1> USE NumberTypes
<1>1. \A q \in reloads' : q \in reloads /\ q # r
  BY DEF Loads
<1>2. reads' = reads /\ newest' \in {newest, r.at} /\ newest' >= newest
  BY DEF Loads
<1>3. \A q \in reloads' : q.at # r.at
  BY <1>1 DEF NumberInv
<1>4. \A q \in reloads : q.at # r.at => q \in reloads'
  BY DEF Loads
<1>5. InOrder' => InOrder /\ newest' = r.at /\ r.at > newest
  BY DEF Loads, InOrder, NumberInv
<1> QED BY <1>1, <1>2, <1>3, <1>4, <1>5 DEF NumberInv

LEMMA NumberService ==
  ASSUME TypeOK, NumberInv, NEW s \in Services, Only(s),
         Idles(s) \/ Fetches(s) \/ \E r \in reloads : Finishes(s, r)
  PROVE  NumberInv'
<1> USE NumberTypes
<1>1. \A u \in Services \ {s} : call'[u] = call[u] /\ (Loading(u)' <=> Loading(u))
  BY DEF Only, Loading
<1>2. CASE Idles(s)
  <2>1. \A u \in Services : WaitsOK(u)'
    BY <1>1, <1>2 DEF Idles, NumberInv, WaitsOK
  <2> QED BY <1>1, <1>2, <2>1 DEF Idles, NumberInv
<1>3. CASE Fetches(s)
  <2>1. Reads /\ Loading(s)' /\ call'[s].at = reads + 1
    BY <1>3 DEF Fetches
  <2>2. WaitsOK(s)'
    BY <2>1, NumberRead DEF WaitsOK
  <2>3. ASSUME NEW u \in Services \ {s} PROVE WaitsOK(u)'
    BY <1>1, <2>1, <2>3, NumberRead DEF NumberInv, WaitsOK
  <2>4. ASSUME NEW u \in Services \ {s}, Loading(u) PROVE call'[u].at # reads + 1
    BY <1>1, <2>4 DEF NumberInv, WaitsOK
  <2> QED BY <1>1, <2>1, <2>2, <2>3, <2>4, NumberRead DEF NumberInv
<1>4. ASSUME NEW r \in reloads, Finishes(s, r) PROVE NumberInv'
  <2>1. /\ Loads(r) /\ Loading(s) /\ r.at = call[s].at
        /\ ~Loading(s)' /\ call'[s].at = NoRead
    BY <1>4 DEF Finishes
  <2>2. WaitsOK(s)'
    BY <2>1 DEF WaitsOK
  <2>3. ASSUME NEW u \in Services \ {s} PROVE WaitsOK(u)'
    <3>1. WaitsOK(u) /\ (Loading(u) => call[u].at # call[s].at)
      BY <2>1 DEF NumberInv
    <3> QED BY <1>1, <2>1, <3>1, NumberLoad DEF WaitsOK
  <2> QED BY <1>1, <2>1, <2>2, <2>3, NumberLoad DEF NumberInv
<1> QED BY <1>2, <1>3, <1>4

(* A reload that nobody waits for. *)
Strays(r) == Loads(r) /\ \A s \in Services : call[s].at # r.at

LEMMA NumberStray ==
  ASSUME TypeOK, NumberInv, call' = call,
         Reads \/ \E r \in reloads : Strays(r)
  PROVE  NumberInv'
<1> USE NumberTypes
<1>1. \A u \in Services : call'[u] = call[u] /\ (Loading(u)' <=> Loading(u))
  BY DEF Loading
<1>2. CASE Reads
  <2>1. ASSUME NEW u \in Services PROVE WaitsOK(u)'
    BY <1>1, <1>2, NumberRead DEF NumberInv, WaitsOK
  <2> QED BY <1>1, <1>2, <2>1, NumberRead DEF NumberInv
<1>3. ASSUME NEW r \in reloads, Strays(r) PROVE NumberInv'
  <2>1. ASSUME NEW u \in Services PROVE WaitsOK(u)'
    BY <1>1, <1>3, NumberLoad DEF NumberInv, WaitsOK, Strays
  <2> QED BY <1>1, <1>3, <2>1, NumberLoad DEF NumberInv, Strays
<1> QED BY <1>2, <1>3

LEMMA NumberCrash ==
  ASSUME TypeOK, NumberInv, Crash
  PROVE  NumberInv'
<1>1. UNCHANGED <<reloads, reads, newest>>
  BY DEF Crash
<1>2. \A u \in Services : Loading(u)' => Loading(u) /\ call'[u] = call[u]
  BY CrashStep DEF Loading, Resting, AtRest
<1>3. ASSUME NEW u \in Services PROVE WaitsOK(u)'
  <2>1. CASE Resting(u)
    BY <1>1, <2>1, CrashStep DEF NumberInv, WaitsOK, Loading
  <2>2. CASE ~Resting(u)
    BY <2>2, CrashStep DEF WaitsOK, Loading
  <2> QED BY <2>1, <2>2
<1> QED BY <1>1, <1>2, <1>3 DEF NumberInv

-----------------------------------------------------------------------------
(* What was answered is loaded *)

LEMMA SeenRead ==
  ASSUME TypeOK, Reads, NEW k \in Nat, NEW s \in Services, SeenFrom(k, s, file[s])
  PROVE  \A r \in reloads' : r.at >= k => r.seen[s] = file[s]
  BY DEF Reads, SeenFrom

LEMMA LoadedService ==
  ASSUME CallInv, NumberInv, LoadedInv, NEW s \in Services, Only(s),
         Idles(s) \/ Fetches(s) \/ \E r \in reloads : Finishes(s, r)
  PROVE  LoadedInv'
<1> TypeOK
  BY DEF CallInv
<1> USE NumberTypes
<1>1. ASSUME NEW u \in Services \ {s}
      PROVE  /\ call'[u] = call[u] /\ file'[u] = file[u] /\ answered'[u] = answered[u]
             /\ (At(u, "done")' <=> At(u, "done"))
             /\ (At(u, "loading")' <=> At(u, "loading"))
             /\ LoadedOK(u)
  BY DEF Only, At, LoadedInv
<1>2. InOrder' => InOrder
  BY DEF Only, InOrder
<1>3. CASE Idles(s)
  <2>1. LoadedOK(s)'
    BY <1>3 DEF Idles, LoadedOK, At, Loading
  <2>2. ASSUME NEW u \in Services \ {s} PROVE LoadedOK(u)'
    BY <1>1, <1>2, <1>3 DEF Idles, LoadedOK, SeenFrom
  <2> QED BY <2>1, <2>2 DEF LoadedInv
<1>4. CASE Fetches(s)
  <2>1. /\ Reads /\ file' = file /\ loaded' = loaded /\ newest' = newest
        /\ Loading(s)' /\ call'[s].at = reads + 1
    BY <1>4 DEF Fetches, Reads
  <2>2. \A r \in reloads' : r.at >= reads + 1 => r.seen = file
    BY <2>1 DEF Reads, NumberInv
  <2>3. LoadedOK(s)'
    BY <2>1, <2>2 DEF LoadedOK, SeenFrom, At, Loading
  <2>4. ASSUME NEW u \in Services \ {s} PROVE LoadedOK(u)'
    <3>1. At(u, "done") => file[u] = answered[u]
      BY DEF CallInv, DoneOK
    <3> QED BY <1>1, <1>2, <2>1, <2>4, <3>1, SeenRead DEF LoadedOK, SeenFrom
  <2> QED BY <2>3, <2>4 DEF LoadedInv
<1>5. ASSUME NEW r \in reloads, Finishes(s, r) PROVE LoadedInv'
  <2>1. /\ Loads(r) /\ file' = file /\ loaded' = r.seen
        /\ r.at = call[s].at /\ ~Loading(s)'
        /\ call'[s].pc = "done" => At(s, "loading") /\ answered'[s] = file[s]
    BY <1>5 DEF Finishes, Loads
  <2>2. LoadedOK(s)'
    <3>1. ~At(s, "loading")'
      BY <2>1 DEF At, Loading
    <3>2. ASSUME At(s, "done")', InOrder'
          PROVE  /\ loaded'[s] = answered'[s]
                 /\ \A q \in reloads' : q.at >= newest' => q.seen[s] = answered'[s]
      <4>1. SeenFrom(call[s].at, s, file[s]) /\ answered'[s] = file[s]
        BY <2>1, <3>2 DEF At, LoadedInv, LoadedOK
      <4>2. newest' = call[s].at /\ \A q \in reloads' : q \in reloads
        BY <2>1, <3>2, NumberLoad
      <4> QED BY <2>1, <4>1, <4>2 DEF SeenFrom
    <3> QED BY <3>1, <3>2 DEF LoadedOK, SeenFrom
  <2>3. ASSUME NEW u \in Services \ {s} PROVE LoadedOK(u)'
    <3>1. \A q \in reloads' : q \in reloads
      BY <2>1, NumberLoad
    <3>2. InOrder' => newest' = r.at /\ r.at > newest
      BY <2>1, NumberLoad
    <3> QED BY <1>1, <1>2, <2>1, <2>3, <3>1, <3>2 DEF LoadedOK, SeenFrom
  <2> QED BY <2>2, <2>3 DEF LoadedInv
<1> QED BY <1>3, <1>4, <1>5

LEMMA LoadedStray ==
  ASSUME CallInv, NumberInv, LoadedInv, troubles \subseteq troubles',
         UNCHANGED <<file, call, answered>>,
         Reads \/ \E r \in reloads : Strays(r)
  PROVE  LoadedInv'
<1> TypeOK
  BY DEF CallInv
<1> USE NumberTypes
<1> SUFFICES ASSUME NEW u \in Services PROVE LoadedOK(u)'
  BY DEF LoadedInv
<1>1. /\ LoadedOK(u) /\ (At(u, "done")' <=> At(u, "done"))
      /\ (At(u, "loading")' <=> At(u, "loading"))
      /\ (At(u, "done") => file[u] = answered[u])
  BY DEF LoadedInv, At, CallInv, DoneOK
<1>2. InOrder' => InOrder
  BY DEF InOrder
<1>3. CASE Reads
  <2>1. loaded' = loaded /\ newest' = newest
    BY <1>3 DEF Reads
  <2> QED BY <1>1, <1>2, <1>3, <2>1, SeenRead DEF LoadedOK, SeenFrom
<1>4. ASSUME NEW r \in reloads, Strays(r) PROVE LoadedOK(u)'
  <2>1. Loads(r) /\ loaded' = r.seen /\ \A q \in reloads' : q \in reloads
    BY <1>4, NumberLoad DEF Strays, Loads
  <2>2. InOrder' => newest' = r.at /\ r.at > newest
    BY <2>1, NumberLoad
  <2> QED BY <1>1, <1>2, <2>1, <2>2 DEF LoadedOK, SeenFrom
<1> QED BY <1>3, <1>4

LEMMA LoadedCrash ==
  ASSUME TypeOK, LoadedInv, Crash
  PROVE  LoadedInv'
<1>1. /\ UNCHANGED <<file, loaded, reloads, newest, answered>>
      /\ troubles \subseteq troubles'
  BY DEF Crash, files, Trouble
<1>2. ASSUME NEW u \in Services PROVE LoadedOK(u)'
  <2>1. CASE Resting(u)
    BY <1>1, <2>1, CrashStep DEF LoadedInv, LoadedOK, SeenFrom, At, InOrder
  <2>2. CASE ~Resting(u)
    BY <2>2, CrashStep DEF LoadedOK, At
  <2> QED BY <2>1, <2>2
<1> QED BY <1>2 DEF LoadedInv

-----------------------------------------------------------------------------
(* What Caddy runs when all calls have returned *)

(* Enough for an idle step of s: s will read, or it changes neither side   *)
(* and was not the one to read or to load.                                 *)
LEMMA ReadFrom ==
  ASSUME ReadInv, NEW s \in Services, Only(s), Idles(s),
         Sound' => WillRead(s)' \/ (file' = file /\ ~WillRead(s) /\ ~Loading(s))
  PROVE  ReadInv'
<1> SUFFICES ASSUME Sound', ~WillRead(s)' PROVE ReadInv'
  BY DEF ReadInv
<1>1. Sound /\ file' = file /\ ~WillRead(s) /\ ~Loading(s)
  BY DEF Sound, Only
<1>2. \A u \in Services : u # s => call'[u] = call[u]
  BY DEF Only
<1>3. UNCHANGED <<loaded, reloads, newest>>
  BY DEF Idles
<1>4. CASE \E u \in Services : WillRead(u)
  <2>1. PICK u \in Services : WillRead(u)
    BY <1>4
  <2>2. WillRead(u)'
    BY <1>1, <1>2, <2>1 DEF WillRead
  <2> QED BY <2>2 DEF ReadInv
<1>5. CASE FilesLoaded
  BY <1>1, <1>3, <1>5 DEF FilesLoaded, AllSeenFrom, ReadInv
<1>6. CASE \E u \in Services : Loading(u) /\ AllSeenFrom(call[u].at)
  <2>1. PICK u \in Services : Loading(u) /\ AllSeenFrom(call[u].at)
    BY <1>6
  <2>2. call'[u] = call[u]
    BY <1>1, <1>2, <2>1
  <2>3. Loading(u)' /\ AllSeenFrom(call[u].at)'
    BY <1>1, <1>2, <1>3, <2>1, <2>2 DEF Loading, AllSeenFrom
  <2> QED BY <2>3 DEF ReadInv
<1> QED BY <1>1, <1>4, <1>5, <1>6 DEF ReadInv

(* An invalid directory holds a change that is still to be validated.      *)
LEMMA InvalidWillRead ==
  ASSUME ApartInv, Sound, ~Valid(file)
  PROVE  \E u \in Services : Unsettled(u) /\ WillRead(u)
<1>1. PICK s \in Services, u \in Services : s # u /\ Overlap(file[s], file[u])
  BY DEF Valid, Overlap
<1>2. ApartOK(s, u)
  BY <1>1 DEF ApartInv, Calm, Sound
<1> QED BY <1>1, <1>2 DEF ApartOK, Unsettled, WillRead, InFlight

(* So a call that leaves because of it is not the last.                    *)
LEMMA ReadRefused ==
  ASSUME ApartInv, NEW s \in Services, Only(s), ~Valid(file), ~Unsettled(s)
  PROVE  ReadInv'
<1> SUFFICES ASSUME Sound' PROVE \E u \in Services : WillRead(u)'
  BY DEF ReadInv
<1>1. PICK u \in Services : Unsettled(u) /\ WillRead(u)
  BY InvalidWillRead DEF Sound, Only
<1>2. u # s /\ call'[u] = call[u]
  BY <1>1 DEF Only
<1> QED BY <1>1, <1>2 DEF WillRead

(* The steps of a call that neither read nor load.                         *)
LEMMA ReadIdle ==
  ASSUME CallInv, ApartInv, ReadInv, NEW s \in Services, Only(s), Idles(s),
         Begin(s) \/ RemoveAbsent(s) \/ Work(s)
  PROVE  ReadInv'
<1> TypeOK /\ CallOK(s)
  BY DEF CallInv
<1> USE CallTypes, SiteTypes DEF At, AtRest, InFlight, WillRead, Resting, Loading
<1>Begin. CASE Begin(s)
  BY <1>Begin, ReadFrom DEF Begin, files
<1>RemoveAbsent. CASE RemoveAbsent(s)
  BY <1>RemoveAbsent, ReadFrom DEF RemoveAbsent, files
<1>ReplaceSite. CASE ReplaceSite(s)
  <2>1. CASE Go(s, "map")
    BY <2>1, GoStep, ReadFrom
  <2>2. CASE file' = file
    BY <1>ReplaceSite, <2>2, ReadFrom DEF ReplaceSite
  <2> QED BY <1>ReplaceSite, <2>1, <2>2 DEF ReplaceSite
<1>ReplaceMap. CASE ReplaceMap(s)
  <2>1. WillRead(s)'
    BY <1>ReplaceMap, GoStep DEF ReplaceMap
  <2> QED BY <2>1, ReadFrom
<1>Validate. CASE Validate(s)
  <2>1. WillRead(s)'
    BY <1>Validate, GoStep, RollBackStep DEF Validate
  <2> QED BY <2>1, ReadFrom
<1>Reload. CASE Reload(s)
  <2>1. CASE RollBack(s)
    <3>1. WillRead(s)'
      BY <2>1, RollBackStep
    <3> QED BY <3>1, ReadFrom
  <2>2. CASE ReadBy(s, "loading")
    BY <2>2, ReadByStep DEF Idles
  <2> QED BY <1>Reload, <2>1, <2>2 DEF Reload
<1>Load. CASE Load(s)
  <2>1. CASE RollBack(s)
    <3>1. WillRead(s)'
      BY <2>1, RollBackStep
    <3> QED BY <3>1, ReadFrom
  <2>2. CASE \E r \in reloads : Loads(r)
    BY <2>2 DEF Loads, Idles
  <2> QED BY <1>Load, <2>1, <2>2 DEF Load
<1>CutFile. CASE CutFile(s)
  <2>1. WillRead(s)'
    BY <1>CutFile, GoStep DEF CutFile
  <2> QED BY <2>1, ReadFrom
<1>RewriteFiles. CASE RewriteFiles(s)
  <2>1. Sound' => call[s].apply
    BY <1>RewriteFiles DEF RewriteFiles, CallOK, Sound, Only
  <2>2. call[s].apply => WillRead(s)'
    BY <1>RewriteFiles, GoStep DEF RewriteFiles, AfterRestore
  <2> QED BY <2>1, <2>2, ReadFrom
<1>Revalidate. CASE Revalidate(s)
  <2>1. CASE Go(s, "rereload")
    BY <2>1, GoStep, ReadFrom
  <2>2. CASE ~Valid(file)
    BY <1>Revalidate, <2>2, ReadRefused DEF Revalidate, Unsettled
  <2>3. CASE Trouble("again")
    BY <2>3 DEF Trouble, Sound, ReadInv
  <2> QED BY <1>Revalidate, <2>1, <2>2, <2>3 DEF Revalidate
<1>Rereload. CASE Rereload(s)
  <2>1. CASE ReadBy(s, "reloading")
    BY <2>1, ReadByStep DEF Idles
  <2>2. CASE ~Valid(file)
    BY <1>Rereload, <2>2, ReadRefused DEF Rereload, Unsettled
  <2>3. CASE Trouble("again")
    BY <2>3 DEF Trouble, Sound, ReadInv
  <2> QED BY <1>Rereload, <2>1, <2>2, <2>3 DEF Rereload
<1>LoadAgain. CASE LoadAgain(s)
  <2>1. CASE \E r \in reloads : Loads(r)
    BY <2>1 DEF Loads, Idles
  <2>2. CASE Trouble("again")
    BY <2>2 DEF Trouble, Sound, ReadInv
  <2> QED BY <1>LoadAgain, <2>1, <2>2 DEF LoadAgain
<1> QED BY <1>Begin, <1>RemoveAbsent, <1>ReplaceSite, <1>ReplaceMap, <1>Validate,
           <1>Reload, <1>Load, <1>CutFile, <1>RewriteFiles, <1>Revalidate,
           <1>Rereload, <1>LoadAgain DEF Work

(* A read that a call waits for sees the files as they are.                *)
LEMMA ReadFetch ==
  ASSUME TypeOK, NumberInv, NEW s \in Services, Fetches(s)
  PROVE  ReadInv'
<1>1. \A r \in reloads' : r.at >= reads + 1 => r.seen = file
  BY NumberTypes DEF Fetches, Reads, NumberInv
<1>2. Loading(s)' /\ call'[s].at = reads + 1 /\ file' = file
  BY DEF Fetches
<1>3. AllSeenFrom(call[s].at)'
  BY <1>1, <1>2 DEF AllSeenFrom
<1> QED BY <1>2, <1>3 DEF ReadInv

(* A load brings what the files hold when the load that somebody waits for *)
(* would have, and otherwise leaves that one to do so.                     *)
LEMMA ReadLoad ==
  ASSUME TypeOK, NumberInv, ReadInv, NEW r \in reloads, Loads(r), file' = file,
         \A u \in Services :
           call[u].at # r.at /\ (WillRead(u) \/ Loading(u)) => call'[u] = call[u],
         \A u \in Services : WillRead(u) => call'[u] = call[u]
  PROVE  ReadInv'
<1> USE NumberTypes
<1> SUFFICES ASSUME Sound' PROVE ReadInv'
  BY DEF ReadInv
<1>1. InOrder' /\ Sound
  BY DEF Sound, InOrder, Loads
<1>2. /\ newest' = r.at /\ r.at > newest
      /\ \A q \in reloads' : q \in reloads
      /\ loaded' = r.seen
  BY <1>1, NumberLoad DEF Loads
<1>3. ASSUME NEW k \in Nat, AllSeenFrom(k), r.at >= k PROVE FilesLoaded'
  BY <1>2, <1>3 DEF AllSeenFrom, FilesLoaded
<1>4. CASE \E u \in Services : WillRead(u)
  BY <1>4 DEF WillRead, ReadInv
<1>5. CASE FilesLoaded
  BY <1>2, <1>3, <1>5 DEF FilesLoaded, ReadInv
<1>6. CASE \E u \in Services : Loading(u) /\ AllSeenFrom(call[u].at)
  <2>1. PICK u \in Services : Loading(u) /\ AllSeenFrom(call[u].at)
    BY <1>6
  <2>2. CASE r.at >= call[u].at
    BY <1>3, <2>1, <2>2 DEF ReadInv
  <2>3. CASE r.at < call[u].at
    <3>1. call'[u] = call[u]
      BY <2>1, <2>3
    <3>2. Loading(u)' /\ AllSeenFrom(call[u].at)'
      BY <1>2, <2>1, <3>1 DEF Loading, AllSeenFrom
    <3> QED BY <3>2 DEF ReadInv
  <2> QED BY <2>2, <2>3
<1> QED BY <1>1, <1>4, <1>5, <1>6 DEF ReadInv

LEMMA ReadService ==
  ASSUME CallInv, ApartInv, NumberInv, ReadInv, NEW s \in Services, Only(s),
         Begin(s) \/ RemoveAbsent(s) \/ Work(s)
  PROVE  ReadInv'
<1> TypeOK
  BY DEF CallInv
<1>1. CASE Idles(s)
  BY <1>1, ReadIdle
<1>2. CASE Fetches(s)
  BY <1>2, ReadFetch
<1>3. ASSUME NEW r \in reloads, Finishes(s, r) PROVE ReadInv'
  <2>1. ~WillRead(s) /\ call[s].at = r.at /\ Loads(r) /\ file' = file
    BY <1>3 DEF Finishes, Loading, WillRead
  <2>2. \A u \in Services : u # s => call'[u] = call[u]
    BY DEF Only
  <2> QED BY <2>1, <2>2, ReadLoad
<1> QED BY <1>1, <1>2, <1>3, ReloadKinds

LEMMA ReadStray ==
  ASSUME TypeOK, NumberInv, ReadInv, troubles \subseteq troubles',
         UNCHANGED <<file, call, answered>>,
         Reads \/ \E r \in reloads : Strays(r)
  PROVE  ReadInv'
<1> USE NumberTypes
<1>1. CASE Reads
  <2>1. loaded' = loaded /\ newest' = newest
    BY <1>1 DEF Reads
  <2>2. \A k \in Nat : AllSeenFrom(k) => AllSeenFrom(k)'
    BY <1>1 DEF Reads, AllSeenFrom
  <2>3. Sound' => Sound
    BY DEF Sound
  <2> QED BY <2>1, <2>2, <2>3 DEF ReadInv, FilesLoaded, WillRead, Loading, AllSeenFrom
<1>2. ASSUME NEW r \in reloads, Strays(r) PROVE ReadInv'
  BY <1>2, ReadLoad DEF Strays
<1> QED BY <1>1, <1>2

LEMMA ReadCrash ==
  ASSUME TypeOK, Crash
  PROVE  ReadInv'
  BY CrashStep DEF ReadInv

-----------------------------------------------------------------------------
(* The invariant holds *)

LEMMA InitInv == Init => IInv
<1> SUFFICES ASSUME Init PROVE IInv
  OBVIOUS
<1>1. Returned("done") \in CallType
  BY SiteTypes DEF Returned, CallType, AtRest, NoRead
<1>2. TypeOK
  BY <1>1, SiteTypes, CaddyAssumption DEF Init, TypeOK
<1>3. \A s \in Services :
        call[s].pc = "done" /\ Resting(s) /\ ~Loading(s) /\ call[s].at = NoRead
  BY DEF Init, Returned, Resting, AtRest, Loading
<1>4. CallInv
  BY <1>2, <1>3 DEF Init, CallInv, CallOK, DoneOK, KeptOK, Changed, Undone
<1>5. ApartInv
  BY <1>3 DEF Init, ApartInv, ApartOK, Valid, Overlap
<1>6. NumberInv
  BY <1>3 DEF Init, NumberInv, WaitsOK
<1>7. LoadedInv
  BY <1>3 DEF Init, LoadedInv, LoadedOK, SeenFrom, At
<1>8. ReadInv
  BY DEF Init, ReadInv, FilesLoaded, AllSeenFrom
<1> QED BY <1>4, <1>5, <1>6, <1>7, <1>8 DEF IInv

LEMMA NextInv == IInv /\ [Next]_vars => IInv'
<1> SUFFICES ASSUME IInv, [Next]_vars PROVE IInv'
  OBVIOUS
<1> CallInv /\ ApartInv /\ NumberInv /\ LoadedInv /\ ReadInv /\ TypeOK
  BY DEF IInv, CallInv
<1>1. CASE \E s \in Services : Begin(s) \/ RemoveAbsent(s) \/ Work(s)
  <2>1. PICK s \in Services : Begin(s) \/ RemoveAbsent(s) \/ Work(s)
    BY <1>1
  <2>2. TypeOK' /\ Only(s)
    BY <2>1, ServiceStep
  <2>3. Idles(s) \/ Fetches(s) \/ \E r \in reloads : Finishes(s, r)
    BY <2>1, ReloadKinds
  <2>4. CallInv' /\ ApartInv'
    BY <2>1, <2>2, CallInvService, ApartService
  <2>5. NumberInv' /\ LoadedInv'
    BY <2>2, <2>3, NumberService, LoadedService
  <2>6. ReadInv'
    BY <2>1, <2>2, ReadService
  <2> QED BY <2>4, <2>5, <2>6 DEF IInv
<1>2. CASE (\E s \in Services : StrayReads(s)) \/ StrayLoads
  <2>1. /\ TypeOK' /\ troubles \subseteq troubles'
        /\ UNCHANGED <<file, map, call, answered>>
    BY <1>2, StrayStep
  <2>2. Reads \/ \E r \in reloads : Strays(r)
    BY <1>2 DEF StrayReads, StrayLoads, Strays
  <2>3. CallInv' /\ ApartInv'
    BY <2>1, CallInvStray, ApartStray
  <2>4. NumberInv' /\ LoadedInv' /\ ReadInv'
    BY <2>1, <2>2, NumberStray, LoadedStray, ReadStray
  <2> QED BY <2>3, <2>4 DEF IInv
<1>3. CASE Crash
  <2>1. CallInv' /\ ApartInv'
    BY <1>3, CallInvCrash, ApartCrash
  <2>2. NumberInv' /\ LoadedInv' /\ ReadInv'
    BY <1>3, NumberCrash, LoadedCrash, ReadCrash
  <2> QED BY <2>1, <2>2 DEF IInv
<1>4. CASE UNCHANGED vars
  <2>1. TypeOK'
    BY <1>4 DEF TypeOK, vars, reloading
  <2>2. CallInv'
    BY <1>4, <2>1 DEF vars, CallInv, CallOK, DoneOK, KeptOK, Restores, Resting, At
  <2>3. ApartInv'
    BY <1>4 DEF vars, ApartInv, ApartOK, Calm, Resting, Unsettled
  <2>4. NumberInv'
    BY <1>4 DEF vars, reloading, NumberInv, WaitsOK, Loading
  <2>5. LoadedInv'
    BY <1>4 DEF vars, reloading, LoadedInv, LoadedOK, SeenFrom, At, InOrder
  <2>6. ReadInv'
    BY <1>4 DEF vars, reloading, ReadInv, Sound, WillRead, FilesLoaded, AllSeenFrom,
                Loading
  <2> QED BY <2>2, <2>3, <2>4, <2>5, <2>6 DEF IInv
<1> QED BY <1>1, <1>2, <1>3, <1>4 DEF Next

LEMMA InvAlways == Spec => []IInv
  BY InitInv, NextInv, PTL DEF Spec

-----------------------------------------------------------------------------
(* Theorems *)

(* The variables of the adapter keep their types.                          *)
THEOREM TypesCorrect == Spec => []TypeOK
<1>1. IInv => TypeOK
  BY DEF IInv, CallInv
<1> QED BY <1>1, InvAlways, PTL

(* A change that the adapter has reported as made is in its file, and if   *)
(* it is for a route in Caddy, until the next call for that service,       *)
(* whatever the calls of other services do, whatever fails, and whatever   *)
(* a reload does that was given up, unless it loads an earlier read after  *)
(* a later one.                                                            *)
THEOREM AnsweredStaysLoaded == Spec => []AnsweredIsLoaded
<1>1. IInv => AnsweredIsLoaded
  BY DEF IInv, CallInv, DoneOK, LoadedInv, LoadedOK, InOrder, AnsweredIsLoaded
<1> QED BY <1>1, InvAlways, PTL

(* When all calls have returned the directory is one that Caddy accepts,   *)
(* although calls for different services overlap without a lock.           *)
THEOREM QuietDirectoryIsValid == Spec => []QuietIsValid
<1>1. ASSUME IInv, Quiet, Calm
      PROVE  Valid(file) /\ \A s \in Services : map[s] = MapOf(file[s])
  <2>1. \A s \in Services : ~Unsettled(s)
    BY <1>1 DEF Quiet, Resting, AtRest, Unsettled
  <2>2. Valid(file)
    BY <1>1, <2>1 DEF IInv, ApartInv, ApartOK, Overlap, Valid
  <2>3. Restores
    BY <1>1 DEF Calm, Restores
  <2> QED BY <1>1, <2>2, <2>3 DEF IInv, CallInv, KeptOK, Quiet
<1>2. IInv => QuietIsValid
  BY <1>1 DEF QuietIsValid, Calm
<1> QED BY <1>2, InvAlways, PTL

(* When all calls have returned, every roll-back could do its part and no  *)
(* reload was overtaken, Caddy runs what the files say, and those are the  *)
(* sites that were reported as made.                                       *)
THEOREM QuietRoutesAreLoaded == Spec => []QuietIsLoaded
<1>1. ASSUME IInv, Quiet, Sound
      PROVE  loaded = file /\ file = answered
  <2>1. \A s \in Services : ~WillRead(s) /\ ~Loading(s)
    BY <1>1 DEF Quiet, Resting, AtRest, WillRead, Loading, InFlight
  <2>2. loaded = file
    BY <1>1, <2>1 DEF IInv, ReadInv, FilesLoaded
  <2>3. Restores
    BY <1>1 DEF Sound, Restores
  <2>4. \A s \in Services : file[s] = answered[s]
    BY <1>1, <2>3 DEF IInv, CallInv, KeptOK, Quiet
  <2>5. file \in [Services -> Sites] /\ answered \in [Services -> Sites]
    BY <1>1 DEF IInv, CallInv, TypeOK
  <2> QED BY <2>2, <2>4, <2>5
<1>2. IInv => QuietIsLoaded
  BY <1>1 DEF QuietIsLoaded, Sound
<1> QED BY <1>2, InvAlways, PTL

=============================================================================
