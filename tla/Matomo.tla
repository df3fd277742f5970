------------------------------- MODULE Matomo -------------------------------
(***************************************************************************)
(* How the WHMCS server module gives a service its Matomo site             *)
(* (whmcs-plugin/modules/servers/moddhosting): the columns matomo_id,      *)
(* matomo_attempt and matomo_last_error of the service's row, the lock     *)
(* GET_LOCK that guards them, the Deploy and Unsuspend requests that use   *)
(* them, the saves of an administrator, and Matomo, which may carry out a  *)
(* request whose sender has given up.  One service; a step is one query,   *)
(* one request to Matomo, or one save.                                     *)
(*                                                                         *)
(* A creation key is found in a site's group (or, for sites of an older    *)
(* module, in its name: not told apart).  The site a key creates is called *)
(* by that key.  Names and URLs are left out.                              *)
(***************************************************************************)
EXTENDS Naturals, FiniteSets

CONSTANTS
  Threads,     \* PHP requests
  Keys,        \* creation keys: "WHMCS <id> <random>"
  Imported,    \* a site that exists already
  None,        \* NULL, 0 or no one
  MaxSaves,    \* bound: saves that change the row
  MaxTroubles  \* bound: failures and crashes

(* Every key is spent by the first creation, a save or a failure.          *)
ASSUME MatomoAssumption ==
  /\ None \notin Keys \union {Imported} \union Threads
  /\ Imported \notin Keys
  /\ Keys \intersect {"none", "own", "other"} = {}
  /\ Cardinality(Keys) > MaxSaves + MaxTroubles

VARIABLES
  row,      \* the service's columns
  sites,    \* Matomo: the group of each site
  asked,    \* addSite requests Matomo has yet to carry out
  lock,     \* who holds the lock
  th,       \* per PHP request, where moddhosting_matomo_id is
  used,     \* history: keys drawn
  cleared,  \* history: keys drawn before the last save that changed the row
  left      \* what is left of the bounds

vars == <<row, sites, asked, lock, th, used, cleared, left>>

-----------------------------------------------------------------------------
Ids == Keys \union {Imported}
Groups == Keys \union {"none", "own", "other"}  \* "own" is whmcs-<id>
Idle == [pc |-> "idle"]

Init ==
  /\ row \in [id : {None, Imported}, attempt : {None}, err : {"null"}]
  /\ sites = [i \in Ids |-> IF i = Imported THEN "other" ELSE "none"]
  /\ asked = {}
  /\ lock = None
  /\ th = [t \in Threads |-> Idle]
  /\ used = {}
  /\ cleared = {}
  /\ left = [saves |-> MaxSaves, troubles |-> MaxTroubles]

Spend(what) == left[what] > 0 /\ left' = [left EXCEPT ![what] = @ - 1]
Trouble == Spend("troubles")
At(t, label) == th[t].pc = label
Go(t, label) == th' = [th EXCEPT ![t].pc = label]
Exists(i) == sites[i] # "none"
history == <<used, cleared>>

(* A statement that fails may have taken effect.                           *)
Sets(columns) == row' = columns
FailsToSet(columns) == Trouble /\ row' \in {row, columns}

-----------------------------------------------------------------------------
(* moddhosting_matomo_id: one request *)

(* CreateAccount, deploy and ChangePackage, with settings and domain that  *)
(* are valid or not; UnsuspendAccount.                                     *)
Call(t) ==
  /\ At(t, "idle")
  /\ \E kind \in {"deploy", "invalid", "unsuspend"} :
       th' = [th EXCEPT ![t] =
         [pc |-> "lock", kind |-> kind, id |-> None, saved |-> None, doubt |-> FALSE]]
  /\ UNCHANGED <<row, sites, asked, lock, history, left>>

GetLock(t) ==
  /\ At(t, "lock")
  /\ lock = None
  /\ lock' = t
  /\ Go(t, "read")
  /\ UNCHANGED <<row, sites, asked, history, left>>

(* After 30 s the request goes on without an ID.                           *)
LockTimesOut(t) ==
  /\ At(t, "lock")
  /\ lock # None
  /\ th' = [th EXCEPT ![t] = Idle]
  /\ UNCHANGED <<row, sites, asked, lock, history, left>>

(* The finally of moddhosting_matomo_lock, and the ID goes to the          *)
(* controller.                                                             *)
Returns(t) == lock' = None /\ th' = [th EXCEPT ![t] = Idle]

Read(t) ==
  /\ At(t, "read")
  /\ \/ /\ th[t].kind = "unsuspend"
        /\ Returns(t)
     \/ /\ th[t].kind # "unsuspend"
        /\ th' = [th EXCEPT ![t].id = row.id, ![t].saved = row.id,
             ![t].pc = IF th[t].kind = "invalid" THEN "fail"
                       ELSE IF row.id # None     THEN "sync"
                       ELSE IF row.attempt # None THEN "look" ELSE "mark"]
        /\ UNCHANGED lock
  /\ UNCHANGED <<row, sites, asked, history, left>>

ReadFails(t) ==
  /\ At(t, "read")
  /\ Trouble
  /\ th' = [th EXCEPT ![t].pc = "fail", ![t].doubt = TRUE]
  /\ UNCHANGED <<row, sites, asked, lock, history>>

(* The key is in the row before it goes to Matomo.                         *)
Mark(t) ==
  LET key == CHOOSE k \in Keys : k \notin used
      marked == [row EXCEPT !.attempt = key]
  IN /\ At(t, "mark")
     /\ used # Keys
     /\ used' = used \union {key}
     /\ \/ Sets(marked) /\ Go(t, "add") /\ UNCHANGED left
        \/ FailsToSet(marked) /\ Go(t, "fail")
     /\ UNCHANGED <<sites, asked, lock, cleared>>

(* addSite, unless there is no connection (a "definite" failure).          *)
AddSite(t) ==
  /\ At(t, "add")
  /\ \/ asked' = asked \union {row.attempt} /\ Go(t, "answer") /\ UNCHANGED left
     \/ Trouble /\ Go(t, "unmark") /\ UNCHANGED asked
  /\ UNCHANGED <<row, sites, lock, history>>

RenamedFirst(t) ==  \* seeded defect: updateSite before the ID is saved
  /\ At(t, "answer")
  /\ Exists(row.attempt)
  /\ th' = [th EXCEPT ![t].pc = "save", ![t].id = row.attempt]
  /\ sites' = [sites EXCEPT ![row.attempt] = "own"]
  /\ UNCHANGED <<row, asked, lock, history, left>>

Created(t) ==
  /\ At(t, "answer")
  /\ Exists(row.attempt)
  /\ th' = [th EXCEPT ![t].pc = "save", ![t].id = row.attempt]
  /\ UNCHANGED <<row, sites, asked, lock, history, left>>

AlwaysUnmark(t) ==  \* seeded defect: $error->definite is not asked
  /\ At(t, "answer")
  /\ Trouble
  /\ asked' \in {asked, asked \ {row.attempt}}
  /\ Go(t, "unmark")
  /\ UNCHANGED <<row, sites, lock, history>>

(* A time-out, an error or no ID: the request may never have arrived, or   *)
(* be carried out later.                                                   *)
AnswerLost(t) ==
  /\ At(t, "answer")
  /\ Trouble
  /\ asked' \in {asked, asked \ {row.attempt}}
  /\ Go(t, "fail")
  /\ UNCHANGED <<row, sites, lock, history>>

Unmark(t) ==
  LET unmarked == [row EXCEPT !.attempt = None]
  IN /\ At(t, "unmark")
     /\ \/ Sets(unmarked) /\ UNCHANGED left
        \/ FailsToSet(unmarked)
     /\ Go(t, "fail")
     /\ UNCHANGED <<sites, asked, lock, history>>

(* getPatternMatchSites: exactly one site must have the key.               *)
Matches(key) == {i \in Ids : sites[i] = key}

LookAnyCount(t) ==  \* seeded defect: the matches are not counted
  LET found == Matches(row.attempt)
  IN /\ At(t, "look")
     /\ \/ /\ th' = [th EXCEPT ![t].pc = "save",
                ![t].id = IF found = {} THEN None ELSE CHOOSE i \in found : TRUE]
           /\ UNCHANGED left
        \/ Trouble /\ Go(t, "fail")
     /\ UNCHANGED <<row, sites, asked, lock, history>>

LookForOwn(t) ==  \* seeded defect: looks for whmcs-<id>
  LET found == {i \in Ids : sites[i] = "own"}
  IN /\ At(t, "look")
     /\ \/ /\ Cardinality(found) = 1
           /\ th' = [th EXCEPT ![t].pc = "save", ![t].id = CHOOSE i \in found : TRUE]
           /\ UNCHANGED left
        \/ Cardinality(found) # 1 /\ Go(t, "fail") /\ UNCHANGED left
        \/ Trouble /\ Go(t, "fail")
     /\ UNCHANGED <<row, sites, asked, lock, history>>

Look(t) ==
  LET found == Matches(row.attempt)
  IN /\ At(t, "look")
     /\ \/ /\ Cardinality(found) = 1
           /\ th' = [th EXCEPT ![t].pc = "save", ![t].id = CHOOSE i \in found : TRUE]
           /\ UNCHANGED left
        \/ Cardinality(found) # 1 /\ Go(t, "fail") /\ UNCHANGED left
        \/ Trouble /\ Go(t, "fail")
     /\ UNCHANGED <<row, sites, asked, lock, history>>

SaveIdOnly(t) ==  \* seeded defect: $savedId is left for later
  LET saved == [row EXCEPT !.id = th[t].id, !.attempt = None]
  IN /\ At(t, "save")
     /\ \/ Sets(saved) /\ Go(t, "sync") /\ UNCHANGED left
        \/ FailsToSet(saved) /\ th' = [th EXCEPT ![t].pc = "fail", ![t].doubt = TRUE]
     /\ UNCHANGED <<sites, asked, lock, history>>

(* One statement saves the ID and drops the key.                           *)
SaveId(t) ==
  LET saved == [row EXCEPT !.id = th[t].id, !.attempt = None]
  IN /\ At(t, "save")
     /\ \/ /\ Sets(saved)
           /\ th' = [th EXCEPT ![t].pc = "sync", ![t].saved = th[t].id]
           /\ UNCHANGED left
        \/ FailsToSet(saved) /\ th' = [th EXCEPT ![t].pc = "fail", ![t].doubt = TRUE]
     /\ UNCHANGED <<sites, asked, lock, history>>

(* updateSite and setSiteAliasUrls; done late, they would be done all the  *)
(* same, the ID being saved.                                               *)
UpdateSite(t) ==
  LET renamed == [sites EXCEPT ![th[t].id] = "own"]
  IN /\ At(t, "sync")
     /\ \/ sites' = renamed /\ Go(t, "note") /\ UNCHANGED left
        \/ Trouble /\ sites' \in {sites, renamed} /\ Go(t, "fail")
     /\ UNCHANGED <<row, asked, lock, history>>

Note(t) ==
  LET ok == [row EXCEPT !.err = "ok"]
  IN /\ At(t, "note")
     /\ \/ Sets(ok) /\ Returns(t) /\ UNCHANGED left
        \/ FailsToSet(ok) /\ Go(t, "fail") /\ UNCHANGED lock
     /\ UNCHANGED <<sites, asked, history>>

(* The catch: last_error if it can be written; $savedId is returned.       *)
Fail(t) ==
  LET error == [row EXCEPT !.err = "error"]
  IN /\ At(t, "fail")
     /\ \/ Sets(error) /\ UNCHANGED left
        \/ FailsToSet(error)
     /\ Returns(t)
     /\ UNCHANGED <<sites, asked, history>>

Work(t) ==
  \/ GetLock(t) \/ LockTimesOut(t)
  \/ Read(t) \/ ReadFails(t)
  \/ Mark(t) \/ AddSite(t) \/ Created(t) \/ AnswerLost(t) \/ Unmark(t)
  \/ Look(t)
  \/ SaveId(t) \/ UpdateSite(t) \/ Note(t)
  \/ Fail(t)

-----------------------------------------------------------------------------
(* Its surroundings *)

(* The PHP process ends; its connection, and so the lock, is gone.         *)
Crash(t) ==
  /\ lock = t
  /\ Trouble
  /\ Returns(t)
  /\ UNCHANGED <<row, sites, asked, history>>

MatomoCreates ==
  /\ \E key \in asked :
       /\ sites' = [sites EXCEPT ![key] = key]
       /\ asked' = asked \ {key}
  /\ UNCHANGED <<row, lock, th, history, left>>

SavedKeepingStatus(id, preserve) ==  \* seeded defect: the status is not reset
  [row EXCEPT !.id = id,
     !.attempt = IF id = row.id /\ preserve THEN @ ELSE None]

(* What moddhosting_save_service_config writes: the same ID keeps its      *)
(* status and, from the service's page, its key.                           *)
Saved(id, preserve) ==
  IF id = row.id /\ (preserve \/ id # None)
    THEN [row EXCEPT !.attempt = IF preserve THEN @ ELSE None]
    ELSE [id |-> id, attempt |-> None, err |-> "null"]

(* AdminServicesTabFieldsSave, where "preserve" is the reset box not being *)
(* ticked, and updateConfig, which never preserves: a site, or blank.      *)
SaveConfig ==
  /\ lock = None
  /\ \E id \in {i \in Ids : Exists(i)} \union {None}, preserve \in BOOLEAN :
       /\ row' = Saved(id, preserve)
       /\ row' # row
  /\ cleared' = used
  /\ Spend("saves")
  /\ UNCHANGED <<sites, asked, lock, th, used>>

Next ==
  \/ \E t \in Threads : Call(t) \/ Work(t) \/ Crash(t)
  \/ MatomoCreates
  \/ SaveConfig

(* PHP runs on, and a request that has reached Matomo is carried out.      *)
Fairness ==
  /\ \A t \in Threads : WF_vars(Work(t))
  /\ WF_vars(MatomoCreates)

Spec == Init /\ [][Next]_vars /\ Fairness

-----------------------------------------------------------------------------
(* Properties *)

TypeOK ==
  /\ row \in [id : Ids \union {None}, attempt : Keys \union {None},
              err : {"null", "ok", "error"}]
  /\ sites \in [Ids -> Groups]
  /\ asked \subseteq used
  /\ cleared \subseteq used
  /\ lock \in Threads \union {None}
  /\ \A t \in Threads : th[t].pc \in {"save", "sync"} => th[t].id \in Ids

(* "An uncertain creation result leaves a pending attempt to prevent       *)
(* duplicates": whatever is lost, fails or crashes, and however late       *)
(* Matomo acts, the service gets one site at most, until an administrator  *)
(* replaces or clears what the row holds.                                  *)
AtMostOneSite ==
  Cardinality({k \in Keys \ cleared : Exists(k)}) <= 1

(* "Recovered IDs are saved before renaming the site": a site the module   *)
(* has asked for is the row's site, or still bears the key in the row, by  *)
(* which the next Deploy finds it.                                         *)
NoneForgotten ==
  \A k \in Keys \ cleared :
    /\ Exists(k) => row.id = k \/ (row.attempt = k /\ sites[k] = k)
    /\ k \in asked => row.attempt = k

(* "An already assigned ID still reaches the controller": whatever fails   *)
(* at Matomo, the ID a Deploy will return is the one in the row.  Not when *)
(* the row could not be read, or the write of the ID failed.               *)
ReturnsTheSaved ==
  \A t \in Threads :
    lock = t /\ ~At(t, "read") /\ ~th[t].doubt => th[t].saved = row.id

(* "Status: OK" is about the site in the row, which a Deploy has made this *)
(* service's own: it does not outlive a replaced or cleared ID.            *)
OkIsSynced ==
  row.err = "ok" => row.id # None /\ sites[row.id] = "own"

(* When a service is deployed again and again it has an ID in the end, or  *)
(* waits for an administrator with a key no site bears.                    *)
Unresolved == row.attempt # None /\ Matches(row.attempt) = {}
Deploying == \E t \in Threads : At(t, "read") /\ th[t].kind = "deploy"
Converges == []<>Deploying => <>[](row.id # None \/ Unresolved)

=============================================================================
