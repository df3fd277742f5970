---------------------------- MODULE CaddyRoutes ----------------------------
(***************************************************************************)
(* How the Caddy adapter (go-service/internal/caddy) changes the routes of *)
(* several services at the same time: each has two files of its own, the   *)
(* site <id>.caddy and the map <id>.map, but there is one directory, which *)
(* every validation and every reload reads as a whole, and one Caddy.      *)
(* Nothing locks the directory.                                            *)
(*                                                                         *)
(* A call is one Active, Suspended or Remove of the adapter; the Manager   *)
(* has at most one per service in flight (Lifecycle's OneWriter).  A step  *)
(* is one file replaced, one validation run, or a file cut off or written  *)
(* by the roll-back.  A reload is two steps of a process of its own (a     *)
(* docker exec): it reads the directory, and Caddy loads what it has read. *)
(* Nothing keeps reloads in the order in which they read, and one whose    *)
(* call has given it up may still do both.  A site is a set of hostnames   *)
(* and whether it is a proxy or the suspension page; slots and sockets are *)
(* left out, and so is that a command reads one file after the other.      *)
(***************************************************************************)
EXTENDS Naturals

CONSTANTS
  Services,   \* services on the host
  HostSets,   \* the sets of hostnames a service may be given
  Faults,     \* the kinds of trouble there may be
  MaxCalls,   \* bound: calls in one behaviour
  MaxFaults   \* bound: troubles in one behaviour

(*   write    the site, the first file, is not replaced                    *)
(*   map      the map, the second file, is not                             *)
(*   command  the first validation or reload fails, but the reload goes on *)
(*            for as long as it likes                                      *)
(*   again    one of the roll-back does: it has the same context, and so   *)
(*            what is left of the same deadline                            *)
(*   restore  the roll-back cannot write a file                            *)
(*   crash    the controller dies, and the reloads go on                   *)
FaultKinds == {"write", "map", "command", "again", "restore", "crash"}

ASSUME CaddyAssumption ==
  /\ Faults \subseteq FaultKinds
  /\ {} \notin HostSets
  /\ MaxCalls \in Nat
  /\ MaxFaults \in Nat

VARIABLES
  file,      \* per service, what its site file holds
  map,       \* per service, what its map file holds
  loaded,    \* per service, its site in the configuration Caddy runs
  reloads,   \* the reloads that have read the files and may still load them
  strays,    \* per service, the reloads given up that may still read
  reads,     \* history: how often a reload has read the files
  newest,    \* history: the latest of these reads that Caddy has loaded
  call,      \* per service, the call in flight, or how the last one ended
  answered,  \* history: per service, the site the last good answer was for
  troubles,  \* history: the kinds of trouble there were
  left       \* what is left of the bounds

reloading == <<loaded, reloads, strays, reads, newest>>

vars == <<file, map, reloading, call, answered, troubles, left>>

-----------------------------------------------------------------------------
NoSite == [mode |-> "none", hosts |-> {}]
Sites == [mode : {"proxy", "page"}, hosts : HostSets] \union {NoSite}

MapOf(site) == IF site.mode = "proxy" THEN site ELSE NoSite

(* "done" and "failed" are calls that have returned.                       *)
AtRest == {"done", "failed"}
InFlight == {"site", "map", "validate", "reload", "loading", "cut", "rewrite",
             "revalidate", "rereload", "reloading"}

(* A reload is known by its read.                                          *)
ReloadType == [at : Nat \ {0}, seen : [Services -> Sites]]
NoRead == 0

CallType ==
  [pc : AtRest \union InFlight, site : Sites, old : Sites, oldMap : Sites,
   apply : BOOLEAN, at : Nat]

Returned(how) ==
  [pc |-> how, site |-> NoSite, old |-> NoSite, oldMap |-> NoSite,
   apply |-> FALSE, at |-> NoRead]

Resting(s) == call[s].pc \in AtRest
Quiet == \A s \in Services : Resting(s)

(* Caddy refuses two sites for one hostname.                               *)
Valid(f) ==
  \A s, u \in Services : s # u => f[s].hosts \intersect f[u].hosts = {}

TypeOK ==
  /\ file \in [Services -> Sites]
  /\ map \in [Services -> Sites]
  /\ loaded \in [Services -> Sites]
  /\ reloads \subseteq ReloadType
  /\ strays \in [Services -> Nat]
  /\ reads \in Nat /\ newest \in Nat
  /\ call \in [Services -> CallType]
  /\ answered \in [Services -> Sites]
  /\ troubles \subseteq FaultKinds \union {"contested", "overtaken"}
  /\ left \in [calls : Nat, faults : Nat]

(* Any routes without a conflict, loaded.                                  *)
Init ==
  /\ file \in {f \in [Services -> Sites] : Valid(f)}
  /\ map = [s \in Services |-> MapOf(file[s])]
  /\ loaded = file
  /\ reloads = {} /\ strays = [s \in Services |-> 0]
  /\ reads = 0 /\ newest = 0
  /\ call = [s \in Services |-> Returned("done")]
  /\ answered = file
  /\ troubles = {}
  /\ left = [calls |-> MaxCalls, faults |-> MaxFaults]

At(s, label) == call[s].pc = label
Go(s, label) == call' = [call EXCEPT ![s].pc = label]

NoTrouble == UNCHANGED <<troubles, left>>
Trouble(kind) ==
  /\ kind \in Faults /\ left.faults > 0
  /\ troubles' = troubles \union {kind}
  /\ left' = [left EXCEPT !.faults = @ - 1]

Fails(s) == call' = [call EXCEPT ![s] = Returned("failed")]
Answers(s, site) ==
  /\ call' = [call EXCEPT ![s] = Returned("done")]
  /\ answered' = [answered EXCEPT ![s] = site]

files == <<file, map>>

-----------------------------------------------------------------------------
(* The call: replace *)

(* One of two overlapping calls asks for a hostname that the other service *)
(* had when its call began.                                                *)
Contested(s, site) ==
  \E u \in Services \ {s} :
    /\ ~Resting(u)
    /\ \/ site.hosts \intersect call[u].old.hosts # {}
       \/ file[s].hosts \intersect call[u].site.hosts # {}

(* Active, Suspended, or Remove of a route that has a file.                *)
Begin(s) ==
  /\ Resting(s)
  /\ left.calls > 0 /\ left' = [left EXCEPT !.calls = @ - 1]
  /\ \E site \in Sites :
       /\ site # NoSite \/ file[s] # NoSite \/ map[s] # NoSite
       /\ call' = [call EXCEPT ![s] =
            [pc |-> "site", site |-> site, old |-> file[s], oldMap |-> map[s],
             apply |-> FALSE, at |-> NoRead]]
       /\ troubles' = IF Contested(s, site) THEN troubles \union {"contested"}
                      ELSE troubles
  /\ UNCHANGED <<files, reloading, answered>>

(* Remove of a route without files asks no more of Caddy.                  *)
RemoveAbsent(s) ==
  /\ Resting(s)
  /\ left.calls > 0 /\ left' = [left EXCEPT !.calls = @ - 1]
  /\ file[s] = NoSite /\ map[s] = NoSite
  /\ Answers(s, NoSite)
  /\ UNCHANGED <<files, reloading, troubles>>

ReplaceSite(s) ==
  /\ At(s, "site")
  /\ \/ file' = [file EXCEPT ![s] = call[s].site] /\ Go(s, "map") /\ NoTrouble
     \/ Trouble("write") /\ Fails(s) /\ UNCHANGED file
  /\ UNCHANGED <<map, reloading, answered>>

(* When the second file cannot be replaced the first one is restored, and  *)
(* Caddy is not asked anything.                                            *)
ReplaceMap(s) ==
  /\ At(s, "map")
  /\ \/ /\ map' = [map EXCEPT ![s] = MapOf(call[s].site)]
        /\ Go(s, "validate") /\ NoTrouble
     \/ Trouble("map") /\ Go(s, "cut") /\ UNCHANGED map
  /\ UNCHANGED <<file, reloading, answered>>

-----------------------------------------------------------------------------
(* A reload *)

(* The directory is read, and refused when Caddy would not run it.         *)
Reads ==
  /\ Valid(file)
  /\ reads' = reads + 1
  /\ reloads' = reloads \union {[at |-> reads + 1, seen |-> file]}
  /\ UNCHANGED <<loaded, newest>>

ReadBy(s, label) ==
  /\ Reads
  /\ call' = [call EXCEPT ![s].pc = label, ![s].at = reads + 1]

(* Caddy loads what was read, although it may have loaded a later read.    *)
Loads(r) ==
  /\ reloads' = reloads \ {r} /\ loaded' = r.seen
  /\ IF r.at < newest
       THEN troubles' = troubles \union {"overtaken"} /\ UNCHANGED newest
       ELSE newest' = r.at /\ UNCHANGED troubles
  /\ UNCHANGED <<strays, reads, left>>

(* The process that a call gives up before it has read goes on by itself;  *)
(* the one that has read stays in reloads.                                 *)
GivesUp(s) ==
  /\ strays' = [strays EXCEPT ![s] = @ + 1]
  /\ UNCHANGED <<loaded, reloads, reads, newest>>

StrayReads(s) ==
  /\ strays[s] > 0
  /\ Reads /\ strays' = [strays EXCEPT ![s] = @ - 1]
  /\ UNCHANGED <<files, call, answered, troubles, left>>

StrayLoads ==
  /\ \E r \in reloads : (\A s \in Services : call[s].at # r.at) /\ Loads(r)
  /\ UNCHANGED <<files, call, answered>>

-----------------------------------------------------------------------------
(* apply *)

(* The first failure of the two commands leads to the roll-back.           *)
RollBack(s) ==
  call' = [call EXCEPT ![s].pc = "cut", ![s].apply = TRUE, ![s].at = NoRead]

ValidateOnly(s) ==  \* seeded defect: the reload is forgotten
  /\ At(s, "validate")
  /\ Valid(file) /\ Answers(s, call[s].site) /\ NoTrouble
  /\ UNCHANGED <<files, reloading>>

Validate(s) ==
  /\ At(s, "validate")
  /\ \/ Valid(file) /\ Go(s, "reload") /\ NoTrouble
     \/ ~Valid(file) /\ RollBack(s) /\ NoTrouble
     \/ Trouble("command") /\ RollBack(s)
  /\ UNCHANGED <<files, reloading, answered>>

Reload(s) ==
  /\ At(s, "reload")
  /\ \/ ReadBy(s, "loading") /\ NoTrouble /\ UNCHANGED strays
     \/ ~Valid(file) /\ RollBack(s) /\ NoTrouble /\ UNCHANGED reloading
     \/ Trouble("command") /\ RollBack(s) /\ GivesUp(s)
  /\ UNCHANGED <<files, answered>>

Load(s) ==
  /\ At(s, "loading")
  /\ \/ /\ \E r \in reloads : r.at = call[s].at /\ Loads(r)
        /\ Answers(s, call[s].site)
     \/ Trouble("command") /\ RollBack(s) /\ UNCHANGED <<reloading, answered>>
  /\ UNCHANGED files

-----------------------------------------------------------------------------
(* The roll-back: restoreFiles, and apply again, whose error is dropped *)

ReturnsAtOnce(s) == Fails(s)  \* seeded defect: no second apply
AfterRestore(s) == IF call[s].apply THEN Go(s, "revalidate") ELSE Fails(s)

KeepFiles(s) ==  \* seeded defect: nothing is restored
  /\ At(s, "cut")
  /\ AfterRestore(s) /\ NoTrouble
  /\ UNCHANGED <<files, reloading, answered>>

(* os.WriteFile empties a file before it writes it; a file that was not    *)
(* there is removed.                                                       *)
CutFile(s) ==
  /\ At(s, "cut")
  /\ \/ file' = [file EXCEPT ![s] = NoSite] /\ Go(s, "rewrite") /\ NoTrouble
     \/ Trouble("restore") /\ Go(s, "rewrite") /\ UNCHANGED file
  /\ UNCHANGED <<map, reloading, answered>>

RewriteUnnamed(s) ==  \* seeded defect: the hostnames are lost
  /\ At(s, "rewrite")
  /\ file' = [file EXCEPT ![s].mode = call[s].old.mode]
  /\ AfterRestore(s) /\ NoTrouble
  /\ UNCHANGED <<map, reloading, answered>>

RewriteFiles(s) ==
  LET oldMap == IF call[s].apply THEN call[s].oldMap ELSE map[s] IN
  /\ At(s, "rewrite")
  /\ AfterRestore(s)
  /\ \/ /\ file' = [file EXCEPT ![s] = call[s].old]
        /\ map' = [map EXCEPT ![s] = oldMap]
        /\ NoTrouble
     \/ /\ Trouble("restore")
        /\ file' \in {file, [file EXCEPT ![s] = call[s].old]}
        /\ map' \in {map, [map EXCEPT ![s] = NoSite], [map EXCEPT ![s] = oldMap]}
  /\ UNCHANGED <<reloading, answered>>

Revalidate(s) ==
  /\ At(s, "revalidate")
  /\ \/ Valid(file) /\ Go(s, "rereload") /\ NoTrouble
     \/ ~Valid(file) /\ Fails(s) /\ NoTrouble
     \/ Trouble("again") /\ Fails(s)
  /\ UNCHANGED <<files, reloading, answered>>

Rereload(s) ==
  /\ At(s, "rereload")
  /\ \/ ReadBy(s, "reloading") /\ NoTrouble /\ UNCHANGED strays
     \/ ~Valid(file) /\ Fails(s) /\ NoTrouble /\ UNCHANGED reloading
     \/ Trouble("again") /\ Fails(s) /\ GivesUp(s)
  /\ UNCHANGED <<files, answered>>

LoadAgain(s) ==
  /\ At(s, "reloading")
  /\ Fails(s)
  /\ \/ \E r \in reloads : r.at = call[s].at /\ Loads(r)
     \/ Trouble("again") /\ UNCHANGED reloading
  /\ UNCHANGED <<files, answered>>

(* The controller dies; nothing at start-up looks at Caddy.                *)
Crash ==
  /\ ~Quiet
  /\ Trouble("crash")
  /\ call' = [s \in Services |->
       IF Resting(s) THEN call[s] ELSE Returned("failed")]
  /\ strays' = [s \in Services |->
       IF call[s].pc \in {"reload", "rereload"} THEN strays[s] + 1 ELSE strays[s]]
  /\ UNCHANGED <<files, loaded, reloads, reads, newest, answered>>

Work(s) ==
  \/ ReplaceSite(s) \/ ReplaceMap(s) \/ Validate(s) \/ Reload(s) \/ Load(s)
  \/ CutFile(s) \/ RewriteFiles(s) \/ Revalidate(s) \/ Rereload(s) \/ LoadAgain(s)

Next ==
  \/ \E s \in Services : Begin(s) \/ RemoveAbsent(s) \/ Work(s) \/ StrayReads(s)
  \/ StrayLoads \/ Crash

Spec == Init /\ [][Next]_vars

-----------------------------------------------------------------------------
(* Properties *)

(* A call that returned without an error has been carried out, and stays   *)
(* so until the next call for that service, whatever other services' calls *)
(* read, load, fail or undo in between, and whatever a reload still does   *)
(* whose call or controller is gone: its file has that site and Caddy runs *)
(* it (container-runtime.md:126).  Caddy does only as long as no reload    *)
(* has been overtaken, which nothing in the code prevents.  A service      *)
(* without a route is left to QuietIsLoaded: Remove does not ask Caddy     *)
(* when there are no files.                                                *)
AnsweredIsLoaded ==
  \A s \in Services :
    At(s, "done") =>
      /\ file[s] = answered[s]
      /\ answered[s] # NoSite /\ "overtaken" \notin troubles => loaded[s] = answered[s]

(* One service's refused change does not stand in the way of the others:   *)
(* when no call is in flight the directory is valid, although nothing      *)
(* keeps two services from asking for the same hostname at the same time   *)
(* and each validation sees the other's unfinished change.  Not so when    *)
(* the roll-back could not write, after a crash, or when a call has taken  *)
(* a hostname that a roll-back then gives back.                            *)
QuietIsValid ==
  Quiet /\ troubles \intersect {"restore", "crash", "contested"} = {} =>
    Valid(file) /\ \A s \in Services : map[s] = MapOf(file[s])

(* Updates are transactional (container-runtime.md:210-217): when no call  *)
(* is in flight every service has the site of its last good answer, in its *)
(* file and in Caddy, whatever reloads of others have read and loaded of a *)
(* change that was undone.  That takes a second reload, so it also needs   *)
(* one that is run (not so when the map fails), is not given up itself,    *)
(* and is not overtaken by one that has read the change.                   *)
QuietIsLoaded ==
  /\ Quiet
  /\ troubles \intersect
       {"restore", "crash", "contested", "map", "again", "overtaken"} = {}
  => loaded = file /\ file = answered

=============================================================================
