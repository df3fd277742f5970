---------------------------- MODULE MCLifecycle ----------------------------
(* Small instances of Lifecycle.                                            *)
EXTENDS LifecycleRecord, TLC

CONSTANTS d1, d2  \* hostnames

ThreadSymmetry == Permutations(Threads)

Call0(kind) ==
  [kind |-> kind, ver |-> 0, dom |-> NoDomain, force |-> FALSE, confirm |-> FALSE]
Put(v, d) == [Call0("provision") EXCEPT !.ver = v, !.dom = d]
Force(r) == [r EXCEPT !.force = TRUE]
Up(v) == [Call0("upgrade") EXCEPT !.ver = v]
Down(v) == [Up(v) EXCEPT !.confirm = TRUE]

(* Calls on a service that exists: redeployments, with another hostname or *)
(* a newer image, upgrades and downgrades, and the three state changes.    *)
ServingRequests ==
  {Put(1, d2), Put(2, d1), Up(2), Down(1),
   Call0("suspend"), Call0("resume"), Call0("terminate")}

(* A whole life, from the first Provision to Delete.                       *)
LifeRequests ==
  {Put(1, d1), Put(2, d1), Call0("suspend"), Call0("resume"),
   Call0("terminate"), Call0("delete")}

(* The same, and a hostname change.                                        *)
ProgressRequests == LifeRequests \union {Put(1, d2)}

(* Services at rest, as earlier operations leave them.                     *)
At1(state, phase) ==
  [NoRec EXCEPT !.state = state, !.phase = phase, !.ver = 1, !.dom = d1]

Runs(up, ok) ==
  [s \in Slots |-> IF s = "blue" THEN [up |-> up, ver |-> 1, ok |-> ok] ELSE NoCtr]

AtRest ==
  /\ tomb = "none"
  /\ health = [seq |-> 0, cur |-> 0]
  /\ disk = [dataset |-> TRUE, dir |-> TRUE]
  /\ th = [t \in Threads |-> Idle]
  /\ requests = MaxRequests
  /\ faults = MaxFaults
  /\ \/ /\ rec = At1("active", "running")
        /\ ctr = Runs("running", TRUE) /\ route = Proxy("blue", d1)
     \/ /\ rec = At1("suspended", "stopped")
        /\ ctr = Runs("stopped", FALSE) /\ route = Page(d1)
     \/ /\ rec = At1("terminated", "stopped")
        /\ ctr = [s \in Slots |-> NoCtr] /\ route = NoRoute

RestSpec == AtRest /\ [][Next]_vars

RestFairSpec == (AtRest \/ Init) /\ [][Next]_vars /\ Fairness

=============================================================================
