-------------------------- MODULE LifecycleRecord --------------------------
(* Lifecycle implements ServiceLife.                                       *)
EXTENDS Lifecycle

Stage ==
  [provisioning |-> "begun", starting |-> "begun", stopping |-> "begun",
   deleting |-> "begun", waiting_for_health |-> "waiting", routing |-> "ending",
   draining |-> "ending", running |-> "running", stopped |-> "stopped",
   failed |-> "failed"]

(* The record as it is seen from outside.  A service with a tombstone is   *)
(* gone, whatever else there may be under its ID.                          *)
Seen ==
  IF tomb # "none" \/ rec = NoRec
    THEN [state |-> "absent", phase |-> "absent", op |-> "", ver |-> 0, tver |-> 0]
    ELSE [state |-> rec.state, phase |-> Stage[rec.phase], op |-> rec.op,
          ver |-> rec.ver, tver |-> rec.tver]

Promise == INSTANCE ServiceLife WITH service <- Seen

(* Whatever overlaps, fails or restarts, the record goes only where        *)
(* ServiceRecord lets it: operations are taken over nowhere but at rest or *)
(* while waiting for a health check, a deployment ends in the version it   *)
(* was begun with and only after that wait, and a failed operation keeps   *)
(* what a retry needs (container-runtime.md:43-50, 344).                   *)
KeepsPromise == Promise!Spec

=============================================================================
