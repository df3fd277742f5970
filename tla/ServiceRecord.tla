--------------------------- MODULE ServiceRecord ---------------------------
(***************************************************************************)
(* What the record of a service promises to whoever reads it: which calls  *)
(* may take a service over from where, and what may become of it then.     *)
(* The phases of model.Service in groups (running, stopped and failed      *)
(* stand for themselves):                                                  *)
(*   begun    provisioning, starting, stopping, deleting: nobody else may  *)
(*            begin anything                                               *)
(*   waiting  waiting_for_health: some calls may                           *)
(*   ending   routing, draining: nobody may                                *)
(* A record here is its state, phase, operation, version and target version*)
(***************************************************************************)
CONSTANT Versions

Deploys == {"provision", "upgrade", "resume"}
StateChanges == {"suspended", "terminated"}

Gone == [state |-> "absent", phase |-> "absent", op |-> "", ver |-> 0, tver |-> 0]

Free(s) == s.phase \in {"running", "stopped", "failed"}

(* A Provision or Resume whose place another deployment may take.          *)
Pending(s) == s.phase \in {"waiting", "failed"} /\ s.op \in {"provision", "resume"}

Maybe(may, s) == IF may THEN {s} ELSE {}

-----------------------------------------------------------------------------
(* Calls *)

Begun(s, op, v) == [s EXCEPT !.phase = "begun", !.op = op, !.tver = v]

Created(v) == Begun([Gone EXCEPT !.state = "active", !.ver = v], "provision", v)

MayProvision(s) ==
  s.phase = "stopped" \/ (s.phase = "failed" /\ s.op = "provision")

MayUpgrade(s) ==
  /\ s.state = "active" \/ Pending(s)
  /\ Free(s) \/ s.phase = "waiting"
  /\ s.phase = "failed" => s.op = "upgrade" \/ Pending(s)

Upgraded(s, v) == Begun(s, IF Pending(s) THEN s.op ELSE "upgrade", v)

MayResume(s) == s.state \in StateChanges /\ Free(s)

MayChangeTo(s, target) ==
  /\ Free(s) \/ s.phase = "waiting"
  /\ ~(s.state = target /\ s.phase = "stopped")
  /\ target = "suspended" =>
       s.state # "terminated" \/ (s.op = "resume" /\ s.phase = "waiting")

MayDelete(s) == s.state = "terminated" /\ Free(s)

(* The records a call may leave behind when it takes the service over.     *)
Claims(s) ==
  IF s = Gone THEN {Created(v) : v \in Versions}
  ELSE Maybe(MayProvision(s), Begun(s, "provision", s.ver))
    \union {Upgraded(s, v) : v \in {w \in Versions : MayUpgrade(s)}}
    \union Maybe(MayResume(s), Begun(s, "resume", s.ver))
    \union {Begun(s, x, s.tver) : x \in {y \in StateChanges : MayChangeTo(s, y)}}
    \union Maybe(MayDelete(s), Begun(s, "delete", s.tver))

(* A terminated service may be given another version to resume with.       *)
Retargets(s) ==
  {[s EXCEPT !.ver = v] :
     v \in {w \in Versions : s.state = "terminated" /\ s.phase = "stopped"}}

-----------------------------------------------------------------------------
(* What becomes of an operation *)

Continues(s) ==
  Maybe(s.phase = "begun" /\ s.op \in Deploys, [s EXCEPT !.phase = "waiting"])
  \union Maybe(s.phase = "waiting", [s EXCEPT !.phase = "ending"])
  \union Maybe(s.phase = "begun" /\ s.op \in StateChanges,
               [s EXCEPT !.phase = "ending", !.state = s.op])

Succeeds(s) ==
  Maybe(s.phase = "ending" /\ s.op \in Deploys,
        [state |-> "active", phase |-> "running", op |-> "",
         ver |-> s.tver, tver |-> 0])
  \union Maybe(s.phase = "ending" /\ s.op \in StateChanges,
               [s EXCEPT !.phase = "stopped", !.op = "", !.tver = 0])
  \union Maybe(s.phase = "begun" /\ s.op = "delete", Gone)

(* A failure keeps operation and versions for the retry; a Suspend or      *)
(* Terminate may already have changed the state.                           *)
FailsAs(s) ==
  {[s EXCEPT !.phase = "failed", !.state = x] :
     x \in IF s.phase = "begun" /\ s.op \in StateChanges
             THEN {s.state, s.op} ELSE {s.state}}
Fails(s) == IF Free(s) \/ s = Gone THEN {} ELSE FailsAs(s)

Successors(s) ==
  Claims(s) \union Retargets(s) \union Continues(s) \union Succeeds(s) \union Fails(s)

=============================================================================
