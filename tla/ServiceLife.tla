---------------------------- MODULE ServiceLife ----------------------------
(* The life of one service as ServiceRecord promises it: what Lifecycle    *)
(* implements.                                                             *)
EXTENDS ServiceRecord

VARIABLE service

Init == service = Gone
Next == service' \in Successors(service)
Spec == Init /\ [][Next]_service

=============================================================================
