--------------------------- MODULE MCBulkUpgrade ---------------------------
(* Small instances of BulkUpgrade.                                          *)
EXTENDS BulkUpgrade

CONSTANTS s1, s2  \* services

Bulk(ids, v, confirm) == [ids |-> ids, ver |-> v, confirm |-> confirm]

(* Both services, and the first one back again, retargeted or once more.   *)
TwoRequests == {Bulk(<<s1, s2>>, 2, FALSE), Bulk(<<s1>>, 1, TRUE)}

OneRequest == {Bulk(<<s1, s2>>, 2, FALSE)}

(* All services run version 1.                                              *)
InitAt1 == Init /\ \A i \in Services : service[i].ver = 1

RestSpec == InitAt1 /\ [][Next]_vars /\ Fairness

=============================================================================
