----------------------------- MODULE MCDnsSync -----------------------------
(* Small instances of DnsSync.                                             *)
EXTENDS DnsSync

CONSTANTS a, b, s1, s2  \* domains and services

(* Anything is asked of the first service; the second one only reconnects. *)
AnyCall == {"deploy", "rename", "stop", "reconnect"}
MostlyTheFirst == [s \in Services |-> IF s = s1 THEN AnyCall ELSE {"reconnect"}]

(* Only the hostname of the first service is changed.                      *)
OneIsRenamed == [s \in Services |-> IF s = s1 THEN {"rename"} ELSE {}]

(* The first service runs, or is new; a second one serves b.               *)
InitServing ==
  Init /\ rec[s1].phase # "stopped" /\ \A s \in Services \ {s1} : rec[s] = Serving(b)

MCSpec == InitServing /\ [][Next]_vars /\ Fairness

=============================================================================
