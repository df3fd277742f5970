------------------------------ MODULE MCMatomo ------------------------------
(* A small instance of Matomo.                                             *)
EXTENDS Matomo

CONSTANTS k1, k2, k3, k4, k5, k6, t1, t2  \* keys and requests

=============================================================================
