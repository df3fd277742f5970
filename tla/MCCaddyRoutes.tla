--------------------------- MODULE MCCaddyRoutes ---------------------------
(* A small instance of CaddyRoutes.                                        *)
EXTENDS CaddyRoutes, TLC

CONSTANTS s1, s2, h1, h2  \* services and hostnames

(* Two names that are asked for by themselves.                             *)
OneName == {{h1}, {h2}}

Symmetry == Permutations(Services) \union Permutations({h1, h2})

=============================================================================
