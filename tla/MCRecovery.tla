------------------------------ MODULE MCRecovery ------------------------------
(* Two deliveries open the issue, a comment commands it, two markers.         *)
EXTENDS Recovery, TLC

CONSTANTS s1, s2, c1, c2, m1, m2

Alike == Permutations({s1, s2}) \cup Permutations({c1, c2}) \cup Permutations({m1, m2})

===============================================================================
