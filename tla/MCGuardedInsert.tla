-------------------------- MODULE MCGuardedInsert --------------------------
(* Small instances of GuardedInsert for TLC.                               *)
EXTENDS GuardedInsert, TLC

CONSTANTS w1, w2, w3, i1, i2, i3, p, q

(* No definition tells writers, ids or partitions apart.                   *)
Symmetry == Permutations(Writers) \cup Permutations(Ids) \cup Permutations(Parts)
=============================================================================
