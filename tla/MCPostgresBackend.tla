------------------------- MODULE MCPostgresBackend -------------------------
(* Small instances of PostgresBackend for TLC.                             *)
EXTENDS PostgresBackend, TLC

CONSTANTS c1, c2, p1, p2, a1, a2, A, x, zero, one

MCProcOf == (c1 :> p1) @@ (c2 :> p2)
MCTableOf == (a1 :> A) @@ (a2 :> A)
MCNumOf == [v \in Vals |-> IF v = one THEN 1 ELSE 0]

MCIndexName == [g \in Groups |-> g]
MCOneGroup == {[table |-> A, cols |-> {x}]}

Symmetry == Permutations(Keys)
=============================================================================
