-------------------------- MODULE MCSqliteBackend --------------------------
(* Small instances of SqliteBackend for TLC.                               *)
EXTENDS SqliteBackend, TLC

CONSTANTS c1, c2, a1, a2, b1, A, B, x, y, zero, one

MCTableOf == (a1 :> A) @@ (a2 :> A) @@ (b1 :> B)
MCSingle == (a1 :> A)
MCOneTable == (a1 :> A) @@ (a2 :> A)
MCNumOf == (zero :> 0) @@ (one :> 1)

MCOneGroup == {[table |-> A, cols |-> {x}]}

(* Every group has a name of its own.                                      *)
MCIndexName == [g \in Groups |-> g]

Symmetry == Permutations(Clients) \cup Permutations(Keys)
=============================================================================
