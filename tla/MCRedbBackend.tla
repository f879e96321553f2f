--------------------------- MODULE MCRedbBackend ---------------------------
(* Small instances of RedbBackend for TLC.                                 *)
EXTENDS RedbBackend, TLC

CONSTANTS c1, c2, a1, a2, b1, A, B, x, y, zero, one

(* Two tables, each with a group on the one column; the id of a2 starts    *)
(* with 0xff, so no scan of A visits it.                                   *)
MCTableOf == (a1 :> A) @@ (a2 :> A) @@ (b1 :> B)
MCGroups == {[table |-> A, cols |-> {x}], [table |-> B, cols |-> {x}]}

(* One table with a group on each of two columns.                          *)
MCOneTable == (a1 :> A) @@ (a2 :> A)
MCOneTableGroups == {[table |-> A, cols |-> {x}], [table |-> A, cols |-> {y}]}

MCNumOf == (zero :> 0) @@ (one :> 1)

(* No definition tells the clients apart.                                  *)
Symmetry == Permutations(Clients)
=============================================================================
