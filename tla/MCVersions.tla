---------------------------- MODULE MCVersions ----------------------------
(* Small instances of Versions for TLC.                                    *)
EXTENDS Versions, TLC

CONSTANTS r1, r2, one, two, f, g, g_json, id, v, saved_at

MCText == (one :> "1") @@ (two :> "2")
MCJson == (one :> "'1'") @@ (two :> "'2'")
MCJsonName == [n \in {f, g, g_json, id, v, saved_at} |-> IF n = g THEN g_json ELSE n]

Decl(fields, json, index, unique) ==
    [fields |-> fields, json |-> json, index |-> index, unique |-> unique]

(* The first version, and what may become of it: a field appended, unique  *)
(* groups, an index given up, JSON, a rename; and the declarations that    *)
(* the macro takes or refuses although no table can be made for them.      *)
MCCandidates == {
    Decl(<<f>>, {}, {f}, << >>),
    Decl(<<f, g>>, {}, {f, g}, << >>),
    Decl(<<f, g>>, {}, {}, <<{f}, {f, g}>>),
    Decl(<<f, g>>, {g}, {}, <<{f, g}>>),
    Decl(<<f, g>>, {}, {}, <<{g, g_json}>>),
    Decl(<<g, g_json>>, {g}, {g_json}, << >>),
    Decl(<<v>>, {}, {v}, << >>),
    Decl(<<id>>, {}, {id}, << >>)}

(* SQLite with the codec that reads a part of a blob, Postgres with the    *)
(* other.                                                                  *)
MCStores == {<<"sqlite", "postcard">>, <<"postgres", "bitcode">>}

Symmetry == Permutations(Ids)
=============================================================================
