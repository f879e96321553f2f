------------------------------ MODULE MCReads ------------------------------
(* Small instances of Reads for TLC.                                       *)
EXTENDS Reads, TLC

CONSTANTS x, y, two, odd

(* The cells "2" and "3x"; as texts "2" < "3x".                            *)
MCRank == (two :> 1) @@ (odd :> 2)

(* SQLite casts the digits that a text begins with.                        *)
MCNumRead == [e \in Engines |->
    (two :> 2) @@ (odd :> IF e = "sqlite" THEN 3 ELSE 0)]
=============================================================================
