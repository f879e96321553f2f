---------------------------- MODULE UniqueTable ----------------------------
(***************************************************************************)
(* What the crate promises of a table with unique(...) groups, whatever    *)
(* the backend: a write lands as a whole or not at all, it is refused      *)
(* exactly when it would overwrite what it must not or claim a value       *)
(* another row holds, and rows disappear only when they are deleted.       *)
(* There is no secondary index here: a collision is a fact about rows.     *)
(***************************************************************************)
EXTENDS Schema

VARIABLES
    rows,       \* the contents every reader sees
    outcome     \* how the last operation to end has ended

vars == <<rows, outcome>>

-----------------------------------------------------------------------------
Init == rows = [k \in Keys |-> NoRow] /\ outcome = "none"

TypeOK == rows \in Contents /\ outcome \in Outcomes

(* save: inserts or overwrites.                                            *)
Put(k, row) ==
    IF ~ Clashes(rows, k, row)
      THEN rows' = [rows EXCEPT ![k] = row] /\ outcome' = "ok"
      ELSE rows' = rows /\ outcome' = "conflict"

(* save_batch: every entry, one after the other, or none.                  *)
PutAll(batch) ==
    IF Lands(rows, batch)
      THEN rows' = After(rows, batch, Len(batch)) /\ outcome' = "ok"
      ELSE rows' = rows /\ outcome' = "conflict"

(* insert: as save, and refused over an existing row.                      *)
Create(k, row) ==
    IF rows[k] = NoRow /\ ~ Clashes(rows, k, row)
      THEN rows' = [rows EXCEPT ![k] = row] /\ outcome' = "ok"
      ELSE rows' = rows /\ outcome' = "conflict"

(* insert_guarded: as save, and refused when the guard blocks.  The        *)
(* backends differ over an existing row: it may be replaced or refused.    *)
CreateGuarded(k, row, partition, col) ==
    LET free == /\ ~ Blocked(rows, TableOf[k], partition, col, NumOf[row[col]])
                /\ ~ Clashes(rows, k, row)
    IN  \/ free /\ rows' = [rows EXCEPT ![k] = row] /\ outcome' = "landed"
        \/ (~ free \/ rows[k] # NoRow) /\ rows' = rows /\ outcome' = "rejected"

(* Store::transaction: any change at once that leaves no collision.        *)
Transact ==
    /\ rows' \in Contents
    /\ \A k \in Present(rows') : ~ Clashes(rows', k, rows'[k])
    /\ outcome' = "committed"

(* An operation the storage refuses changes nothing.                       *)
Fail == rows' = rows /\ outcome' = "failed"

(* Every delete; replace_where deletes before it ends.                     *)
Remove(doomed) ==
    /\ rows' = [k \in Keys |-> IF k \in doomed THEN NoRow ELSE rows[k]]
    /\ outcome' \in {outcome, "ok"}

Next ==
    \/ \E doomed \in SUBSET Keys : Remove(doomed)
    \/ Fail
    \/ \E k \in Keys, row \in Rows : Put(k, row) \/ Create(k, row)
    \/ \E k \in Keys, row \in Rows, p \in EqFilters, c \in Cols :
            CreateGuarded(k, row, p, c)
    \/ \E batch \in Batches : PutAll(batch)
    \/ Transact

Spec == Init /\ [][Next]_vars
=============================================================================
