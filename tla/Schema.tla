------------------------------- MODULE Schema -------------------------------
(***************************************************************************)
(* What every part of the store agrees on: the declared types (tables),    *)
(* the ids a row can be stored under, the index columns copied next to the *)
(* blob, the uniqueness groups a type declares with unique(...), and the   *)
(* filters and guards that select rows.                                    *)
(*                                                                         *)
(* A blob is not represented: a row is its index cells.                    *)
(***************************************************************************)
EXTENDS Integers, Sequences

CONSTANTS
    Tables,     \* Persistent::TABLE of every declared type
    Keys,       \* stored keys: one per (table, id)
    TableOf,    \* the table a key belongs to
    HighIds,    \* keys whose id starts with the byte 0xff
    Cols,       \* index columns
    Vals,       \* index cells, as written by Persistent::index_values
    Empty,      \* the cell "", what a missing cell reads as in a unique key
    Missing,    \* no cell: the row was saved before its column existed
    NoRow,      \* no row under this key
    Groups,     \* uniqueness groups: [table |-> t, cols |-> set of columns]
    NumOf,      \* parse::<i64>().unwrap_or(0) of a cell
    MaxBatch    \* the longest batch considered

ASSUME SchemaAssumption ==
    /\ TableOf \in [Keys -> Tables]
    /\ HighIds \subseteq Keys
    /\ Empty \in Vals
    /\ Missing \notin Vals
    /\ NoRow \notin [Cols -> Vals \cup {Missing}] \cup Keys
    /\ Groups \subseteq [table : Tables, cols : SUBSET Cols]
    /\ NumOf \in [Vals -> Int]
    /\ MaxBatch \in Nat

-----------------------------------------------------------------------------
(* What the running version writes, and what a row on disk may hold.       *)
Rows   == [Cols -> Vals]
Stored == [Cols -> Vals \cup {Missing}]

Contents == [Keys -> Stored \cup {NoRow}]

Present(kv) == {k \in Keys : kv[k] # NoRow}

KeysOf(t) == {k \in Keys : TableOf[k] = t}

(***************************************************************************)
(* The keys a range scan of table t visits.  The range ends at the table   *)
(* prefix followed by the single byte 0xff, so an id that starts with that *)
(* byte lies beyond it.                                                    *)
(***************************************************************************)
InRange(t) == KeysOf(t) \ HighIds

-----------------------------------------------------------------------------
(* Uniqueness groups.                                                      *)

GroupsOf(t) == {g \in Groups : g.table = t}

Cell(row, c) == IF row[c] = Missing THEN Empty ELSE row[c]

(* The key a row claims for one group: the group and the row's cells.      *)
UniqueKey(g, row) == [group |-> g, vals |-> [c \in g.cols |-> Cell(row, c)]]

Claims(t, row) == {UniqueKey(g, row) : g \in GroupsOf(t)}

UniqueKeys == UNION {[group : {g}, vals : [g.cols -> Vals]] : g \in Groups}

(* Some row other than k already holds a value that row claims.            *)
Clashes(kv, k, row) ==
    \E other \in Present(kv) \ {k} :
        /\ TableOf[other] = TableOf[k]
        /\ Claims(TableOf[k], row) \cap Claims(TableOf[k], kv[other]) # {}

-----------------------------------------------------------------------------
(* Filters: each filtered column with the values it accepts.               *)

Filters   == UNION {[D -> SUBSET Vals] : D \in SUBSET Cols}
EqFilters == UNION {[D -> {{v} : v \in Vals}] : D \in SUBSET Cols}

Matches(row, filters) == \A c \in DOMAIN filters : row[c] \in filters[c]

Matching(kv, t, filters) ==
    {k \in InRange(t) : kv[k] # NoRow /\ Matches(kv[k], filters)}

(***************************************************************************)
(* A sequence guard blocks when a row of the partition carries the guarded *)
(* number or a larger one.                                                 *)
(***************************************************************************)
Blocked(kv, t, partition, col, n) ==
    \E k \in Matching(kv, t, partition) :
        kv[k][col] # Missing /\ NumOf[kv[k][col]] >= n

-----------------------------------------------------------------------------
(* Batches: entries in the order they were added, for any mix of tables.   *)

Entries == [key : Keys, row : Rows]
Batches == UNION {[1..n -> Entries] : n \in 0..MaxBatch}

Touches(batch) == {TableOf[batch[i].key] : i \in DOMAIN batch}

(* The contents after the first n entries: the last of them for a key wins. *)
After(kv, batch, n) ==
    [k \in Keys |->
        LET hits == {i \in 1..n : batch[i].key = k}
        IN  IF hits = {} THEN kv[k]
            ELSE batch[CHOOSE i \in hits : \A j \in hits : j <= i].row]

(* Entry n finds its values free, given the entries before it.             *)
EntryLands(kv, batch, n) ==
    ~ Clashes(After(kv, batch, n - 1), batch[n].key, batch[n].row)

Lands(kv, batch) == \A n \in 1..Len(batch) : EntryLands(kv, batch, n)

(* How an operation ends, as its caller sees it.                           *)
Outcomes == {"none", "ok", "conflict", "landed", "rejected", "committed", "failed"}
=============================================================================
