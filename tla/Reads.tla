------------------------------- MODULE Reads -------------------------------
(***************************************************************************)
(* Reading one type: a row is a blob, decoded one by one in the shape of   *)
(* the running version or through the type's upgrade function, and index   *)
(* cells beside it, which filters, orders, counts and projections use      *)
(* without looking at the blob.                                            *)
(*                                                                         *)
(* redb answers a query in memory; SQLite and Postgres are asked in SQL,   *)
(* which leaves the order of equal rows open (external).  Ids are numbers, *)
(* in the order of redb's keys.                                            *)
(***************************************************************************)
EXTENDS Integers, FiniteSets, Sequences, SequencesExt

CONSTANTS
    MaxId,      \* bound: ids are 1..MaxId
    Cols,       \* the fields of the type, all of them indexed
    NewCols,    \* fields that an older version of the type lacked
    Vals,       \* values of a field, as index cells
    Empty,      \* the cell ""
    Missing,    \* no cell; in a blob, no such field
    Default,    \* what the upgrade function gives a new field
    NoRow,      \* no row under this id
    NoLimit,    \* a query without a limit
    Unreadable, \* a blob that decodes neither way
    Rank,       \* the place of a cell in the order of texts
    NumRead,    \* how each engine reads a cell as a number
    StoreCodec, \* the codec of the store: "bitcode", "postcard" or "json"
    MaxOrders,  \* bound: order_by's of a query
    Limits      \* bound: the limits considered

Engines == {"redb", "sqlite", "postgres"}
Orders == {"Asc", "Desc", "NumAsc", "NumDesc"}
Codecs == {"bitcode", "postcard", "json"}

ASSUME ReadsAssumption ==
    /\ MaxId \in Nat /\ MaxOrders \in Nat
    /\ NewCols \subseteq Cols
    /\ Default \in Vals /\ Missing \notin Vals
    /\ Unreadable \notin [Cols -> Vals]
    /\ Rank \in [Vals -> Nat]
    /\ NumRead \in [Engines -> [Vals -> Int]]
    /\ StoreCodec \in Codecs
    /\ Limits \subseteq Nat \cup {NoLimit}

VARIABLE kv     \* the stored rows

Ids  == 1..MaxId
Rows == [Cols -> Vals]

(* What the older version knows of a row.                                  *)
Old(row) == [c \in Cols |-> IF c \in NewCols THEN Missing ELSE row[c]]
Shapes   == Rows \cup {Old(row) : row \in Rows}

Blob(codec, row) == [codec |-> codec, row |-> row]
Stored(cells, blob) == [cells |-> cells, blob |-> blob]

TypeOK ==
    kv \in [Ids -> [cells : Shapes, blob : [codec : Codecs, row : Shapes]] \cup {NoRow}]

-----------------------------------------------------------------------------
(* codec.rs: decoding one row.                                             *)

(* A blob decodes in the shape it was written in.  A codec that names the  *)
(* fields also reads a longer blob as a shorter shape, and so does         *)
(* postcard, which leaves what follows.  No blob tells its codec: that one *)
(* of another codec decodes is not impossible, only improbable, and here   *)
(* it does not.                                                            *)
AsCurrent(blob) ==
    IF blob.codec = StoreCodec /\ blob.row \in Rows THEN blob.row ELSE Unreadable

AsOld(blob) ==
    IF blob.codec = StoreCodec /\ (StoreCodec # "bitcode" \/ blob.row = Old(blob.row))
      THEN Old(blob.row) ELSE Unreadable

Upgrade(blob) ==
    IF AsOld(blob) = Unreadable THEN Unreadable
    ELSE [c \in Cols |-> IF c \in NewCols THEN Default ELSE blob.row[c]]

(* Faulty variant of DecodeRow: the upgrade function is asked first.       *)
DecodeRowUpgradeFirst(blob) ==
    IF Upgrade(blob) # Unreadable THEN Upgrade(blob) ELSE AsCurrent(blob)

DecodeRow(blob) ==
    IF AsCurrent(blob) # Unreadable THEN AsCurrent(blob) ELSE Upgrade(blob)

-----------------------------------------------------------------------------
(* Writes: save and its kin put the cells and the blob of one value.       *)

Save(id, row) == kv' = [kv EXCEPT ![id] = Stored(row, Blob(StoreCodec, row))]

(* StoreBatch::new() encodes in bitcode, whatever the codec of the store.  *)
SaveBatch(id, row) == kv' = [kv EXCEPT ![id] = Stored(row, Blob("bitcode", row))]

(* Faulty variant of Update: the cells of the columns it does not change   *)
(* are left as they are.                                                   *)
UpdateOneCell(id, col, val) ==
    LET value == DecodeRow(kv[id].blob)
        new   == [value EXCEPT ![col] = val]
    IN  /\ kv[id] # NoRow /\ value # Unreadable
        /\ kv' = [kv EXCEPT ![id] = Stored([kv[id].cells EXCEPT ![col] = val],
                                           Blob(StoreCodec, new))]

(* Store::update, and a migration: what was read is saved again, whole.    *)
Update(id, col, val) ==
    /\ kv[id] # NoRow
    /\ DecodeRow(kv[id].blob) # Unreadable
    /\ Save(id, [DecodeRow(kv[id].blob) EXCEPT ![col] = val])

(* Faulty variant of Delete: the cells stay behind.                        *)
DeleteBlob(id) ==
    kv' = [kv EXCEPT ![id] = IF @ = NoRow THEN NoRow ELSE Stored(@.cells, NoRow)]

Delete(id) == kv' = [kv EXCEPT ![id] = NoRow]

(* Rows that the older version saved, or none.                             *)
Init == kv \in [Ids -> {Stored(Old(row), Blob(StoreCodec, Old(row))) : row \in Rows} \cup {NoRow}]

Next == \E id \in Ids :
    \/ \E row \in Rows : Save(id, row) \/ SaveBatch(id, row)
    \/ \E col \in Cols, val \in Vals : Update(id, col, val)
    \/ Delete(id)

Spec == Init /\ [][Next]_kv

-----------------------------------------------------------------------------
(* Queries.                                                                *)

Conditions == [kind : {"Eq"}, col : Cols, vals : {{v} : v \in Vals}]
              \cup [kind : {"In"}, col : Cols, vals : SUBSET (Vals \cup {Empty}) \ {{}}]

Query(filters, order, limit) == [filters |-> filters, order |-> order, limit |-> limit]

Keys == [col : Cols, dir : Orders]
OrderBys == UNION {[1..n -> Keys] : n \in 0..MaxOrders}

Cell(id, col) == kv[id].cells[col]

(* The elements of s that are in S, in the order of s.                     *)
Filtered(s, S) ==
    LET f[n \in 0..Len(s)] == IF n = 0 THEN << >>
                              ELSE IF s[n] \in S THEN Append(f[n - 1], s[n]) ELSE f[n - 1]
    IN  f[Len(s)]

Scan == Filtered([n \in Ids |-> n], {id \in Ids : kv[id] # NoRow})

Matches(id, filters) == \A f \in filters : Cell(id, f.col) \in f.vals

(* Where an engine sorts a cell: redb by Order::compare, a missing cell    *)
(* first, or as 0; SQLite has NULL first; Postgres has it last, and reads  *)
(* it as 0.                                                                *)
Lowest == -1000000
Highest == 1000000

Place(engine, dir, cell) ==
    LET up == CASE dir \in {"Asc", "Desc"} /\ cell # Missing -> Rank[cell]
                [] dir \in {"Asc", "Desc"} /\ cell = Missing ->
                        IF engine = "postgres" THEN Highest ELSE Lowest
                [] dir \in {"NumAsc", "NumDesc"} /\ cell # Missing -> NumRead[engine][cell]
                [] dir \in {"NumAsc", "NumDesc"} /\ cell = Missing ->
                        IF engine = "sqlite" THEN Lowest ELSE 0
    IN  IF dir \in {"Desc", "NumDesc"} THEN - up ELSE up

PlaceOf(engine, key, id) == Place(engine, key.dir, Cell(id, key.col))

(* sort_by is stable.                                                      *)
SortBy(ids, key) ==
    LET At(n) == PlaceOf("redb", key, ids[n])
        Pos(n) == Cardinality({m \in DOMAIN ids : At(m) < At(n) \/ (At(m) = At(n) /\ m <= n)})
    IN  [p \in DOMAIN ids |-> ids[CHOOSE n \in DOMAIN ids : Pos(n) = p]]

(* Faulty variant of Sorted: the keys are taken in the order given.        *)
SortedForwards(ids, order) ==
    LET by[n \in 0..Len(order)] == IF n = 0 THEN ids ELSE SortBy(by[n - 1], order[n])
    IN  by[Len(order)]

(* One sort for every key, the last key first; by[n] has the last n keys.  *)
Sorted(ids, order) ==
    LET by[n \in 0..Len(order)] ==
            IF n = 0 THEN ids ELSE SortBy(by[n - 1], order[Len(order) - n + 1])
    IN  by[Len(order)]

Truncated(ids, limit) ==
    IF limit # NoLimit /\ limit < Len(ids) THEN SubSeq(ids, 1, limit) ELSE ids

(* What redb answers: the rows in order, before they are decoded.          *)
Answer(q) ==
    LET found == Filtered(Scan, {id \in ToSet(Scan) : Matches(id, q.filters)})
    IN  Truncated(Sorted(found, q.order), q.limit)

Values(q) == [n \in DOMAIN Answer(q) |-> DecodeRow(kv[Answer(q)[n]].blob)]

(* Faulty variant of AllDecodable: it stops at a row that does not decode. *)
AllDecodableUpTo(q) ==
    LET bad  == {n \in DOMAIN Values(q) : Values(q)[n] = Unreadable}
        stop == CHOOSE n \in bad : \A m \in bad : n <= m
    IN  IF bad = {} THEN [rows |-> Values(q), skipped |-> 0]
        ELSE [rows |-> SubSeq(Values(q), 1, stop - 1), skipped |-> 1]

(* all_decodable(): they are left out, and counted.                        *)
AllDecodable(q) ==
    [rows |-> Filtered(Values(q), ToSet(Values(q)) \ {Unreadable}),
     skipped |-> Cardinality({n \in DOMAIN Values(q) : Values(q)[n] = Unreadable})]

(* count(): no order and no limit, and an IN takes a missing cell for "".  *)
CountMatches(id, filters) ==
    \A f \in filters :
        (IF f.kind = "In" /\ Cell(id, f.col) = Missing THEN Empty ELSE Cell(id, f.col)) \in f.vals

Count(q) == Cardinality({n \in DOMAIN Scan : CountMatches(Scan[n], q.filters)})

(* count_grouped_by(): rows without the cell are in no group.              *)
GroupedBy(col) ==
    LET InGroup(v) == {id \in Ids : kv[id] # NoRow /\ Cell(id, col) = v}
    IN  [v \in {v \in Vals : InGroup(v) # {}} |-> Cardinality(InGroup(v))]

-----------------------------------------------------------------------------
(* SQL: what a SELECT with these clauses may answer.                       *)

Selected(q) == {id \in Ids : kv[id] # NoRow /\ Matches(id, q.filters)}

(* Some key tells id from other, and the first that does puts it before.   *)
Before(engine, order, id, other) ==
    \E n \in DOMAIN order :
        /\ PlaceOf(engine, order[n], id) < PlaceOf(engine, order[n], other)
        /\ \A m \in 1..(n - 1) :
            PlaceOf(engine, order[m], id) = PlaceOf(engine, order[m], other)

Allowed(engine, q, ids) ==
    /\ ToSet(ids) \subseteq Selected(q)
    /\ \A n, m \in DOMAIN ids : n < m =>
        ids[n] # ids[m] /\ ~ Before(engine, q.order, ids[m], ids[n])
    /\ IF q.limit # NoLimit /\ q.limit < Cardinality(Selected(q))
         THEN /\ Len(ids) = q.limit
              /\ \A id \in Selected(q) \ ToSet(ids) : \A n \in DOMAIN ids :
                    ~ Before(engine, q.order, id, ids[n])
         ELSE Len(ids) = Cardinality(Selected(q))

-----------------------------------------------------------------------------
(* Properties.                                                             *)

(***************************************************************************)
(* Every backend gives the same answer where it reads the cells as redb    *)
(* does: redb's, sorted once for every key, is one that a SQL engine may   *)
(* give for the same query, its first rows included.                       *)
(***************************************************************************)
ReadAlike(engine, q) ==
    \A id \in Selected(q), n \in DOMAIN q.order :
        PlaceOf(engine, q.order[n], id) = PlaceOf("redb", q.order[n], id)

OrderedAsInSql ==
    \A order \in OrderBys, limit \in Limits :
        LET q   == Query({}, order, limit)
            ids == Answer(q)
        IN  \A engine \in {"sqlite", "postgres"} :
                ReadAlike(engine, q) => Allowed(engine, q, ids)

(***************************************************************************)
(* Three ways of counting agree: count, the rows that all_decodable        *)
(* returns and skips, and count_grouped_by; count ignores a limit.  An IN  *)
(* that asks for "" is left out: redb's count takes a missing cell for it. *)
(***************************************************************************)
CountsAgree ==
    /\ \A f \in Conditions, limit \in Limits :
        Empty \notin f.vals \/ f.kind = "Eq" =>
            LET d == AllDecodable(Query({f}, << >>, NoLimit))
            IN  Count(Query({f}, << >>, limit)) = Len(d.rows) + d.skipped
    /\ \A col \in Cols : \A v \in DOMAIN GroupedBy(col) :
        GroupedBy(col)[v] =
            Count(Query({[kind |-> "Eq", col |-> col, vals |-> {v}]}, << >>, NoLimit))

(***************************************************************************)
(* A value that is read carries the cells it was found by, whichever way   *)
(* it was decoded: a row that a filter or an order selected by a cell does *)
(* not turn out to have another value there.                               *)
(***************************************************************************)
CellsTellTheValue ==
    \A id \in Ids : kv[id] # NoRow =>
        LET value == DecodeRow(kv[id].blob)
        IN  value # Unreadable =>
                \A col \in Cols : Cell(id, col) \in {value[col], Missing}

(***************************************************************************)
(* A row that was updated is found by every value it shows: the update     *)
(* gives an older row the cells it lacked.                                 *)
(***************************************************************************)
UpdatedRowsAreFound ==
    [][\A id \in Ids, col \in Cols, val \in Vals : Update(id, col, val) =>
        LET value == DecodeRow(kv'[id].blob)
        IN  value # Unreadable /\ \A c \in Cols : kv'[id].cells[c] = value[c]]_kv
=============================================================================
