------------------------------ MODULE Versions ------------------------------
(***************************************************************************)
(* The life of one table through the versions of its type.  The macro      *)
(* turns a declaration into index columns, cells and unique groups; the    *)
(* first use of the type by a process brings the SQL table up to them;     *)
(* nothing that an earlier version made is ever taken away, and a save     *)
(* writes the columns that its own version knows.                          *)
(*                                                                         *)
(* One process at a time, and statements that find the database free: the  *)
(* races are in SqliteBackend and PostgresBackend.                         *)
(*                                                                         *)
(* The engines (external) differ in what a name is that is no column: it   *)
(* is an error on Postgres, and a string on SQLite as sqlx bundles it      *)
(* (SQLITE_DQS = 3), the same in every row; and in a statement that names  *)
(* a column twice: an error on Postgres, the first of the two on SQLite.   *)
(***************************************************************************)
EXTENDS Integers, FiniteSets, Sequences, SequencesExt

CONSTANTS
    Ids,        \* row ids
    Vals,       \* values of a field
    Text,       \* what a value displays as
    Json,       \* what a value reads in JSON
    Names,      \* names of fields and columns
    IdName,     \* the name "id"
    Fixed,      \* the names of the columns every table has
    JsonName,   \* "<field>_json"
    Candidates, \* the declarations considered
    Stores,     \* the pairs of engine and codec considered
    Default,    \* what the upgrade function gives an appended field
    Missing,    \* no cell
    NoRow,      \* no row under this id
    Unreadable  \* a blob that decodes neither way

Declarations ==
    [fields : Seq(Names), json : SUBSET Names, index : SUBSET Names,
     unique : Seq(SUBSET Names)]

ASSUME VersionsAssumption ==
    /\ Candidates \subseteq Declarations
    /\ Stores \subseteq {"sqlite", "postgres"} \X {"bitcode", "postcard"}
    /\ JsonName \in [Names -> Names]
    /\ Default \in Vals
    /\ Missing \notin {Text[v] : v \in Vals} \cup {Json[v] : v \in Vals}
    /\ IdName \in Fixed /\ Fixed \subseteq Names
    /\ \A d \in Candidates : \A group \in ToSet(d.unique) : group \cap Fixed = {}

-----------------------------------------------------------------------------
(* The macro.                                                              *)

Groups(d) == ToSet(d.unique)
Fields(d) == ToSet(d.fields)

(* What compiles: of the names, no field of one's own called id, and every *)
(* name in index(...) and unique(...) a field.                             *)
Accepted(d) ==
    /\ IdName \notin Fields(d)
    /\ d.index \subseteq Fields(d)
    /\ \A group \in Groups(d) : group # {} /\ group \subseteq Fields(d)

(* Faulty variant of IsIndex: a unique field is no column by itself.       *)
IsIndexDeclared(d, field) == field \in d.index

(* Fields of unique groups are index columns too.                          *)
IsIndex(d, field) ==
    field \in d.index \/ \E group \in Groups(d) : field \in group

(* A JSON field has a column of its own, and is no index column.           *)
Column(d, n) ==
    LET field == d.fields[n]
    IN  [place |-> n, json |-> field \in d.json,
         name  |-> IF field \in d.json THEN JsonName[field] ELSE field]

HasColumn(d, field) == field \in d.json \/ IsIndex(d, field)

Columns(d) == {Column(d, n) : n \in {n \in DOMAIN d.fields : HasColumn(d, d.fields[n])}}

ColumnNames(d) == {k.name : k \in Columns(d)}

CellOf(column, value) ==
    IF column.json THEN Json[value[column.place]]
                   ELSE Text[value[column.place]]

Values(d) == [DOMAIN d.fields -> Vals]

-----------------------------------------------------------------------------
VARIABLES
    engine,     \* "sqlite" or "postgres", for good
    codec,      \* the codec of the store, a positional one, for good
    code,       \* the version that runs
    ready,      \* it has made sure of its table
    columns,    \* the columns of the table; none, there is no table
    uniques,    \* the groups that have a UNIQUE index
    rows        \* cells and blob of each row, the version that saved it, and
                \* the indexes whose entry of it is not what its cells say

table == <<engine, codec, ready, columns, uniques>>
vars == <<engine, codec, code, ready, columns, uniques, rows>>

Cells == {Text[v] : v \in Vals} \cup {Json[v] : v \in Vals} \cup {Missing}

RowsBy(d) == [cells : [Names -> Cells], value : Values(d), by : {d},
              stale : SUBSET (SUBSET Names)]

ASSUME RowsAssumption == \A d \in Candidates : NoRow \notin RowsBy(d)

(* A row has cells in the table's columns only, its own columns apart; on  *)
(* Postgres no index lacks a column, and none is out of date.              *)
TypeOK ==
    /\ <<engine, codec>> \in Stores
    /\ code \in Candidates /\ Accepted(code)
    /\ ready \in BOOLEAN
    /\ columns \subseteq Names
    /\ uniques \subseteq SUBSET (IF engine = "postgres" THEN columns ELSE Names)
    /\ rows = [id \in Ids |-> rows[id]]
    /\ \A id \in Ids : rows[id] = NoRow \/ \E d \in Candidates : rows[id] \in RowsBy(d)
    /\ \A id \in Ids : rows[id] # NoRow =>
        /\ \A col \in Names : rows[id].cells[col] # Missing => col \in columns \ Fixed
        /\ rows[id].stale \subseteq (IF engine = "postgres" THEN {} ELSE uniques)

(* Two rows that are the same in these columns: a missing cell equals      *)
(* nothing.                                                                *)
Agree(cells, other, cols) ==
    \A col \in cols : cells[col] = other[col] /\ cells[col] # Missing

Collide(cols) ==
    \E id, other \in Ids :
        /\ id # other /\ rows[id] # NoRow /\ rows[other] # NoRow
        /\ Agree(rows[id].cells, rows[other].cells, cols)

(* What a UNIQUE index over the group compares: the names that are columns *)
(* (the texts of values are not names, so that a string meets no cell).    *)
Compared(group) == group \cap columns

-----------------------------------------------------------------------------
(* The first use of the type by a process.                                 *)

(* No column is named twice, nor as one that every table has.              *)
Distinct(d) ==
    /\ \A j, k \in Columns(d) : j.name = k.name => j = k
    /\ ColumnNames(d) \cap Fixed = {}

(* CREATE TABLE IF NOT EXISTS.                                             *)
Creates(d) == columns # {} \/ Distinct(d)

(* Faulty variant of Added: a table that is there is left as it is.        *)
AddedOnCreate(d) ==
    IF columns # {} THEN columns ELSE Fixed \cup ColumnNames(d)

(* ADD COLUMN for every column; one that is there already is left alone.   *)
Added(d) == Fixed \cup columns \cup ColumnNames(d)

(* Faulty variant of CanBuild: the rows that are there are not looked at.  *)
CanBuildAnyway(d, group) == engine = "postgres" => group \subseteq Added(d)

(* CREATE UNIQUE INDEX IF NOT EXISTS over one group; every group has an    *)
(* index name of its own here.                                             *)
CanBuild(d, group) ==
    /\ engine = "postgres" => group \subseteq Added(d)
    /\ group \in uniques \/ ~ Collide(group \cap Added(d))

(* The groups are built in order, up to the first that fails.              *)
Built(d) == {n \in DOMAIN d.unique : \A m \in 1..n : CanBuild(d, d.unique[m])}

(* An index that has a string where a column is added reads the column     *)
(* from then on; its entries of the rows that are there still have the     *)
(* string.                                                                 *)
OutOfDate(d) ==
    {group \in uniques : group \cap (Added(d) \ columns) # {}}

Ensure ==
    /\ ~ ready
    /\ Creates(code)
    /\ columns' = Added(code)
    /\ uniques' = uniques \cup {code.unique[n] : n \in Built(code)}
    /\ ready' = (Built(code) = DOMAIN code.unique)
    /\ rows' = [id \in Ids |-> IF rows[id] = NoRow THEN NoRow
                                ELSE [rows[id] EXCEPT !.stale = @ \cup OutOfDate(code)]]
    /\ UNCHANGED <<engine, codec, code>>

(* Another version of the program is started, older or newer.              *)
Deploy(d) ==
    /\ Accepted(d)
    /\ code' = d
    /\ ready' = FALSE
    /\ UNCHANGED <<engine, codec, columns, uniques, rows>>

-----------------------------------------------------------------------------
(* Rows.                                                                   *)

(* A positional codec knows fields by their place: the names do not        *)
(* matter, and the upgrade function appends what an older shape lacked.    *)
(* Of a longer blob postcard reads the fields it asks for and leaves the   *)
(* rest, which bitcode refuses.                                            *)
DecodeRow(row) ==
    LET old == Len(row.value)
    IN  IF old > Len(code.fields) /\ codec = "bitcode" THEN Unreadable
        ELSE [n \in DOMAIN code.fields |->
                IF n <= old THEN row.value[n] ELSE Default]

(* Of two columns of one name the first is written; JSON columns come last. *)
ColumnNamed(col) ==
    CHOOSE k \in Columns(code) :
        k.name = col /\ \A j \in Columns(code) : j.name = col /\ k.json => j.json

(* Faulty variant of Upserted: a row that is there keeps its cells.        *)
UpsertedBlobOnly(id, value) ==
    [col \in Names |->
        IF rows[id] # NoRow THEN rows[id].cells[col]
        ELSE IF col \in ColumnNames(code) \ Fixed THEN CellOf(ColumnNamed(col), value)
        ELSE Missing]

(* INSERT ... ON CONFLICT DO UPDATE SET the columns of this version.       *)
Upserted(id, value) ==
    [col \in Names |->
        IF col \in ColumnNames(code) \ Fixed THEN CellOf(ColumnNamed(col), value)
        ELSE IF rows[id] # NoRow THEN rows[id].cells[col]
        ELSE Missing]

(* The UNIQUE indexes there are, of whatever version.                      *)
Refused(id, cells) ==
    \E group \in uniques, other \in Ids \ {id} :
        rows[other] # NoRow /\ Agree(cells, rows[other].cells, Compared(group))

(* "database disk image is malformed": an entry to be replaced, in an index *)
(* over one of the columns, is not there.                                  *)
Malformed(id, cols) ==
    rows[id] # NoRow /\ \E group \in rows[id].stale : group \cap cols # {}

Saved(id, cells, value) ==
    [cells |-> cells, value |-> value, by |-> code,
     stale |-> IF rows[id] = NoRow THEN {} ELSE rows[id].stale]

Save(id, value) ==
    /\ ready /\ (engine = "postgres" => Distinct(code))
    /\ LET cells == Upserted(id, value)
       IN  rows' = IF Refused(id, cells) \/ Malformed(id, ColumnNames(code)) THEN rows
                   ELSE [rows EXCEPT ![id] = Saved(id, cells, value)]
    /\ UNCHANGED <<table, code>>

(* Store::update, or a migration: what was read is saved again.            *)
Update(id) ==
    /\ rows[id] # NoRow
    /\ DecodeRow(rows[id]) # Unreadable
    /\ Save(id, DecodeRow(rows[id]))

Delete(id) ==
    /\ ready
    /\ rows' = IF Malformed(id, Names) THEN rows ELSE [rows EXCEPT ![id] = NoRow]
    /\ UNCHANGED <<table, code>>

Init ==
    /\ \E store \in Stores : engine = store[1] /\ codec = store[2]
    /\ code \in Candidates /\ Accepted(code)
    /\ ready = FALSE /\ columns = {} /\ uniques = {}
    /\ rows = [id \in Ids |-> NoRow]

Next ==
    \/ \E d \in Candidates : Deploy(d)
    \/ Ensure
    \/ \E id \in Ids : \/ \E value \in Values(code) : Save(id, value)
                       \/ Update(id)
                       \/ Delete(id)

Spec == Init /\ [][Next]_vars

-----------------------------------------------------------------------------
(* Properties.                                                             *)

(***************************************************************************)
(* A process that has made sure of its table has every group of its own    *)
(* version enforced, over the rows of all versions: no two rows have the   *)
(* same cells in the group's columns.                                      *)
(***************************************************************************)
GroupsHold ==
    ready => \A group \in Groups(code) : group \in uniques /\ ~ Collide(Compared(group))

(***************************************************************************)
(* The table can be made ready for any version, whatever versions ran      *)
(* before, unless rows collide in a group that is new; or the declaration  *)
(* names a column twice or one of the table's own, or, on Postgres, puts a *)
(* JSON field, which has no column of its name, into a group.              *)
(***************************************************************************)
Misdeclared(d) ==
    \/ ~ Distinct(d)
    \/ engine = "postgres" /\ \E group \in Groups(d) : group \cap d.json # {}

OnlyRowsPreventIt ==
    [][Ensure => \/ ready'
                 \/ Misdeclared(code)
                 \/ \E group \in Groups(code) \ uniques : Collide(group \cap Added(code))]_vars

(***************************************************************************)
(* What a row is found by: a cell tells the value that the row decodes to, *)
(* or is missing, also to an older version that reads the first fields     *)
(* only.  The exceptions are a row that was last saved by a version        *)
(* without the column, which left there whatever an earlier version wrote, *)
(* and one saved by a version that names a column twice.                   *)
(***************************************************************************)
CellsTellTheValue ==
    \A id \in Ids : rows[id] # NoRow /\ Distinct(rows[id].by)
                        /\ DecodeRow(rows[id]) # Unreadable =>
        \A k \in Columns(code) \cap Columns(rows[id].by) :
            rows[id].cells[k.name] = CellOf(k, DecodeRow(rows[id]))

(***************************************************************************)
(* What makes them inductive: no rows collide under an index that is       *)
(* there, a row has the cells that its last writer gave it, and what a     *)
(* version that is ready writes has its columns.                           *)
(***************************************************************************)
IndexesHold == \A group \in uniques : ~ Collide(Compared(group))

CellsAsSaved ==
    \A id \in Ids : rows[id] # NoRow /\ Distinct(rows[id].by) =>
        \A k \in Columns(rows[id].by) :
            rows[id].cells[k.name] = CellOf(k, rows[id].value)

ColumnsAreThere == ready => ColumnNames(code) \subseteq columns

IInv == TypeOK /\ IndexesHold /\ GroupsHold /\ CellsAsSaved /\ ColumnsAreThere
=============================================================================
