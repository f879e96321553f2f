--------------------------- MODULE SqliteBackend ---------------------------
(***************************************************************************)
(* The SQLite backend of one process: a pool of connections to one         *)
(* database, a cache of the tables whose DDL has been run, and the calls   *)
(* that use both.                                                          *)
(*                                                                         *)
(* Every call first makes sure of its tables: statement by statement, each *)
(* on a pooled connection and committed on its own, and the table is       *)
(* remembered when the last one has succeeded.  A transaction runs the     *)
(* same statements on its own connection and remembers nothing, because    *)
(* they are undone with it.                                                *)
(*                                                                         *)
(* SQLite itself (external): readers see the last committed database; one  *)
(* connection at a time holds the write lock; who finds it held waits for  *)
(* the busy timeout and fails.  As sqlx bundles it (SQLITE_DQS = 3), it    *)
(* takes a quoted name that is no column for a string: an index over it is *)
(* made, a filter on it matches no cell, and only a statement that writes  *)
(* it fails.                                                               *)
(***************************************************************************)
EXTENDS Schema, FiniteSets

CONSTANTS
    Clients,        \* tasks that hold the store
    Nobody,         \* no transaction holds the write lock
    NoTable,        \* no DDL in progress
    MaxConns,       \* connections of the pool: one in memory, eight on a file
    MaxOps,         \* bound: operations inside one transaction
    NewCols,        \* columns that an older version of the types lacked
    IndexName       \* the name of a group's UNIQUE index

ASSUME SqliteAssumption ==
    /\ Nobody \notin Clients /\ NoTable \notin Tables
    /\ MaxConns \in Nat \ {0} /\ MaxOps \in Nat
    /\ NewCols \subseteq Cols
    /\ DOMAIN IndexName = Groups

VARIABLES
    db,         \* the committed database
    work,       \* the database as the open transaction sees it
    writer,     \* who holds the write lock between two statements
    tables,     \* the cache: tables whose DDL is known to have run
    pc,         \* where each client is
    call,       \* which call it is in
    want,       \* the tables its call needs
    tab,        \* the table its DDL is about
    count,      \* operations or entries its transaction has run
    outcome,    \* how the last call to end has ended
    lost        \* history: tables whose ADD COLUMN has failed in this process

vars == <<db, work, writer, tables, pc, call, want, tab, count, outcome, lost>>

Databases == [made : SUBSET Tables,     \* tables
              full : SUBSET Tables,     \* tables with every index column
              uniq : SUBSET Groups,     \* groups with a UNIQUE index
              rows : Contents]

NoDatabase == [made |-> {}, full |-> {}, uniq |-> {}, rows |-> [k \in Keys |-> NoRow]]

(* Transactions keep a connection; single statements borrow one.           *)
Holding == {c \in Clients : \/ pc[c] = "entries"
                            \/ call[c] = "transaction" /\ pc[c] # "begin"}

(* The write lock is held by an open transaction only.                     *)
TypeOK ==
    /\ db \in Databases /\ work \in Databases
    /\ writer \in Clients \cup {Nobody}
    /\ tables \subseteq Tables /\ lost \subseteq Tables
    /\ pc \in [Clients -> {"idle", "tables", "create", "columns", "indexes", "uniques",
                           "run", "begin", "body", "bare", "entries"}]
    /\ call \in [Clients -> {"none", "read", "write", "replace", "batch", "transaction"}]
    /\ want \in [Clients -> SUBSET Tables]
    /\ tab \in [Clients -> Tables \cup {NoTable}]
    /\ count \in [Clients -> Nat]
    /\ outcome \in Outcomes
    /\ \A c \in Clients : pc[c] = "idle" <=> call[c] = "none"
    /\ writer # Nobody => writer \in Holding

-----------------------------------------------------------------------------
(* Connections and the write lock.                                         *)

Runs(c) == c \in Holding \/ Cardinality(Holding) < MaxConns
Writes(c) == Runs(c) /\ writer \in {c, Nobody}
LockedOut(c) == Runs(c) /\ writer \notin {c, Nobody}

(* What a statement of c sees, and where its effect goes.                  *)
Seen(c) == IF writer = c THEN work ELSE db

Store(c, d) == IF writer = c THEN work' = d /\ db' = db ELSE db' = d /\ work' = work

Untouched == UNCHANGED <<db, work>>

-----------------------------------------------------------------------------
(* How a call, or an operation inside a transaction, ends.                 *)

Leave(c) ==
    /\ pc' = [pc EXCEPT ![c] = "idle"]
    /\ call' = [call EXCEPT ![c] = "none"]
    /\ want' = [want EXCEPT ![c] = {}]
    /\ tab' = [tab EXCEPT ![c] = NoTable]
    /\ count' = [count EXCEPT ![c] = 0]

Stay(c, at) == pc' = [pc EXCEPT ![c] = at] /\ UNCHANGED <<call, want, tab, count>>

(* In a transaction the closure gets the result, and goes on or gives up.  *)
Ends(c, result) ==
    IF call[c] = "transaction"
      THEN Stay(c, "body") /\ UNCHANGED outcome
      ELSE Leave(c) /\ outcome' = result

Fails(c, result) == Untouched /\ Ends(c, result)

(* Faulty variant of Undone: the transaction stays open.                   *)
UndoneLater(c) == UNCHANGED <<db, work, writer>>

(* The transaction, if c has one, is undone.                               *)
Undone(c) ==
    IF writer = c THEN writer' = Nobody /\ work' = NoDatabase /\ db' = db
    ELSE UNCHANGED <<db, work, writer>>

(* The transaction, if c has one, is committed.                            *)
Committed(c) ==
    IF writer = c THEN writer' = Nobody /\ work' = NoDatabase /\ db' = work
    ELSE UNCHANGED <<db, work, writer>>

-----------------------------------------------------------------------------
(* A call begins.                                                          *)

Start(c, kind, ts) ==
    /\ pc[c] = "idle"
    /\ kind = "batch" \/ Cardinality(ts) = 1
    /\ pc' = [pc EXCEPT ![c] = "tables"]
    /\ call' = [call EXCEPT ![c] = kind]
    /\ want' = [want EXCEPT ![c] = ts]
    /\ UNCHANGED <<db, work, writer, tables, tab, count, outcome, lost>>

StartTransaction(c) ==
    /\ pc[c] = "idle"
    /\ pc' = [pc EXCEPT ![c] = "begin"]
    /\ call' = [call EXCEPT ![c] = "transaction"]
    /\ UNCHANGED <<db, work, writer, tables, want, tab, count, outcome, lost>>

-----------------------------------------------------------------------------
(* ensure_table_in, one action per statement.                              *)

(* The cache spares a table its DDL; a batch makes sure of each in turn.   *)
NextTable(c) ==
    /\ pc[c] = "tables"
    /\ \/ /\ want[c] \subseteq tables
          /\ Stay(c, "run")
       \/ \E t \in want[c] \ tables :
            /\ pc' = [pc EXCEPT ![c] = "create"]
            /\ tab' = [tab EXCEPT ![c] = t]
            /\ UNCHANGED <<call, want, count>>
    /\ UNCHANGED <<db, work, writer, tables, outcome, lost>>

WithTable(d, t) == [d EXCEPT !.made = @ \cup {t}, !.full = @ \cup {t}]
WithColumns(d, t) == [d EXCEPT !.full = @ \cup {t}]
WithIndex(d, g) == [d EXCEPT !.uniq = @ \cup {g}]

(* Faulty variant of CreateTable: a transaction's DDL runs on the pool.    *)
CreateTableOnPool(c) ==
    /\ pc[c] = "create"
    /\ Cardinality(Holding) < MaxConns
    /\ db' = WithTable(db, tab[c])
    /\ Stay(c, "columns")
    /\ UNCHANGED <<work, writer, tables, outcome, lost>>

CreateTable(c) ==
    /\ pc[c] = "create"
    /\ IF tab[c] \in Seen(c).made
         THEN Runs(c) /\ Untouched
         ELSE Writes(c) /\ Store(c, WithTable(Seen(c), tab[c]))
    /\ Stay(c, "columns")
    /\ UNCHANGED <<writer, tables, outcome, lost>>

(* The error of an ADD COLUMN is taken for that of a column that is there. *)
Forget(c) == lost' = IF tab[c] \in Seen(c).full THEN lost ELSE lost \cup {tab[c]}

(* ADD COLUMN: whatever goes wrong, a lock that stays held included, is    *)
(* taken for the column being there.                                       *)
AddColumns(c) ==
    /\ pc[c] = "columns"
    /\ IF tab[c] \in Seen(c).full \/ LockedOut(c)
         THEN Runs(c) /\ Untouched /\ Forget(c)
         ELSE Writes(c) /\ Store(c, WithColumns(Seen(c), tab[c])) /\ lost' = lost
    /\ Stay(c, "indexes")
    /\ UNCHANGED <<writer, tables, outcome>>

(* The plain indexes; over a column that is not there, they are indexes    *)
(* over a string.                                                          *)
CreateIndexes(c) ==
    /\ pc[c] = "indexes"
    /\ Writes(c)
    /\ Stay(c, "uniques")
    /\ UNCHANGED <<db, work, writer, tables, outcome, lost>>

(* IF NOT EXISTS goes by the index's name.                                 *)
Named(d, g) == \E h \in d.uniq : IndexName[h] = IndexName[g]

(* Two rows agree on the columns; NULL agrees with nothing.                *)
Equal(cols, row, other) ==
    \A col \in cols : row[col] = other[col] /\ row[col] # Missing

(* The columns of a group that are there.  The index takes each other one  *)
(* for a string, the same in every row.                                    *)
Existing(d, g) == IF g.table \in d.full THEN g.cols ELSE g.cols \ NewCols

HasDuplicates(d, g) ==
    \E k, j \in Present(d.rows) :
        /\ k # j
        /\ TableOf[k] = g.table /\ TableOf[j] = g.table
        /\ Equal(Existing(d, g), d.rows[k], d.rows[j])

(* save_batch takes the duplicates for a conflict of its entries.          *)
CreateUnique(c) ==
    /\ pc[c] = "uniques"
    /\ \E g \in GroupsOf(tab[c]) :
        /\ ~ Named(Seen(c), g)
        /\ Writes(c)
        /\ IF HasDuplicates(Seen(c), g)
             THEN Fails(c, IF call[c] = "batch" THEN "conflict" ELSE "failed")
             ELSE /\ Store(c, WithIndex(Seen(c), g))
                  /\ Stay(c, "uniques") /\ UNCHANGED outcome
    /\ UNCHANGED <<writer, tables, lost>>

(* Faulty variant of Ensured: a transaction's DDL is remembered as well.   *)
EnsuredAndRemembered(c) ==
    /\ pc[c] = "uniques"
    /\ \A g \in GroupsOf(tab[c]) : Named(Seen(c), g)
    /\ tables' = tables \cup {tab[c]}
    /\ IF call[c] = "transaction" THEN Stay(c, "run") ELSE Stay(c, "tables")
    /\ UNCHANGED <<db, work, writer, outcome, lost>>

(* Faulty variant of Ensured: the UNIQUE indexes are left out.             *)
EnsuredWithoutIndexes(c) ==
    /\ pc[c] = "uniques"
    /\ IF call[c] = "transaction"
         THEN Stay(c, "run") /\ UNCHANGED tables
         ELSE Stay(c, "tables") /\ tables' = tables \cup {tab[c]}
    /\ UNCHANGED <<db, work, writer, outcome, lost>>

(* The table is remembered, but not by a transaction.                      *)
Ensured(c) ==
    /\ pc[c] = "uniques"
    /\ \A g \in GroupsOf(tab[c]) : Named(Seen(c), g)
    /\ IF call[c] = "transaction"
         THEN Stay(c, "run") /\ UNCHANGED tables
         ELSE Stay(c, "tables") /\ tables' = tables \cup {tab[c]}
    /\ UNCHANGED <<db, work, writer, outcome, lost>>

-----------------------------------------------------------------------------
(* The statement the call is for.                                          *)

(* A UNIQUE index refuses the row.                                         *)
Refused(d, k, row) ==
    \E j \in Present(d.rows) \ {k}, g \in d.uniq :
        /\ TableOf[k] = g.table /\ TableOf[j] = g.table
        /\ Equal(g.cols, row, d.rows[j])

WithRow(d, k, row) == [d EXCEPT !.rows[k] = row]

WithoutRows(d, ks) == [d EXCEPT !.rows = [k \in Keys |-> IF k \in ks THEN NoRow ELSE @[k]]]

Selected(d, t, filters) ==
    {k \in KeysOf(t) : d.rows[k] # NoRow /\ Matches(d.rows[k], filters)}

(* A statement of a call of the given kinds on one of its tables.          *)
Statement(c, kinds, t) ==
    /\ pc[c] = "run"
    /\ call[c] \in kinds
    /\ t \in want[c]
    /\ UNCHANGED <<writer, tables, lost>>

(* The row that a statement writes has a cell in every column.             *)
HasColumns(c, t) == t \in Seen(c).full

Read(c, t) ==
    /\ Statement(c, {"read", "transaction"}, t)
    /\ Runs(c)
    /\ Untouched
    /\ Ends(c, outcome)

Save(c, k, row) ==
    /\ Statement(c, {"write", "transaction"}, TableOf[k])
    /\ Writes(c) /\ HasColumns(c, TableOf[k])
    /\ IF Refused(Seen(c), k, row)
         THEN Untouched /\ Ends(c, "conflict")
         ELSE Store(c, WithRow(Seen(c), k, row)) /\ Ends(c, "ok")

Insert(c, k, row) ==
    /\ Statement(c, {"write", "transaction"}, TableOf[k])
    /\ Writes(c) /\ HasColumns(c, TableOf[k])
    /\ IF Seen(c).rows[k] # NoRow \/ Refused(Seen(c), k, row)
         THEN Untouched /\ Ends(c, "conflict")
         ELSE Store(c, WithRow(Seen(c), k, row)) /\ Ends(c, "ok")

(* NOT EXISTS over the partition, and a plain insert, in one statement.    *)
InsertGuarded(c, k, row, partition, col) ==
    /\ Statement(c, {"write"}, TableOf[k])
    /\ Writes(c) /\ HasColumns(c, TableOf[k])
    /\ IF \/ \E j \in Selected(db, TableOf[k], partition) :
                db.rows[j][col] # Missing /\ NumOf[db.rows[j][col]] >= NumOf[row[col]]
          \/ db.rows[k] # NoRow
          \/ Refused(db, k, row)
         THEN Untouched /\ Ends(c, "rejected")
         ELSE Store(c, WithRow(db, k, row)) /\ Ends(c, "landed")

(* A save or an insert into a table that lacks a column.                   *)
WriteFails(c, t) ==
    /\ Statement(c, {"write", "transaction"}, t)
    /\ Runs(c) /\ ~ HasColumns(c, t)
    /\ Fails(c, "failed")

Delete(c, k) ==
    /\ Statement(c, {"write"}, TableOf[k])
    /\ Writes(c)
    /\ Store(c, WithoutRows(Seen(c), {k}))
    /\ Ends(c, "ok")

(* delete_all is the delete without filters.                               *)
DeleteWhere(c, t, filters) ==
    /\ Statement(c, {"write", "transaction"}, t)
    /\ Writes(c)
    /\ Store(c, WithoutRows(Seen(c), Selected(Seen(c), t, filters)))
    /\ Ends(c, "ok")

(* The delete of a replace_where; its items are a batch of their own.      *)
ReplaceDelete(c, t, filters) ==
    /\ Statement(c, {"replace"}, t)
    /\ Writes(c)
    /\ Store(c, WithoutRows(db, Selected(db, t, filters)))
    /\ pc' = [pc EXCEPT ![c] = "tables"]
    /\ call' = [call EXCEPT ![c] = "batch"]
    /\ UNCHANGED <<want, tab, count, outcome>>

-----------------------------------------------------------------------------
(* save_batch: BEGIN takes a connection, the first entry the write lock.   *)

BatchBegin(c) ==
    /\ pc[c] = "run" /\ call[c] = "batch"
    /\ Runs(c)
    /\ Stay(c, "entries")
    /\ UNCHANGED <<db, work, writer, tables, outcome, lost>>

(* Faulty variant of BatchEntry: the entries already written stay.         *)
BatchEntryKeepsPrefix(c, k, row) ==
    /\ pc[c] = "entries" /\ count[c] < MaxBatch
    /\ TableOf[k] \in want[c]
    /\ Writes(c) /\ HasColumns(c, TableOf[k])
    /\ IF Refused(Seen(c), k, row)
         THEN Committed(c) /\ Leave(c) /\ outcome' = "conflict"
         ELSE /\ work' = WithRow(Seen(c), k, row)
              /\ writer' = c
              /\ count' = [count EXCEPT ![c] = @ + 1]
              /\ UNCHANGED <<db, pc, call, want, tab, outcome>>
    /\ UNCHANGED <<tables, lost>>

BatchEntry(c, k, row) ==
    /\ pc[c] = "entries" /\ count[c] < MaxBatch
    /\ TableOf[k] \in want[c]
    /\ Writes(c) /\ HasColumns(c, TableOf[k])
    /\ IF Refused(Seen(c), k, row)
         THEN Undone(c) /\ Leave(c) /\ outcome' = "conflict"
         ELSE /\ work' = WithRow(Seen(c), k, row)
              /\ writer' = c
              /\ count' = [count EXCEPT ![c] = @ + 1]
              /\ UNCHANGED <<db, pc, call, want, tab, outcome>>
    /\ UNCHANGED <<tables, lost>>

(* An entry of a table that lacks a column.                                *)
BatchEntryFails(c) ==
    /\ pc[c] = "entries" /\ count[c] < MaxBatch
    /\ \E t \in want[c] : ~ HasColumns(c, t)
    /\ Undone(c)
    /\ Leave(c)
    /\ outcome' = "failed"
    /\ UNCHANGED <<tables, lost>>

BatchCommit(c) ==
    /\ pc[c] = "entries"
    /\ Committed(c)
    /\ Leave(c)
    /\ outcome' = "ok"
    /\ UNCHANGED <<tables, lost>>

-----------------------------------------------------------------------------
(* Store::transaction: BEGIN IMMEDIATE, the closure, COMMIT or ROLLBACK.   *)

Begin(c) ==
    /\ pc[c] = "begin"
    /\ Writes(c)
    /\ writer' = c
    /\ work' = db
    /\ Stay(c, "body")
    /\ UNCHANGED <<db, tables, outcome, lost>>

(* The closure's next operation, on table t.                               *)
Operation(c, t, at) ==
    /\ pc[c] = "body" /\ count[c] < MaxOps
    /\ pc' = [pc EXCEPT ![c] = at]
    /\ want' = [want EXCEPT ![c] = {t}]
    /\ tab' = [tab EXCEPT ![c] = t]
    /\ count' = [count EXCEPT ![c] = @ + 1]
    /\ UNCHANGED <<db, work, writer, tables, call, outcome, lost>>

(* Faulty variant of TxOperation: no operation makes sure of its table.    *)
TxOperationUnprepared(c, t) == Operation(c, t, "run")

(* Tx::save, Tx::insert and the queries make sure of their table.          *)
TxOperation(c, t) == Operation(c, t, IF t \in tables THEN "run" ELSE "create")

(* Tx::load and Tx::delete go straight to their statement.                 *)
TxBare(c, t) == Operation(c, t, "bare")

(* A load; or the error of a load or delete whose table is not there.      *)
TxLoad(c) ==
    /\ pc[c] = "bare"
    /\ Untouched
    /\ Stay(c, "body")
    /\ UNCHANGED <<writer, tables, outcome, lost>>

TxDelete(c, k) ==
    /\ pc[c] = "bare"
    /\ TableOf[k] \in want[c] \cap Seen(c).made
    /\ Store(c, WithoutRows(Seen(c), {k}))
    /\ Ends(c, "ok")
    /\ UNCHANGED <<writer, tables, lost>>

TxCommit(c) ==
    /\ pc[c] = "body"
    /\ Committed(c)
    /\ Leave(c)
    /\ outcome' = "committed"
    /\ UNCHANGED <<tables, lost>>

TxRollback(c) ==
    /\ pc[c] = "body"
    /\ Undone(c)
    /\ Leave(c)
    /\ outcome' = "failed"
    /\ UNCHANGED <<tables, lost>>

-----------------------------------------------------------------------------
(* The write lock stays held for the length of the busy timeout.           *)
Busy(c) ==
    /\ LockedOut(c)
    /\ \/ pc[c] = "create" /\ tab[c] \notin Seen(c).made
       \/ pc[c] \in {"indexes", "uniques", "begin", "entries"}
       \/ pc[c] = "run" /\ call[c] \in {"write", "replace"}
    /\ Leave(c)
    /\ outcome' = "failed"
    /\ UNCHANGED <<db, work, writer, tables, lost>>

(* No connection comes free for the length of the acquire timeout: an      *)
(* error like any other, which ADD COLUMN takes for the column being there. *)
Starved(c) ==
    /\ ~ Runs(c)
    /\ \/ pc[c] = "columns" /\ Stay(c, "indexes") /\ Forget(c) /\ UNCHANGED outcome
       \/ /\ pc[c] \in {"create", "indexes", "uniques", "run", "begin"}
          /\ Leave(c)
          /\ outcome' = "failed" /\ lost' = lost
    /\ UNCHANGED <<db, work, writer, tables>>

(* The caller drops its future: a transaction rolls back when dropped.     *)
Dropped(c) ==
    /\ pc[c] # "idle"
    /\ Undone(c)
    /\ Leave(c)
    /\ UNCHANGED <<tables, outcome, lost>>

(* The process stops, and opens the same file again with an empty cache.   *)
Restart ==
    /\ writer' = Nobody
    /\ work' = NoDatabase
    /\ tables' = {}
    /\ lost' = {}
    /\ pc' = [c \in Clients |-> "idle"]
    /\ call' = [c \in Clients |-> "none"]
    /\ want' = [c \in Clients |-> {}]
    /\ tab' = [c \in Clients |-> NoTable]
    /\ count' = [c \in Clients |-> 0]
    /\ UNCHANGED <<db, outcome>>

-----------------------------------------------------------------------------
Opened ==
    /\ work = NoDatabase
    /\ writer = Nobody
    /\ tables = {}
    /\ lost = {}
    /\ pc = [c \in Clients |-> "idle"]
    /\ call = [c \in Clients |-> "none"]
    /\ want = [c \in Clients |-> {}]
    /\ tab = [c \in Clients |-> NoTable]
    /\ count = [c \in Clients |-> 0]
    /\ outcome = "none"

(* A new database.                                                         *)
Init == db = NoDatabase /\ Opened

(***************************************************************************)
(* A file that an older version of the program made: some tables are       *)
(* there, some of them without the new columns, with any rows, and none of *)
(* them has a UNIQUE index.                                                *)
(***************************************************************************)
InitUpgraded ==
    /\ db \in Databases
    /\ db.full \subseteq db.made /\ (NewCols = {} => db.full = db.made)
    /\ db.uniq = {}
    /\ \A k \in Present(db.rows) :
        /\ TableOf[k] \in db.made
        /\ \A col \in Cols : db.rows[k][col] = Missing
                <=> TableOf[k] \notin db.full /\ col \in NewCols
    /\ Opened

(* What a client that is in a call does next.                              *)
Ensuring(c) == \/ NextTable(c) \/ CreateTable(c) \/ AddColumns(c)
               \/ CreateIndexes(c) \/ CreateUnique(c) \/ Ensured(c)

Running(c) ==
    \/ \E t \in Tables : Read(c, t) \/ WriteFails(c, t)
    \/ \E k \in Keys, row \in Rows :
            Save(c, k, row) \/ Insert(c, k, row) \/ BatchEntry(c, k, row)
    \/ \E k \in Keys, row \in Rows, p \in EqFilters, col \in Cols :
            InsertGuarded(c, k, row, p, col)
    \/ \E k \in Keys : Delete(c, k) \/ TxDelete(c, k)
    \/ \E t \in Tables, f \in Filters : DeleteWhere(c, t, f)
    \/ \E t \in Tables, f \in EqFilters : ReplaceDelete(c, t, f)

Transacting(c) ==
    \/ BatchBegin(c) \/ BatchEntryFails(c) \/ BatchCommit(c)
    \/ Begin(c) \/ TxLoad(c) \/ TxCommit(c) \/ TxRollback(c)
    \/ \E t \in Tables : TxOperation(c, t) \/ TxBare(c, t)

Step(c) == Ensuring(c) \/ Running(c) \/ Transacting(c) \/ Busy(c)

Arrive(c) ==
    \/ \E kind \in {"read", "write", "replace", "batch"}, ts \in SUBSET Tables :
            Start(c, kind, ts)
    \/ StartTransaction(c)

Next ==
    \/ \E c \in Clients : Arrive(c) \/ Step(c) \/ Starved(c) \/ Dropped(c)
    \/ Restart

(* A client in a call goes on; the pool's queue is fair to who waits, and  *)
(* nobody is owed an acquire timeout.                                      *)
Fairness == \A c \in Clients : SF_vars(Step(c))

Spec == Init /\ [][Next]_vars
SpecUpgraded == InitUpgraded /\ [][Next]_vars
SpecFair == Spec /\ Fairness

-----------------------------------------------------------------------------
(* Properties.                                                             *)

(***************************************************************************)
(* A remembered table is really there, in the committed database, with a   *)
(* UNIQUE index for every group: its DDL is never run again, so whatever   *)
(* were missing would be missing for good.  It lacks a column only if this *)
(* process has had an ADD COLUMN fail on it and has taken that for the     *)
(* column being there.                                                     *)
(***************************************************************************)
Ready(d, t) == t \in d.made \cap (d.full \cup lost) /\ GroupsOf(t) \subseteq d.uniq

CacheSound == \A t \in tables : Ready(db, t)

(***************************************************************************)
(* "The duplicate-column error is the expected no-op" (sqlite.rs:172): the *)
(* error that ensure_table_in ignores costs a remembered table no column.  *)
(* It does where the error is another one; then every save on the table    *)
(* fails until the process restarts.                                       *)
(***************************************************************************)
RememberedHaveColumns == tables \subseteq db.full

(***************************************************************************)
(* A statement finds its table when its turn comes, with its columns       *)
(* unless an ADD COLUMN was lost on it; but for those of Tx::load and      *)
(* Tx::delete, which make sure of nothing.                                 *)
(***************************************************************************)
StatementsFindTheirTable ==
    \A c \in Clients : pc[c] \in {"run", "entries"} =>
        want[c] \subseteq Seen(c).made \cap (Seen(c).full \cup lost)

(***************************************************************************)
(* In a table that is remembered no two rows agree on the columns of a     *)
(* group, whatever the file held before.                                   *)
(***************************************************************************)
RememberedTablesAreUnique ==
    \A t \in tables : \A g \in GroupsOf(t) : ~ HasDuplicates(db, g)

(***************************************************************************)
(* An open transaction has lost nothing that was committed: a guard that   *)
(* its closure has read still holds when it commits.                       *)
(***************************************************************************)
CommittedUnderATransaction ==
    [][\A c \in Clients : writer = c /\ writer' = c => db' = db]_vars

(* Every call returns, with one connection in the pool as with more.       *)
EveryCallReturns == \A c \in Clients : pc[c] # "idle" ~> pc[c] = "idle"

(***************************************************************************)
(* On a new database the backend is a UniqueTable: a batch is one step, a  *)
(* transaction is one step, and what they refuse really collides.          *)
(***************************************************************************)
Abs == INSTANCE UniqueTable WITH rows <- db.rows
ImplementsUniqueTable == Abs!Spec
=============================================================================
