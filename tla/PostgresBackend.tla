-------------------------- MODULE PostgresBackend --------------------------
(***************************************************************************)
(* The Postgres backend: one database, several processes with a cache each *)
(* of the tables whose DDL they have run, and the calls of their tasks.    *)
(*                                                                         *)
(* Every DDL statement commits on its own.  A statement that writes rows   *)
(* runs in a transaction, of its own or of a batch, at READ COMMITTED.     *)
(*                                                                         *)
(* Postgres itself (external): a written row stays locked until the        *)
(* transaction ends, and so do the values of its UNIQUE indexes, old and   *)
(* new; who meets a lock waits; of tasks that wait for each other the      *)
(* server aborts one; CREATE ... IF NOT EXISTS does not wait for another   *)
(* one that is under way, and fails when that one commits.                 *)
(***************************************************************************)
EXTENDS Schema

CONSTANTS
    Clients,    \* tasks that hold a store
    Procs,      \* processes
    ProcOf,     \* the process a task runs in
    NoTable,    \* no DDL in progress
    NoEntry,    \* no row being written
    Kept,       \* a row the transaction has not written
    NewCols,    \* columns that an older version of the types lacked
    IndexName,  \* the name of a group's UNIQUE index
    Calls       \* bound: the kinds of call considered

AllCalls == {"read", "save", "insert", "guarded", "delete", "replace", "batch"}

ASSUME PostgresAssumption ==
    /\ ProcOf \in [Clients -> Procs]
    /\ NoTable \notin Tables
    /\ NoEntry \notin Entries
    /\ Kept \notin Stored \cup {NoRow}
    /\ NewCols \subseteq Cols
    /\ Calls \subseteq AllCalls

(* A name joins the columns by underscores, so that two groups may clash:  *)
(* not those considered here.                                              *)
ASSUME NamesDiffer ==
    /\ DOMAIN IndexName = Groups
    /\ \A g, h \in Groups : IndexName[g] = IndexName[h] => g = h

VARIABLES
    made,       \* tables
    full,       \* tables with every index column
    plain,      \* tables with their plain indexes
    uniq,       \* groups with a UNIQUE index
    rows,       \* the committed rows
    tables,     \* the cache of each process
    pc,         \* where each task is
    call,       \* which call it is in
    want,       \* the tables its call needs
    tab,        \* the table its DDL is about
    entry,      \* the row its statement is writing
    mine,       \* what its transaction has written
    doomed,     \* the rows its delete has still to look at
    filter,     \* the filters of its delete
    written,    \* the entries its batch has written
    outcome     \* how the last call to end has ended

ddl  == <<made, full, plain, uniq>>
task == <<pc, call, want, tab, entry, mine, doomed, filter, written>>
vars == <<made, full, plain, uniq, rows, tables, pc, call, want, tab, entry,
          mine, doomed, filter, written, outcome>>

NoFilter == << >>
Nothing == [k \in Keys |-> Kept]

Creating == {"create", "columns", "indexes", "uniques"}
Writing  == {"key", "unique", "entries", "rows"}

(* "spurious" is the error Conflict for a value that no row holds.         *)
TypeOK ==
    /\ made \subseteq Tables /\ full \subseteq made /\ plain \subseteq full
    /\ uniq \subseteq {g \in Groups : g.table \in full}
    /\ rows \in Contents
    /\ tables \in [Procs -> SUBSET Tables]
    /\ pc \in [Clients -> {"idle", "tables", "raced", "run"} \cup Creating \cup Writing]
    /\ call \in [Clients -> AllCalls \cup {"none"}]
    /\ want \in [Clients -> SUBSET Tables]
    /\ tab \in [Clients -> Tables \cup {NoTable}]
    /\ entry \in [Clients -> Entries \cup {NoEntry}]
    /\ mine \in [Clients -> [Keys -> Rows \cup {NoRow, Kept}]]
    /\ doomed \in [Clients -> SUBSET Keys]
    /\ filter \in [Clients -> Filters]
    /\ written \in [Clients -> Batches]
    /\ outcome \in Outcomes \cup {"spurious"}
    /\ \A c \in Clients :
        /\ pc[c] = "idle" <=> call[c] = "none"
        /\ entry[c] # NoEntry <=> pc[c] \in {"key", "unique"}
        /\ pc[c] \notin Writing => mine[c] = Nothing /\ written[c] = << >>
        /\ pc[c] # "rows" => doomed[c] = {}
        /\ pc[c] \in Creating => tab[c] \in Tables

-----------------------------------------------------------------------------
(* How a call ends.                                                        *)

Leave(c) ==
    /\ pc' = [pc EXCEPT ![c] = "idle"]
    /\ call' = [call EXCEPT ![c] = "none"]
    /\ want' = [want EXCEPT ![c] = {}]
    /\ tab' = [tab EXCEPT ![c] = NoTable]
    /\ entry' = [entry EXCEPT ![c] = NoEntry]
    /\ mine' = [mine EXCEPT ![c] = Nothing]
    /\ doomed' = [doomed EXCEPT ![c] = {}]
    /\ filter' = [filter EXCEPT ![c] = NoFilter]
    /\ written' = [written EXCEPT ![c] = << >>]

Goto(c, at) ==
    /\ pc' = [pc EXCEPT ![c] = at]
    /\ UNCHANGED <<call, want, tab, entry, mine, doomed, filter, written>>

(* The transaction, if c has one, is rolled back.                          *)
Ends(c, result) == Leave(c) /\ outcome' = result /\ UNCHANGED rows

(* What everybody sees once c's transaction is committed.                  *)
Committed(c) == [k \in Keys |-> IF mine[c][k] = Kept THEN rows[k] ELSE mine[c][k]]

(* A UNIQUE violation during the DDL: save_batch runs it inside the part   *)
(* of the call whose violations become Conflict, the others before it.     *)
Violation(c) == IF call[c] = "batch" THEN "spurious" ELSE "failed"

-----------------------------------------------------------------------------
(* A call begins.                                                          *)

Start(c, kind, ts) ==
    /\ pc[c] = "idle"
    /\ kind = "batch" \/ \E t \in Tables : ts = {t}
    /\ pc' = [pc EXCEPT ![c] = "tables"]
    /\ call' = [call EXCEPT ![c] = kind]
    /\ want' = [want EXCEPT ![c] = ts]
    /\ UNCHANGED <<ddl, rows, tables, tab, entry, mine, doomed, filter, written, outcome>>

-----------------------------------------------------------------------------
(* ensure_table_raw, one action per statement.                             *)

(* The cache spares a table its DDL; a batch makes sure of each in turn.   *)
NextTable(c) ==
    /\ pc[c] = "tables"
    /\ \/ /\ want[c] \subseteq tables[ProcOf[c]]
          /\ Goto(c, "run")
       \/ \E t \in want[c] \ tables[ProcOf[c]] :
            /\ pc' = [pc EXCEPT ![c] = "create"]
            /\ tab' = [tab EXCEPT ![c] = t]
            /\ UNCHANGED <<call, want, entry, mine, doomed, filter, written>>
    /\ UNCHANGED <<ddl, rows, tables, outcome>>

(* Of the statements that create the same object at the same time, those   *)
(* that began before the first commits and did not see it fail with it.    *)
Rivals(c) == {d \in Clients \ {c} : pc[d] = pc[c] /\ tab[d] = tab[c]}

Creates(c, next) ==
    /\ \E late \in SUBSET Rivals(c) :
        pc' = [d \in Clients |-> IF d \in late THEN "raced"
                                 ELSE IF d = c THEN next ELSE pc[d]]
    /\ UNCHANGED <<call, want, tab, entry, mine, doomed, filter, written>>

Raced(c) ==
    /\ pc[c] = "raced"
    /\ Ends(c, Violation(c))
    /\ UNCHANGED <<ddl, tables>>

CreateTable(c) ==
    /\ pc[c] = "create"
    /\ IF tab[c] \in made
         THEN Goto(c, "columns") /\ UNCHANGED ddl
         ELSE /\ made' = made \cup {tab[c]} /\ full' = full \cup {tab[c]}
              /\ Creates(c, "columns") /\ UNCHANGED <<plain, uniq>>
    /\ UNCHANGED <<rows, tables, outcome>>

(* Altering or indexing a table waits for the transactions that write it.  *)
Locks(d, t) == \E k \in KeysOf(t) : mine[d][k] # Kept \/ (entry[d] # NoEntry /\ entry[d].key = k)

Quiet(c, t) == \A d \in Clients \ {c} : ~ Locks(d, t)

(* ADD COLUMN: whatever goes wrong is taken for the column being there.    *)
AddColumns(c) ==
    /\ pc[c] = "columns"
    /\ Quiet(c, tab[c])
    /\ full' = full \cup {tab[c]}
    /\ Goto(c, "indexes")
    /\ UNCHANGED <<made, plain, uniq, rows, tables, outcome>>

(* The plain indexes: they fail on a column that is not there.             *)
CreateIndexes(c) ==
    /\ pc[c] = "indexes"
    /\ Quiet(c, tab[c])
    /\ \/ /\ tab[c] \notin full
          /\ Ends(c, "failed") /\ UNCHANGED plain
       \/ /\ tab[c] \in plain
          /\ Goto(c, "uniques") /\ UNCHANGED <<plain, rows, outcome>>
       \/ /\ tab[c] \in full \ plain
          /\ plain' = plain \cup {tab[c]}
          /\ Creates(c, "uniques") /\ UNCHANGED <<rows, outcome>>
    /\ UNCHANGED <<made, full, uniq, tables>>

(* Two rows agree on the group's columns; NULL agrees with nothing.        *)
Equal(g, row, other) == \A col \in g.cols : row[col] = other[col] /\ row[col] # Missing

HasDuplicates(g) ==
    \E k, j \in Present(rows) :
        k # j /\ TableOf[k] = g.table /\ TableOf[j] = g.table /\ Equal(g, rows[k], rows[j])

(* IF NOT EXISTS goes by the index's name.                                 *)
Named(g) == \E h \in uniq : IndexName[h] = IndexName[g]

CreateUnique(c) ==
    /\ pc[c] = "uniques"
    /\ Quiet(c, tab[c])
    /\ \E g \in GroupsOf(tab[c]) :
        \/ /\ ~ Named(g) /\ HasDuplicates(g)
           /\ Ends(c, Violation(c)) /\ UNCHANGED uniq
        \/ /\ ~ Named(g) /\ ~ HasDuplicates(g)
           /\ uniq' = uniq \cup {g}
           /\ Creates(c, "uniques") /\ UNCHANGED <<rows, outcome>>
    /\ UNCHANGED <<made, full, plain, tables>>

(* Faulty variant of Ensured: the UNIQUE indexes are left out.             *)
EnsuredWithoutIndexes(c) ==
    /\ pc[c] = "uniques"
    /\ tables' = [tables EXCEPT ![ProcOf[c]] = @ \cup {tab[c]}]
    /\ pc' = [pc EXCEPT ![c] = "tables"]
    /\ tab' = [tab EXCEPT ![c] = NoTable]
    /\ UNCHANGED <<ddl, rows, call, want, entry, mine, doomed, filter, written, outcome>>

(* The table is remembered.                                                *)
Ensured(c) ==
    /\ pc[c] = "uniques"
    /\ \A g \in GroupsOf(tab[c]) : Named(g)
    /\ tables' = [tables EXCEPT ![ProcOf[c]] = @ \cup {tab[c]}]
    /\ pc' = [pc EXCEPT ![c] = "tables"]
    /\ tab' = [tab EXCEPT ![c] = NoTable]
    /\ UNCHANGED <<ddl, rows, call, want, entry, mine, doomed, filter, written, outcome>>

-----------------------------------------------------------------------------
(* Locks of rows and values.                                               *)

(* d has written row k, or holds it while its values are checked.          *)
HoldsKey(d, k) == mine[d][k] # Kept \/ (pc[d] = "unique" /\ entry[d].key = k)

(* A UNIQUE index of k's table keeps row out of it while other is there.   *)
Collide(k, row, other) ==
    other \notin {NoRow, Kept} /\ \E g \in uniq : g.table = TableOf[k] /\ Equal(g, row, other)

(* Row k of d, as it was committed or as d has written it at any time,     *)
(* holds a value of row.                                                   *)
HoldsValue(d, k, row) ==
    /\ HoldsKey(d, k)
    /\ \/ Collide(k, row, rows[k])
       \/ \E i \in DOMAIN written[d] :
            written[d][i].key = k /\ Collide(k, row, written[d][i].row)

SameTable(k) == KeysOf(TableOf[k]) \ {k}

WaitsForKey(c, k) == {d \in Clients \ {c} : HoldsKey(d, k)}

WaitsForValues(c) ==
    {d \in Clients \ {c} : \E j \in SameTable(entry[c].key) : HoldsValue(d, j, entry[c].row)}

WaitsFor(c) ==
    CASE pc[c] = "key"    -> WaitsForKey(c, entry[c].key)
      [] pc[c] = "unique" -> WaitsForValues(c)
      [] pc[c] = "rows"   -> UNION {WaitsForKey(c, k) : k \in doomed[c]}
      [] OTHER            -> {}

(* Row j as c sees it.                                                     *)
Seen(c, j) == IF mine[c][j] = Kept THEN rows[j] ELSE mine[c][j]

(* A UNIQUE index refuses the row that c is writing.                       *)
Refused(c) ==
    \E j \in SameTable(entry[c].key) : Collide(entry[c].key, entry[c].row, Seen(c, j))

-----------------------------------------------------------------------------
(* A statement that writes one row: an upsert, an insert, an entry of a    *)
(* batch.  It takes the key, then a place in every UNIQUE index.           *)

Submits(c, k, row) ==
    /\ pc' = [pc EXCEPT ![c] = "key"]
    /\ entry' = [entry EXCEPT ![c] = [key |-> k, row |-> row]]
    /\ UNCHANGED <<call, want, tab, mine, doomed, filter, written>>

Write(c, k, row) ==
    /\ pc[c] = "run" /\ call[c] \in {"save", "insert"}
    /\ TableOf[k] \in want[c]
    /\ Submits(c, k, row)
    /\ UNCHANGED <<ddl, rows, tables, outcome>>

Selected(t, filters) == {k \in KeysOf(t) : rows[k] # NoRow /\ Matches(rows[k], filters)}

(* The guard reads NULL as 0; NOT EXISTS sees what is committed now.       *)
GuardNumber(cell) == IF cell = Missing THEN 0 ELSE NumOf[cell]

WriteGuarded(c, k, row, partition, col) ==
    /\ pc[c] = "run" /\ call[c] = "guarded"
    /\ TableOf[k] \in want[c]
    /\ IF \E j \in Selected(TableOf[k], partition) : GuardNumber(rows[j][col]) >= NumOf[row[col]]
         THEN Ends(c, "rejected")
         ELSE Submits(c, k, row) /\ UNCHANGED <<rows, outcome>>
    /\ UNCHANGED <<ddl, tables>>

BatchEntry(c, k, row) ==
    /\ pc[c] = "entries" /\ Len(written[c]) < MaxBatch
    /\ TableOf[k] \in want[c]
    /\ Submits(c, k, row)
    /\ UNCHANGED <<ddl, rows, tables, outcome>>

(* What a UNIQUE violation of its row tells the caller.                    *)
Collision(c) == IF call[c] = "guarded" THEN "rejected" ELSE "conflict"

(* Only the upsert of save and save_batch goes on over an existing row.    *)
TakeKey(c) ==
    /\ pc[c] = "key"
    /\ WaitsForKey(c, entry[c].key) = {}
    /\ IF call[c] \in {"insert", "guarded"} /\ rows[entry[c].key] # NoRow
         THEN Ends(c, Collision(c))
         ELSE Goto(c, "unique") /\ UNCHANGED <<rows, outcome>>
    /\ UNCHANGED <<ddl, tables>>

WithEntry(c) == [mine EXCEPT ![c][entry[c].key] = entry[c].row]

(* Faulty variant of Enters: an entry of a batch is committed at once.     *)
EntersAtOnce(c) ==
    /\ rows' = [rows EXCEPT ![entry[c].key] = entry[c].row]
    /\ IF call[c] = "batch"
         THEN /\ written' = [written EXCEPT ![c] = Append(@, entry[c])]
              /\ pc' = [pc EXCEPT ![c] = "entries"]
              /\ entry' = [entry EXCEPT ![c] = NoEntry]
              /\ UNCHANGED <<mine, call, want, tab, doomed, filter, outcome>>
         ELSE Leave(c) /\ outcome' = "ok"

(* The row is written: a batch goes on, the others commit.                 *)
Enters(c) ==
    \/ /\ call[c] = "batch"
       /\ mine' = WithEntry(c)
       /\ written' = [written EXCEPT ![c] = Append(@, entry[c])]
       /\ pc' = [pc EXCEPT ![c] = "entries"]
       /\ entry' = [entry EXCEPT ![c] = NoEntry]
       /\ UNCHANGED <<rows, call, want, tab, doomed, filter, outcome>>
    \/ /\ call[c] # "batch"
       /\ rows' = [rows EXCEPT ![entry[c].key] = entry[c].row]
       /\ Leave(c)
       /\ outcome' = IF call[c] = "guarded" THEN "landed" ELSE "ok"

(* Faulty variant of TakeValues: values being written are not waited for.  *)
TakeValuesUnseen(c) ==
    /\ pc[c] = "unique"
    /\ IF Refused(c) THEN Ends(c, Collision(c)) ELSE Enters(c)
    /\ UNCHANGED <<ddl, tables>>

TakeValues(c) ==
    /\ pc[c] = "unique"
    /\ WaitsForValues(c) = {}
    /\ IF Refused(c) THEN Ends(c, Collision(c)) ELSE Enters(c)
    /\ UNCHANGED <<ddl, tables>>

BatchBegin(c) ==
    /\ pc[c] = "run" /\ call[c] = "batch"
    /\ Goto(c, "entries")
    /\ UNCHANGED <<ddl, rows, tables, outcome>>

BatchCommit(c) ==
    /\ pc[c] = "entries"
    /\ rows' = Committed(c)
    /\ Leave(c)
    /\ outcome' = "ok"
    /\ UNCHANGED <<ddl, tables>>

-----------------------------------------------------------------------------
(* Reads and deletes.                                                      *)

Read(c) ==
    /\ pc[c] = "run" /\ call[c] = "read"
    /\ Leave(c)
    /\ UNCHANGED <<ddl, rows, tables, outcome>>

(* A delete finds its rows among those committed when it begins ...        *)
Deletes(c, ks, filters) ==
    /\ pc' = [pc EXCEPT ![c] = "rows"]
    /\ doomed' = [doomed EXCEPT ![c] = {k \in ks : rows[k] # NoRow /\ Matches(rows[k], filters)}]
    /\ filter' = [filter EXCEPT ![c] = filters]
    /\ UNCHANGED <<ddl, rows, tables, call, want, tab, entry, mine, written, outcome>>

Delete(c, k) ==
    /\ pc[c] = "run" /\ call[c] = "delete"
    /\ TableOf[k] \in want[c]
    /\ Deletes(c, {k}, NoFilter)

(* delete_where, delete_all, and the delete of a replace_where.  Where a   *)
(* column may have no value at all Query::delete answers 0 by itself.      *)
DeleteWhere(c, t, filters) ==
    /\ pc[c] = "run" /\ call[c] \in {"delete", "replace"}
    /\ t \in want[c]
    /\ \A col \in DOMAIN filters : filters[col] # {}
    /\ Deletes(c, KeysOf(t), filters)

(* Faulty variant of DeleteRow: it does not wait, and does not look again. *)
DeleteRowBlindly(c, k) ==
    /\ pc[c] = "rows" /\ k \in doomed[c]
    /\ doomed' = [doomed EXCEPT ![c] = @ \ {k}]
    /\ mine' = [mine EXCEPT ![c][k] = NoRow]
    /\ UNCHANGED <<ddl, rows, tables, pc, call, want, tab, entry, filter, written, outcome>>

(* ... and looks again at each when it has its lock.                       *)
DeleteRow(c, k) ==
    /\ pc[c] = "rows" /\ k \in doomed[c]
    /\ WaitsForKey(c, k) = {}
    /\ doomed' = [doomed EXCEPT ![c] = @ \ {k}]
    /\ mine' = IF rows[k] # NoRow /\ Matches(rows[k], filter[c])
                 THEN [mine EXCEPT ![c][k] = NoRow] ELSE mine
    /\ UNCHANGED <<ddl, rows, tables, pc, call, want, tab, entry, filter, written, outcome>>

(* The items of a replace_where are a batch of their own.                  *)
DeleteCommit(c) ==
    /\ pc[c] = "rows" /\ doomed[c] = {}
    /\ rows' = Committed(c)
    /\ IF call[c] = "replace"
         THEN /\ pc' = [pc EXCEPT ![c] = "tables"]
              /\ call' = [call EXCEPT ![c] = "batch"]
              /\ mine' = [mine EXCEPT ![c] = Nothing]
              /\ filter' = [filter EXCEPT ![c] = NoFilter]
              /\ UNCHANGED <<want, tab, entry, doomed, written, outcome>>
         ELSE Leave(c) /\ outcome' = "ok"
    /\ UNCHANGED <<ddl, tables>>

-----------------------------------------------------------------------------
(* What goes wrong.                                                        *)

(* c waits for itself through others; the least set that contains those    *)
(* it waits for, and those they wait for, contains c.                      *)
Deadlocked(c) ==
    \A S \in SUBSET Clients :
        (WaitsFor(c) \subseteq S /\ \A d \in S : WaitsFor(d) \subseteq S) => c \in S

(* Faulty variant of DeadlockAborted: the server leaves them waiting.      *)
DeadlockLasts(c) == FALSE

DeadlockAborted(c) ==
    /\ pc[c] \in Writing
    /\ Deadlocked(c)
    /\ Ends(c, "failed")
    /\ UNCHANGED <<ddl, tables>>

(* No connection comes free in time, or the server is lost: an error, that *)
(* ADD COLUMN takes for the column being there.                            *)
Fault(c) ==
    /\ pc[c] \in Creating \cup Writing \cup {"run"}
    /\ IF pc[c] = "columns"
         THEN Goto(c, "indexes") /\ UNCHANGED <<rows, outcome>>
         ELSE Ends(c, "failed")
    /\ UNCHANGED <<ddl, tables>>

(* Faulty variant of Dropped: the connection goes back to the pool with    *)
(* its transaction open.                                                   *)
DroppedOpen(c) ==
    /\ pc[c] # "idle"
    /\ pc' = [pc EXCEPT ![c] = "idle"] /\ call' = [call EXCEPT ![c] = "none"]
    /\ want' = [want EXCEPT ![c] = {}] /\ tab' = [tab EXCEPT ![c] = NoTable]
    /\ entry' = [entry EXCEPT ![c] = NoEntry]
    /\ doomed' = [doomed EXCEPT ![c] = {}] /\ filter' = [filter EXCEPT ![c] = NoFilter]
    /\ written' = [written EXCEPT ![c] = << >>]
    /\ UNCHANGED <<ddl, rows, tables, mine, outcome>>

(* The caller drops its future: a transaction rolls back when dropped.     *)
Dropped(c) ==
    /\ pc[c] # "idle"
    /\ Leave(c)
    /\ UNCHANGED <<ddl, rows, tables, outcome>>

(* A process stops, and its successor starts with an empty cache.          *)
Restart(p) ==
    LET Of(f, init) == [c \in Clients |-> IF ProcOf[c] = p THEN init ELSE f[c]]
    IN  /\ tables' = [tables EXCEPT ![p] = {}]
        /\ pc' = Of(pc, "idle") /\ call' = Of(call, "none")
        /\ want' = Of(want, {}) /\ tab' = Of(tab, NoTable)
        /\ entry' = Of(entry, NoEntry) /\ mine' = Of(mine, Nothing)
        /\ doomed' = Of(doomed, {}) /\ filter' = Of(filter, NoFilter)
        /\ written' = Of(written, << >>)
        /\ UNCHANGED <<ddl, rows, outcome>>

-----------------------------------------------------------------------------
Opened ==
    /\ tables = [p \in Procs |-> {}]
    /\ pc = [c \in Clients |-> "idle"] /\ call = [c \in Clients |-> "none"]
    /\ want = [c \in Clients |-> {}] /\ tab = [c \in Clients |-> NoTable]
    /\ entry = [c \in Clients |-> NoEntry] /\ mine = [c \in Clients |-> Nothing]
    /\ doomed = [c \in Clients |-> {}] /\ filter = [c \in Clients |-> NoFilter]
    /\ written = [c \in Clients |-> << >>]
    /\ outcome = "none"

(***************************************************************************)
(* A database as an older version of the program may have left it, or a    *)
(* new one: some tables are there, some of them without the new columns    *)
(* and with any rows, some groups have their UNIQUE index.                 *)
(***************************************************************************)
InitUpgraded ==
    /\ made \in SUBSET Tables /\ full \in SUBSET made
    /\ NewCols = {} => full = made
    /\ plain = full
    /\ uniq \in SUBSET {g \in Groups : g.table \in full}
    /\ rows \in Contents
    /\ \A k \in Present(rows) :
        /\ TableOf[k] \in made
        /\ \A col \in Cols : rows[k][col] = Missing
                <=> TableOf[k] \notin full /\ col \in NewCols
    /\ \A g \in uniq : ~ HasDuplicates(g)
    /\ Opened

(* The same without any rows.                                              *)
Init == rows = [k \in Keys |-> NoRow] /\ InitUpgraded

Ensuring(c) == \/ NextTable(c) \/ Raced(c) \/ CreateTable(c) \/ AddColumns(c)
               \/ CreateIndexes(c) \/ CreateUnique(c) \/ Ensured(c)

Running(c) ==
    \/ Read(c) \/ TakeKey(c) \/ TakeValues(c)
    \/ BatchBegin(c) \/ BatchCommit(c) \/ DeleteCommit(c) \/ DeadlockAborted(c)
    \/ \E k \in Keys, row \in Rows : Write(c, k, row) \/ BatchEntry(c, k, row)
    \/ \E k \in Keys, row \in Rows, p \in EqFilters, col \in Cols :
            WriteGuarded(c, k, row, p, col)
    \/ \E k \in Keys : Delete(c, k) \/ DeleteRow(c, k)
    \/ \E t \in Tables, f \in Filters : DeleteWhere(c, t, f)

Step(c) == Ensuring(c) \/ Running(c)

Arrive(c) ==
    \E kind \in Calls, ts \in SUBSET Tables : Start(c, kind, ts)

Next ==
    \/ \E c \in Clients : Arrive(c) \/ Step(c) \/ Fault(c) \/ Dropped(c)
    \/ \E p \in Procs : Restart(p)

(* A task in a call goes on: locks are granted in the order of requests,   *)
(* and nobody is owed an error or a restart.                               *)
Fairness == \A c \in Clients : SF_vars(Step(c))

Spec == Init /\ [][Next]_vars
SpecUpgraded == InitUpgraded /\ [][Next]_vars
SpecFair == SpecUpgraded /\ Fairness

-----------------------------------------------------------------------------
(* Properties.                                                             *)

(***************************************************************************)
(* A table that any process remembers is there, with its columns and with  *)
(* a UNIQUE index for every group: that process never runs its DDL again.  *)
(***************************************************************************)
CacheSound ==
    \A p \in Procs : \A t \in tables[p] : t \in made \cap full /\ GroupsOf(t) \subseteq uniq

(***************************************************************************)
(* No two committed rows of a remembered table agree on a group, though    *)
(* every check is made before other transactions commit what they have     *)
(* written.                                                                *)
(***************************************************************************)
RememberedTablesAreUnique ==
    \A p \in Procs : \A t \in tables[p] : \A g \in GroupsOf(t) : ~ HasDuplicates(g)

(***************************************************************************)
(* A delete takes only rows that match its filters when it commits, though *)
(* it chose them before it had their locks.                                *)
(***************************************************************************)
DeletesOnlyWhatMatches ==
    [][\A c \in Clients : pc[c] = "rows" /\ pc'[c] # "rows" =>
        \A k \in Keys : rows[k] # NoRow /\ rows'[k] = NoRow => Matches(rows[k], filter[c])]_vars

(***************************************************************************)
(* Every call returns: batches that take the same rows or values in        *)
(* different orders do not wait for each other for ever, nor do the        *)
(* deletes of replaces for them, nor DDL for writers.                      *)
(***************************************************************************)
EveryCallReturns == \A c \in Clients : pc[c] # "idle" ~> pc[c] = "idle"

(***************************************************************************)
(* From empty tables the backend is a UniqueTable.  Its guarded insert is  *)
(* one of save's upserts: it refuses for good reason only, but when it     *)
(* lands its guard may no longer hold (see GuardedInsert).                 *)
(***************************************************************************)
Promised == CASE outcome = "landed"   -> "ok"
              [] outcome = "spurious" -> "failed"
              [] OTHER                -> outcome

Abs == INSTANCE UniqueTable WITH outcome <- Promised
ImplementsUniqueTable == Abs!Spec

-----------------------------------------------------------------------------
(***************************************************************************)
(* What makes the invariants inductive.  A task knows what its DDL has     *)
(* done so far.  A key is held by one task at a time.  No two rows collide *)
(* under an index that is there: among those committed, among those a task *)
(* would leave if it committed now, and among those that two tasks have    *)
(* written and not committed.                                              *)
(***************************************************************************)
Phase(c) ==
    /\ pc[c] \in {"columns", "indexes"} => tab[c] \in made
    /\ pc[c] = "uniques" => tab[c] \in plain
    /\ pc[c] \in {"key", "unique"} => IF call[c] = "batch" THEN Len(written[c]) < MaxBatch
                                      ELSE mine[c] = Nothing
    /\ pc[c] = "entries" => call[c] = "batch"
    /\ pc[c] = "rows" => written[c] = << >>

Exclusive ==
    \A c, d \in Clients : c # d => \A k \in Keys : ~ (HoldsKey(c, k) /\ HoldsKey(d, k))

Differ(g, row, other) ==
    row \notin {NoRow, Kept} /\ other \notin {NoRow, Kept} => ~ Equal(g, row, other)

Apart(contents, others) ==
    \A g \in uniq : \A k, j \in KeysOf(g.table) : k # j => Differ(g, contents[k], others[j])

(* A row that a transaction has written is among the entries it has        *)
(* written, which others look at.                                          *)
MineIsWritten(c) ==
    \A k \in Keys : mine[c][k] \notin {Kept, NoRow} =>
        \E i \in DOMAIN written[c] : written[c][i] = [key |-> k, row |-> mine[c][k]]

LocksHold ==
    /\ Exclusive
    /\ \A c \in Clients : MineIsWritten(c)
    /\ Apart(rows, rows)
    /\ \A c \in Clients : Apart(Committed(c), Committed(c))
    /\ \A c, d \in Clients : c # d => Apart(mine[c], mine[d])

IInv == TypeOK /\ CacheSound /\ (\A c \in Clients : Phase(c)) /\ LocksHold

(***************************************************************************)
(* What makes a batch a single step of UniqueTable, from a new database.   *)
(* A task in a statement has made sure of its tables.  The entries of a    *)
(* batch would still land, one after the other, on what is committed now,  *)
(* and would leave what the task would commit; and those of two batches do *)
(* not collide.                                                            *)
(***************************************************************************)
Ready(c) ==
    /\ pc[c] \in {"run"} \cup Writing => want[c] \subseteq tables[ProcOf[c]]
    /\ pc[c] \in {"key", "unique"} =>
            TableOf[entry[c].key] \in want[c] /\ (call[c] = "guarded" => Cols # {})
    /\ \A i \in DOMAIN written[c] : TableOf[written[c][i].key] \in want[c]
    /\ pc[c] = "rows" => \A k \in Keys : mine[c][k] \in {Kept, NoRow}

Pending(c) ==
    pc[c] # "rows" =>
        /\ \A k \in Keys : mine[c][k] # Kept <=> \E i \in DOMAIN written[c] : written[c][i].key = k
        /\ Committed(c) = After(rows, written[c], Len(written[c]))
        /\ Lands(rows, written[c])

Claimed(e) == Claims(TableOf[e.key], e.row)

NoneClaims(c, d) ==
    \A i \in DOMAIN written[c], j \in DOMAIN written[d] :
        Claimed(written[c][i]) \cap Claimed(written[d][j]) = {}

RInv ==
    /\ rows \in [Keys -> Rows \cup {NoRow}]
    /\ \A c \in Clients : Ready(c) /\ Pending(c)
    /\ \A c, d \in Clients : c # d => NoneClaims(c, d)
=============================================================================
