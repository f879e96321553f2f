# airnest in TLA+

airnest stores typed Rust values in SQLite, Postgres or redb behind one API. A
type derives `Persistent`, which gives it a table, index columns and
uniqueness groups (`unique(a, b)`); `Store` offers `save`, `insert`, `update`,
`delete`, batches, conditional replacement, sequence-guarded inserts, queries
and transactions, and each backend implements them in its own way. This
directory holds TLA+ modules for the parts of that program whose correctness
rests on the order of steps or on the agreement of several implementations,
the TLC configurations that check them on small instances, and TLAPS proofs of
what holds for every instance.

All paths below are relative to `src/airnest/src/` unless they start with
`src/`.

## 1. Inventory

| Component | State | Operations | What makes it hard |
|---|---|---|---|
| redb backend (`backend/redb.rs`) | one file with `airnest_kv` (rows by table and id) and `airnest_uq` (unique value to owner) | `save`, `insert`, `insert_guarded`, `delete`, `delete_all`, `delete_where`, `save_batch`, `replace_where`, scans | the second table is kept in step with the first by hand; `replace_where` is three transactions with awaits between them; a batch may fail at any entry; crash |
| SQLite backend (`backend/sqlite.rs`, `backend/sqlite_dialect.rs`) | a file or memory, a pool of connections, a cache of tables whose DDL has run, a cache of upsert texts | `ensure_table` and the same calls; `*_in` variants inside a transaction | DDL is several autocommitted statements; the cache outlives them; one write lock; one connection in memory; timeouts; dropped futures; files of older versions |
| Postgres backend (`backend/postgres.rs`, `backend/postgres_dialect.rs`) | a database shared by processes, a pool and a cache of tables in each | the same calls, without transactions of the caller's | READ COMMITTED: a statement chooses rows in one snapshot and writes to a later state; row locks and the locks of unique values; deadlocks between batches; concurrent `CREATE IF NOT EXISTS` |
| `Store` (`store.rs`) | a backend and a codec | typed calls; `update` and the upsert builder are load, change, save; `transaction` with `Tx` and `TxQuery` | read-modify-write without a transaction; what a closure sees; conflicts turned into `Conflict` or `Rejected` |
| Contract (`backend/mod.rs`, `backend/dialect.rs`, `persistent.rs`) | none | the `Backend` trait, `Filter`, `SequenceGuard`, `BatchEntry`, unique groups | three engines must agree |
| Queries (`store.rs`, dialects, `redb.rs`) | none | filters, order, limit, count, groups, lenient reads | redb computes in memory what the others ask for in SQL; a cell read as a number in three ways; missing cells; blobs that do not decode |
| Codec and upgrade (`codec.rs`) | none | encode, decode with the type's upgrade function as fallback | rows of older versions; a positional codec cannot tell shapes by name |
| `persistent` macro (`src/airnest-macros/src/lib.rs`) | none | turns a declaration into table, columns, cells and groups | declarations follow one another over the same table, and back |
| `AirId` and conversions (`air_id.rs`, `into_air_id.rs`, `index.rs`, `serde_helpers.rs`) | none | id generation, values to cells | - |

How they interact. A task calls `Store`, which calls a backend method with the
type's schema (what the macro made of its declaration) and a batch, filter or
guard. The SQL backends first make sure of the type's table (`ensure_table`),
through the pool and the cache, and then run the statement; redb runs a
closure on a blocking thread inside one transaction. `Store::transaction` is
SQLite only: it takes a connection, runs `BEGIN IMMEDIATE`, hands the closure a
`Tx` whose operations run on that connection (with their DDL), and commits or
rolls back. Tasks share the backend and so the cache, the pool and the
database; any of them may be dropped at an await, and the process may stop. A
Postgres database is also shared by processes, and any database by the versions
of the program that follow one another: a row is a blob in the shape of the
version that saved it, beside the index cells that version knew.

What makes each part correct:

* redb: no two rows of a table agree on a group; a unique value is owned exactly
  by the row that claims it; a batch or call lands as a whole or not at all.
* SQLite: a remembered table is committed with its indexes, and with its columns
  unless adding one has failed; no statement meets a missing table; indexes hold in spite of older rows; nobody
  commits behind an open transaction; batches and transactions are atomic; every
  call returns, with a single connection too.
* Postgres: a remembered table has its indexes, whichever process ran the DDL;
  rows never collide, although they are checked before others commit; a batch
  lands as a whole or not at all; a delete takes only rows that match when it
  commits; every call returns, batches that lock the same rows in different
  orders included.
* insert_guarded: a number is won once, in order, and stays in the table.
* Queries: redb answers as SQL may; the ways of counting agree; a row is found by
  the values it decodes to.
* Versions: the groups of a version hold over the rows of all versions; cells tell
  values; only colliding rows keep a version from its first use.

`PROJECT.json` lists the hazards at their lines. Those without a property are in
section 8.

## 2. The modules

    Schema               tables, keys, rows, groups, filters, guards, batches
      SchemaProofs       lemmas on claims and batches, for the backends' proofs
      UniqueTable        the abstract specification: what every backend promises
      RedbBackend        redb; refines UniqueTable (rows <- kv)
        RedbBackendProofs
        MCRedbBackend
      SqliteBackend      SQLite with Store::transaction; refines UniqueTable
        SqliteBackendProofs        (rows <- db.rows)
        MCSqliteBackend
      PostgresBackend    Postgres; refines UniqueTable (outcome <- Promised)
        PostgresBackendProofs
          PostgresRefinementProofs
        MCPostgresBackend
    GuardedInsert        insert_guarded, with the atomicity of each backend
      GuardedInsertProofs
      MCGuardedInsert
    Reads                queries, counts and lenient reads over decoded blobs
      ReadsProofs
      MCReads
    Versions             one table through the declarations of its type
      VersionsProofs
      MCVersions

Operators called "Faulty variant of ..." are not part of any specification. Each
stands before the definition it distorts, the way a plausible bug would, and
`PROJECT.json` says which property notices it.

**Schema.** A blob is left out: a row is the function from index columns to
cells. `Missing` is the cell of a row saved before its column existed. A group
is a table with a set of columns. `UniqueKey` is the key of `airnest_uq`, where a
missing cell reads as the empty one (`redb.rs:33`). `InRange` is the range that
redb's scans visit: it ends at the table prefix followed by the byte 0xff, so
ids that start with that byte (`HighIds`) lie outside.

**UniqueTable.** One variable for the rows and one for the outcome of the last
operation to end. `Put`, `PutAll`, `Create`, `CreateGuarded`, `Transact`,
`Remove` and `Fail` say when an operation is refused and what it changes. There
is no index in it: a refusal is a fact about rows.

**RedbBackend.** `kv` and `uq` are the committed tables. An operation that is
one write transaction is one action (`Save`, `Insert`, `InsertGuarded`,
`Delete`, `DeleteAll`, `DeleteWhere`), because redb admits one writer and shows
readers the last commit. A batch is `BatchBegin`, `BatchEntry` once per entry on
the staged `newKv` and `newUq`, then `BatchCommit`, or `BatchRefused` at the
first entry whose value is taken. `replace_where` is `ReplaceCollect` (a read
transaction; `doomed` holds the rows with the cells they had), `ReplaceDelete`
(removes by key, and unique keys by the collected cells), and `ReplaceInsert`,
which opens a batch; `ReplaceDropped` is the caller going away in between and
`Crash` the process stopping. Nothing keeps other writers out between the three:
the code has no such lock. `Sync` is `sync_unique_keys`, `Release` is
`remove_unique_keys`, which looks at no owner. `DeleteAll` empties both tables by
a range, and passes by rows whose id starts with 0xff (`HighIds`). The history
variable `torn` has the tables whose unique keys may no longer match their rows
because of one of the two deletes that can do that: a `ReplaceDelete` of rows
that have changed since they were read (`Stale`), or a `DeleteAll` that has left
rows (`Survivors`); a `DeleteAll` that leaves none makes the table whole again.

**GuardedInsert.** The same call on three engines; a behaviour chooses its
setting once. `engine` is redb, whose insert replaces a row with the same id
(`Overwrites`), SQLite, or Postgres, whose check (`Check`) sees the rows as of the
statement's start and whose insert (`Apply`) happens later (`Snapshot`).
`indexed`: the type declares a group over partition and sequence. `fresh`:
callers never reuse an id. `reply` is what each caller was told last.

**SqliteBackend.** `db` is the committed database: its tables (`made`), those
with every index column (`full`), its unique indexes and its rows. `work` is
what the connection with the write lock sees, `writer` who that is, `tables` the
cache. `pc` walks through `ensure_table_in` one statement at a time
(`NextTable`, `CreateTable`, `AddColumns`, `CreateIndexes`, `CreateUnique`,
`Ensured`), then the call's own statement (`run`), a batch (`entries`) or a
transaction (`begin`, `body`). Inside a transaction the DDL runs on the
transaction's connection and `Ensured` remembers nothing; `Tx::load` and
`Tx::delete` (`bare`) make sure of nothing and fail on a missing table.
`Busy` is the busy timeout, `Starved` the pool's acquire timeout, `Dropped` a
dropped future, `Restart` a crash or a second start on the same file.
`InitUpgraded` is any file of an older version: some tables, some of them
without the columns that are new, any rows, no unique index. What SQLite does
is external and modelled from its documented behaviour: one write lock, readers
on the last commit, NULLs distinct in a unique index, `IF NOT EXISTS` by name.
sqlx bundles SQLite with its default `SQLITE_DQS = 3`, and nothing in the
repository's build changes it: a quoted name that is no column is a string, in
CREATE INDEX and in a filter. So `CreateIndexes` and `CreateUnique` go through
where ADD COLUMN was lost, over the columns that are there (`Existing`), a filter
matches no row, and only a statement that writes the column fails (`WriteFails`,
`BatchEntryFails`). The history variable `lost` has the tables on which an ADD
COLUMN has failed in this process.

**PostgresBackend.** The DDL state is shared (`made`, `full`, `plain` for tables
with their plain indexes, `uniq` for groups with a UNIQUE index), the cache
`tables` is each process's own. `pc` takes the same way through
`ensure_table_raw`, every statement committed alone. When a `CREATE ... IF NOT
EXISTS` commits, any of those that run beside it may have missed it and fail
(`Rivals`, `raced`, `Raced`); a batch reports that as `Conflict`, the outcome
"spurious". A statement that writes one row is `Write`, `WriteGuarded` or
`BatchEntry`, then `TakeKey` (the row lock, the primary key) and `TakeValues` (a
place in every unique index), where it waits for the transactions that hold the
row or any of its values, old or new (`HoldsKey`, `HoldsValue`, `WaitsFor`).
`mine` is what an open transaction has written, `written` the entries of its
batch. A delete chooses its rows on the committed state (`Deletes`), then locks
and looks again one by one (`DeleteRow`); `replace_where` commits its delete and
goes on as a batch of its own (`DeleteCommit`). `Deadlocked` is a cycle of
`WaitsFor`, which the server breaks (`DeadlockAborted`); `Fault` is a lost
connection or an acquire timeout, which ADD COLUMN takes for the column being
there; `Dropped` and `Restart` (of one process) roll back. `IF NOT EXISTS` goes by the
index name (`Named`); `NamesDiffer` assumes that no two groups share one.

**Reads.** The rows of one type as cells beside a blob; a blob is its codec and
the shape that was encoded. `DecodeRow` is `codec.rs`: the current shape first,
the upgrade function second. `Answer` is what redb computes for a query: filter
(`Filtered`, Rust's `retain`), one stable sort for every key taken from the last to
the first (`Sorted`), truncate. `Allowed` says what a SELECT with the same clauses may answer; where
an engine places a cell is `Place`. `Count`, `AllDecodable` and `GroupedBy` are the
three ways of counting. `SaveBatch` is a batch made by `StoreBatch::new`, whose
blobs are bitcode whatever the store's codec.

**Versions.** A declaration is a list of fields, which of them are JSON, which
indexed, and the unique groups. `Columns`, `ColumnNames`, `CellOf` and `Accepted`
are the macro; `Ensure` is the first use of the type by a process (create, add columns,
build the groups in order up to the first that fails), `Deploy` the start of
another version, older or newer. `Upserted` writes the columns the running
version knows and leaves the others. Rows decode by position: a shorter blob is
left to the upgrade function, of a longer one postcard reads the fields it asks
for (`postcard::from_bytes` ignores what follows), which bitcode refuses; an
`Update` by an older version then cuts the row short, and so does the model. The
engines differ in an index over a name that is no column: an error on Postgres
(`CanBuild`), an index over a string on SQLite, which compares the columns that
are there (`Compared`). When a later version adds the column, the entries of the
rows that are there still hold the string (`OutOfDate`, the `stale` of a row), and
SQLite refuses to update or delete such a row ("database disk image is
malformed", `Malformed`).

## 3. The runs

| Run | Result | What it shows |
|---|---|---|
| `redb` | holds | two clients, two tables, an id no scan visits, every interleaving: in any table that no delete has torn `UntornMirror` and `UntornAreUnique`; and until one is torn redb implements `UniqueTable`, batches taken entry by entry |
| `redb_torn` | violated | `UniqueRows`: a stale replace tears a table, and a duplicate is accepted (section 7) |
| `guarded` | holds | three engines, with and without the UNIQUE index and fresh ids: `OneWinner`, `WinnersAreStored`, `WinsGrow`, each under the conditions it names |
| `guarded_stale` | violated | `LandsAbove`: on Postgres a smaller number can land after a larger one |
| `sqlite_safety` | holds | `CacheSound`, `StatementsFindTheirTable`, `RememberedTablesAreUnique`, `CommittedUnderATransaction` from any older file, with timeouts, lost ADD COLUMNs, drops and restarts |
| `sqlite_lost` | violated | `RememberedHaveColumns`: a table is remembered without a column whose ADD COLUMN failed |
| `sqlite_returns` | holds | with one connection every call returns |
| `sqlite_refines` | holds | on a new database SQLite implements `UniqueTable`: a batch or a transaction is one step |
| `postgres` | holds | two processes and every kind of call on a new database, with concurrent DDL, locks, deadlocks, faults, drops and restarts: `CacheSound`, `RememberedTablesAreUnique`, `DeletesOnlyWhatMatches`, and Postgres implements `UniqueTable` |
| `postgres_returns` | holds | two tasks of one process on a database of any older version: every call returns, though batches of two entries take the same rows and values in any order |
| `reads` | holds | every content of three rows and every order of at most two keys: `OrderedAsInSql`, `CountsAgree`, `CellsTellTheValue`, `UpdatedRowsAreFound` |
| `versions` | holds | any sequence of eight declarations, on SQLite with postcard and on Postgres with bitcode: `GroupsHold`, `CellsTellTheValue`, `OnlyRowsPreventIt` |

### Bounds

* Two clients everywhere. The hazards are between a caller and whoever comes in
  between; the proofs of section 5 remove the bound, and the others, from every safety
  property and every refinement that the runs check.
* redb: three keys in two tables, one column with a group on it in each, two
  cells, batches of at most two entries (`MaxBatch`): enough for an entry to
  collide with a committed row, with the entry before it, or to overwrite the row
  that holds the value it needs. Of the two ids of the first table one starts with
  0xff, so that scans, replaces and guards see one row and not the other. In
  `redb_torn` one table with a group on each of two columns, and no such id.
* SQLite: two keys (one in `sqlite_returns`), one column and one group, so that
  old rows may collide and lack the column. Transactions have at most `MaxOps`
  operations: two in `sqlite_safety`, so that one may prepare a table the next one
  uses; one in `sqlite_refines` and `sqlite_returns`, where what matters is that the
  operation is seen by nobody before the commit and that the lock comes free.
* `sqlite_returns` has one connection, where a transaction that waits for the
  pool would wait for itself.
* `postgres`: two processes with one task each, two keys, one column with a group
  on it, two cells, batches of at most two entries: two batches can take both rows in
  opposite orders, trade values, and be refused by each other's. `postgres_returns`:
  the same rows and values and batches of two entries, of the calls batch and replace
  (`Calls`): two batches, of which either may follow on a replace, that write both
  rows in opposite orders wait for each other's row locks, and two that take
  one value, for each other's index entries; a replace waits for a row before
  its batch, and the DDL for both. An insert waits as a batch of one entry does
  (`TakeKey` and `TakeValues` are the same steps). Its tasks share a cache, so that one
  may find prepared what the other has just made.
* guarded inserts: three writers, three ids, two partitions, three numbers; a
  stale write needs two numbers and two writers, and a third call can come in
  between.
* `reads`: ids 1 to 3 (`MaxId`), two columns of which one is new, the cells "2"
  and "3x", on which the engines' three readings of a number differ; orders of at
  most two keys (`MaxOrders`), a limit of one or none (`Limits`), the codec
  JSON, which reads a longer blob as a shorter shape.
* `versions`: two rows, two values, and the eight declarations of `MCCandidates`:
  a field appended, groups added, an index given up, a rename, JSON, and those
  that the macro takes or refuses although no table can be made for them; and the
  two pairs of an engine and a codec (`Stores`), so that each engine and each
  positional codec has its turn. The proofs are for any pairs.
* `HighIds` is empty but in `redb`: `AirId::new` makes UUIDv7 ids, which do not
  begin with 0xff before the year 10 000. The SQL engines have no such range.
* Deadlock is checked in all runs but `guarded` and `guarded_stale`: where callers
  use each id once, they stop when there is none left.
* Symmetry (over clients, and over keys, columns, ids or partitions where no
  definition tells them apart) is used in runs without liveness only.

### Fairness

`SpecFair` asks strong fairness of `Step(c)` for every client: a task that is in
a call keeps being polled. In the SQLite model, one that waits for a connection or
the write lock gets it if it comes free again and again: sqlx's pool serves waiters
in turn, and SQLite's busy handler retries until its timeout, which is itself a
step of the model (`Busy`). In the Postgres model, one that waits for a row or a
value gets it if it comes free again and again, because the server grants a lock in
the order of requests, and a cycle is broken, because it looks for cycles
(`DeadlockAborted` is part of `Step`). The fair action leaves out arrivals, drops,
crashes, faults and the pool's acquire timeout (`Starved`): no call is owed any of
them, so that `EveryCallReturns` says that calls return because the others finish
and not because a timer cut them off. A transaction's closure is taken to end:
`MaxOps` bounds its operations; `MaxBatch` bounds a batch.

## 4. The properties

Each is stated above its definition. Beyond what section 3 says:

* `UntornAreUnique` and `UntornMirror` are about the code as it is, with every
  interleaving of a replace's three transactions. They say that two deletes are the
  only ways in which the unique keys of a table may part from its rows: one that
  works on rows read before others changed them, and one that passes rows by.
  `UniqueRows`, without that exception, is what the code promises and breaks.
* `UntornMirror` goes in both directions. A missing claim lets a duplicate in, a
  stale one refuses a value nobody holds for ever.
* `ImplementsUniqueTable` also says that a refusal was for a real collision and
  that nothing but a delete makes rows disappear. Postgres is held to it under
  `Promised`: its "spurious" conflict is a failure, and a guarded insert that
  lands is an upsert that lands, because its guard may no longer hold then.
* `CacheSound` is about the committed database: a table remembered on the
  strength of what only an open transaction could see, or of a CREATE that
  failed, would break it. On SQLite a remembered table may lack a column if an ADD
  COLUMN has failed on it in this process (`lost`), and in no other way: what is
  left of it is `RememberedHaveColumns`, which the code breaks.
* `OneWinner`, `WinnersAreStored` and `WinsGrow` relate what callers have been told,
  over any number of calls in between, to each other and to the table. `IdsAreSafe`
  and `ChecksAreBacked` say on which engine they need what from the callers or the
  declaration. Without the first, redb's insert under an id in use lets a won number
  vanish and be won again; without the second, two checks on Postgres pass for one
  number. `WinsGrow` leaves Postgres out: `guarded_stale` is why.
* `DeletesOnlyWhatMatches`: a row changed between the choice and the lock of a
  delete is looked at again.
* `OrderedAsInSql`: the first rows under a limit are rows that SQL may put first.
  It compares engines where they place the cells of the query alike
  (`ReadAlike`); the places themselves differ (section 7).
* `CountsAgree`: `count`, the rows and the skipped of `all_decodable`, and
  `count_grouped_by`. It leaves out an IN that asks for the empty text, the one
  filter in which redb's count and redb's query disagree (section 7).
* `CellsTellTheValue`, in `Reads` for rows decoded either way and in `Versions`
  for rows written by any version: what a filter selects by a cell does not turn
  out to have another value there. In `Versions` it holds for the columns that the
  row's last writer knew; the exception is a finding.
* `UpdatedRowsAreFound`: an update gives a row of an older version the cells it
  lacked. Until then no filter on the new column finds it.
* `GroupsHold` and `OnlyRowsPreventIt` are two sides: a type in use has its groups
  enforced over the rows of every version, and nothing but colliding rows, or a
  declaration for which no table can be made, keeps it from coming into use.

## 5. What is proved

TLAPS checks, for all values of the constants:

| Theorem | Assumes | Says |
|---|---|---|
| `RedbInvariant`, `RedbTypes`, `RedbUniqueRows`, `RedbKeysMirrorRows` | - | unique keys mirror rows and no rows collide, but in a table that one of two deletes has torn; any ids |
| `RedbImplementsUniqueTable` | - | until a table is torn every step is a step of `UniqueTable` or a stutter |
| `GuardedTypes`, `GuardedOneWinner`, `GuardedWinnersAreStored`, `GuardedWinsGrow` | - (the properties name their conditions) | a number is won once, stays in the table, and is above those won before |
| `SqliteInvariant`, `SqliteTypes`, `SqliteCacheSound`, `SqliteFindsTables`, `SqliteUniqueRows`, `SqliteTransactionsAlone` | `SchemaIsNamed` | the safety properties of `sqlite_safety`, from any older file |
| `SqliteNewDatabase` | the same | the same for a new database |
| `SqliteRowsAreIndexed` | the same, a new database | every row lies under all the indexes of its type; an open batch can still land as one |
| `SqliteImplementsUniqueTable` | the same, no high ids | every step is a step of `UniqueTable` or a stutter |
| `PostgresInvariant`, `PostgresTypes`, `PostgresCacheSound`, `PostgresUniqueRows`, `PostgresDeletesMatch` | - | the safety properties of `postgres`, from any older database |
| `PostgresBatchesPend`, `PostgresImplementsUniqueTable` | a new database, no high ids | an open batch can still land as one; every step is a step of `UniqueTable` or a stutter |
| `ReadsInvariant`, `ReadsTypes`, `ReadsCellsTell`, `ReadsUpdatedAreFound`, `ReadsOrderedAsInSql`, `ReadsCountsAgree` | - | the properties of `reads`, for any rows, fields, values, orders, limits, codec and readings of numbers |
| `VersionsInvariant`, `VersionsTypes`, `VersionsGroupsHold`, `VersionsCellsTell`, `VersionsOnlyRowsPrevent` | - | the properties of `versions`, for any set of declarations |

`SchemaIsNamed` says that no two groups share an index name, as `NamesDiffer` does
for Postgres, where it is an assumption of the module; section 7 says what is lost
where two do. No theorem assumes anything of how SQLite was built: an index over a
name that is no column is part of the models. `IdsAreSafe` is
`Overwrites => fresh`, `ChecksAreBacked` is `Snapshot => indexed`. The other
assumptions are the named ones of the modules on their constants, which TLC
evaluates in the runs.

`SchemaProofs` has what the proofs about the backends share: a row claims keys of
its own table only, and two rows that share a claim agree on a group; the contents
after a batch (`After`) are those after its first entries with one entry more
(`AfterStep`, `AfterAppend`); a batch with one more entry lands exactly if that
entry does on what the others leave (`LandsAppend`).

**redb.** `UntornAreUnique` is not inductive: a save is refused by looking at `uq`,
not at rows. The invariant (`IInv` in `RedbBackend`) is the type invariant,
`Mirrors` of the committed pair and of the staged pair for every table that is
not torn, that a replace has collected rows of its own table (`OwnRows`), that
there is no batch without a writer, and `BatchIsPrefix`: the staged rows are the
committed ones after the entries applied so far, each of which landed. The lemmas
say that `Sync` keeps `Mirrors` when the row's values are free, that `Release`
keeps it when the rows it is given are the ones that are there, which is all that a
delete of collected rows needs and what `Stale` denies, and that mirrored rows never
collide. `BatchIsPrefix` is for the refinement: with it `BatchCommit` is a
`PutAll` that lands, and `BatchRefused` one that does not.

**Guarded inserts.** `OneWinner` needs that a won slot is in the table
(`WinnersAreStored`) and that no slot is there twice (`SlotsDiffer`): then a
second winner would have been blocked or refused by the index. On Postgres the
check gives nothing; the index alone carries the proof. `WinsGrow` follows where
the check is one step with the insert: what anybody has won is in the table, so
that an unblocked number is above it.

**SQLite.** `CacheSound` needs to know what each client knows at the statement
where it is: `Phase(c)` says that from `columns` on the table exists in what c
sees, from `indexes` on with its columns unless it is in `lost`, that c is the
writer exactly in a transaction or after a batch's first entry. Nobody may take
these facts away:
the schema of what anybody sees only grows (`Grows`), also when a transaction
commits, because its database is ahead of the committed one (`Ahead`). One lemma
(`StepKeeps`) turns "c's step does one of four things to the databases" into
"the invariant holds and nobody lost anything", and each action is an
instance of it.

The refinement needs `RInv` on top. Every row lies under all the indexes of its
type, in the committed database and in the one a transaction would commit
(`AllIndexed`): `UniqueTable` has no colliding rows, and only an index keeps them
out. A statement or a batch that has begun finds the indexes of its tables
(`Prepared`), so that whatever it is refused for is a collision. And what an open
batch has written is what `After` makes of its first entries and the committed rows
(`Pending`), which nobody changes while it has the lock; its commit is then one
`PutAll`. A transaction needs no such history: `Transact` allows every change that
leaves no collision, which `AllIndexed` of its database says. Like the Postgres one
it holds on a new database only.

**Postgres.** No row is checked against what it will meet: a statement compares
its row with the committed ones and with its own transaction's, while other
transactions hold rows that they will commit later. The invariant says why that
is enough. A row has at most one holder (`Exclusive`); no two rows collide among
the committed ones, among those a transaction would leave if it committed now, or
across the rows that two transactions have written (three cases of `Apart`); and
a written row is one of the entries that others wait for (`MineIsWritten`). A
commit then turns the second case into the first, and the third into the second
for everybody else. An index that appears in the middle keeps all three, because
it waits until nobody else holds a row of the table. A delete adds nothing to
collide with, and what it takes matches because its rows were locked when it
looked again. The refinement needs `RInv` on top: each task in a statement has
made sure of its tables (`Ready`), the entries of an open batch would land one
after the other on what is committed now and would leave what the transaction
would commit (`Pending`), and no two batches claim the same value (`NoneClaims`). So
a batch, whose entries were written over many steps among the commits of others,
is one `PutAll` at its commit. It holds on a new database only: an older one may
have groups without an index and rows that collide, of which `UniqueTable` has none.

**Versions.** Three conjuncts make the properties inductive: no two rows agree on
the columns that an existing index compares, whichever version made it
(`IndexesHold`), a row has the cells that its last writer gave it (`CellsAsSaved`),
and a version that is ready writes columns that are there (`ColumnsAreThere`).
`GroupsHold` follows because a version is ready only when all its groups were
built, and indexes are never dropped. An index that gains a column, because a name
that was a string becomes one, compares nothing yet: no row has a cell in a column
that was not there (`TypeOK`), and a missing cell equals nothing.
`CellsTellTheValue` follows because decoding under another declaration, a shorter
one included, keeps the values of the places that both have.

**Reads.** The invariant is short: a row's cells are those of the value its blob
encodes (`Paired`). With it, a row that decodes shows its cells' values, or a
missing cell where the upgrade function filled in a value. The rest is about the
operators. `SortByIsStable` says that the places `SortBy` computes are a
permutation, ordered by the key, which keeps the order of equal elements;
`SortedIsInOrder` carries through the loop that, after the last n keys, the list is
ordered by the first of those n keys that tells two elements apart (`OneMoreKey`
is the step; it would fail for keys taken in the order given). `AnswerIsAllowed`
then compares with SQL: two engines that place the cells of the selected rows alike
put the same rows before others, also across the cut of a limit. For the counts,
`Filtered` returns a list with every element once (`Lists`), whose length is the
cardinality of the set, and what it keeps and what it drops add up to the whole
(`KeptAndDropped`).

Not proved. Two properties are only model-checked, the two `EveryCallReturns`: the
prover has neither liveness under fairness nor `ENABLED`. The library's induction
theorems take an operator as their parameter, which no installed prover can
instantiate. Where a recursion has to be followed (the sort's loop, the filter) it is a
recursive function on 0..n, and the proofs use the set of numbers for which a fact
holds in place of an induction scheme (`Induction` and `IteratesExists` in
`ReadsProofs`, by well-foundedness of the naturals). The contents after a batch are
defined by the last entry for a key, without recursion. No module with a theorem
uses a RECURSIVE operator.

## 6. What is abstracted

* Values and the texts of statements; the cache of upsert texts, which is a pure
  function of the type. A blob is the shape and values it encodes: `Reads` and
  `Versions` ask only which shapes a codec tells apart.
* The parse of a cell as a number is the constant `NumOf` in the backends, whose
  models take cells that the three engines read alike, and `NumRead` in `Reads`,
  which has one that they do not.
* Reads in the redb model: they change nothing and see one committed state.
  `Read` in the SQL models is kept because it occupies a connection and runs
  DDL.
* I/O errors on SQLite and redb other than lock and acquire timeouts. On Postgres
  `Fault` is any error before the commit; an error that hides a commit that took
  place is left out.
* Postgres' queue of lock requests: who waits is let in some order, and the fairness
  says only that nobody is passed by for ever.
* The new columns of a table are added all or none (`full`), although each ADD
  COLUMN can fail alone.
* On SQLite, what an index over a string does to rows once its column is added is in
  `Versions` alone (`Malformed`); `SqliteBackend` leaves out that error. A filter
  or a cell that equals the column's own name would match the string: the models
  have no such value.
* A blob of another codec does not decode. The blobs carry no tag, so that it is
  improbable rather than impossible (`AsCurrent`, `AsOld`).
* Several processes on one SQLite file: their caches are separate, and their DDL
  is idempotent, but they are not modelled.
* The versions of `Versions` follow one another in one process at a time; races of
  their DDL are those of the backend modules.

## 7. Findings

Shown by runs:

* `redb_torn`: `replace_where` collects rows in one transaction and deletes
  them, with the unique keys they had, in another. A row saved in between loses
  its claim to a third row with the same values.
* `sqlite_lost`: every error of ADD COLUMN is taken for a duplicate column
  (`sqlite.rs:172-174`). Where it is a lock or acquire timeout the column is missing;
  CREATE INDEX takes its name for a string and succeeds, and the table is remembered
  without it. Every save on the type fails until the process restarts. After that
  the column is added, and rows that were there may not be updated or deleted any
  more, because the entries of their indexes do not agree with them.
* `guarded_stale`: on Postgres "at most one racer lands" holds for equal numbers
  with a UNIQUE index, but a smaller number may land after a larger one, because
  NOT EXISTS saw an earlier snapshot.

Met while modelling, without a run of their own.

Backends:

* On redb a group declared later does not cover rows that are there already:
  nothing builds their unique keys (`redb.rs:57`), whereas the SQL engines build the
  index over them (`dialect.rs:104`).
* `unique(a, b_c)` and `unique(a_b, c)` get one index name, and so may groups of
  two tables (`sqlite_dialect.rs:102`, `postgres_dialect.rs:129`): IF NOT EXISTS then
  skips the second, and the table is remembered without it.
* On Postgres `save_batch` runs its DDL inside the part of the call whose unique
  violations become `Conflict` (`postgres.rs:499-505`, `store.rs:577`): a CREATE
  that loses to a concurrent one, with 23505, is reported as a collision of rows,
  against `error.rs:30-33`.
* redb's key range ends at one byte 0xff, so `delete_all` and scans pass by rows
  whose id starts with it (`AirId::from_bytes` and `from_hex` accept them), while
  their unique keys are removed: a duplicate of such a row is accepted. The redb
  proofs have such ids, and count the table as torn from then on; the refinement
  proofs of the SQL backends assume that there are none, because `UniqueTable`
  shares redb's range.
* redb's `insert_guarded` with an id in use replaces that row, whereas the SQL
  engines refuse it; `UniqueTable!CreateGuarded` allows both.
* An in-memory SQLite database lives as long as the pool's only connection, whose
  lifetime the code leaves to sqlx (`sqlite.rs:72`); the cache would outlive it.

Store:

* `Tx::load` and `Tx::delete` do not make sure of their table, as the other
  operations of a transaction do.
* `Tx::save` does not turn a UNIQUE violation into `Conflict` as `Store::save` does
  (`store.rs:777`).
* `TxQuery::first` takes the last row of an unordered query (`store.rs:891`),
  `Query::first` the first.
* A second `.eq` on the upsert builder replaces the first (`store.rs:1195`).
* `StoreBatch::new()` encodes in bitcode whatever the codec of the store
  (`store.rs:1272`): on another codec its rows are found and counted, and do not
  decode.

Queries:

* A cell that is not a plain number: SQLite's CAST reads a numeric prefix, Postgres
  matches a pattern, redb parses (`backend/mod.rs:48-49` says that such a cell counts
  as 0). "3x", "+5" and overlong digits are read in different ways.
* A missing cell comes first in SQLite's order and in redb's, last in
  Postgres'; as a number it is NULL on SQLite and 0 on the others, so a guard at or
  below 0 is blocked by it on Postgres and not on SQLite.
* redb's `count` takes a missing cell for the empty text under IN, its query does
  not (`redb.rs:652`).
* In SQL, `count` keeps the clauses of the query: with `limit(0)` it finds no row to
  read the count from, and with an order Postgres refuses the statement.

Versions:

* `src/README.md:397` says of an added `Option` field "Old blobs decode to `None`",
  whereas `codec.rs:51-53` says that a positional blob written before a field was
  appended fails to decode; without an upgrade function such rows are unreadable.
* `src/README.md:399` says of a renamed field "No impact". The blob decodes, but the
  column of the new name is empty for older rows: no filter on it finds them until
  they are saved again, and neither does one on any column that is new.
* The migration shown there loads the table of `SessionV1` and saves to the table of
  `SessionV2`: a table is named after its struct.
* A version without a column leaves the column's old cell when it saves a row
  (`sqlite_dialect.rs:140`); after a roll forward the cell does not tell the value.
* Of a blob that a newer version saved, postcard reads the fields an older one
  knows (`codec.rs:42`). After a rollback an update saves what was read, and the
  appended fields are gone; with bitcode the row does not decode and stays whole.
* A group over a JSON field is accepted: the field's column is named `<field>_json`
  (`src/airnest-macros/src/lib.rs:261`), although the macro makes unique fields
  index columns "so the constraint has real columns to enforce on". On Postgres no
  index can be made and every call on the type fails. On SQLite the index takes the
  name for a string and enforces the group's other columns alone, so that rows
  which differ in the JSON field are refused.
* An indexed field named `v` or `saved_at` meets a column that every table has, and
  two fields may get one column name (`g` as JSON beside `g_json`). A new table is
  refused on both engines; over a table that is there SQLite writes the first of the
  two, and Postgres refuses every save.
* A group that is no longer declared stays enforced. Two types of one name share a
  table.

## 8. Not modelled, and the plan

Not modelled at all: error types and the crate's surface, which hold no state, and
tests and examples, which were read as evidence. Partly modelled: `AirId` and the
conversions (ids are model values; a cell is what its value displays as) and the
typed calls of `Store` other than transactions and guarded inserts, which are
modelled where they meet a backend. `Store::update` and the upsert builder are a
load and a save without a transaction; the code promises nothing when others come
in between (a lost update, a deleted row saved again), and so there is no property
to state. Where the upsert builder looks up a unique group, the second of two
racing saves is refused, which the backend modules check.

Hazards without a property. Where the code has no promise that holds: the group
declared late on redb (`redb.rs:57`), redb's count of an empty IN (`redb.rs:652`),
`Tx::load` on a missing table (`sqlite.rs:235`), index names that coincide
(`sqlite_dialect.rs:102`), the cell an older version leaves
(`sqlite_dialect.rs:140`), cells that the engines read as different numbers
(`sqlite_dialect.rs:208`), the codec of `StoreBatch::new` (`store.rs:1272`), and
`Store::update` (`store.rs:567`), as above; each is in section 7. The in-memory pool
(`sqlite.rs:72`) depends on lifetimes that sqlx chooses.

Left of the plan:

1. Several processes on one SQLite file, as on Postgres.
2. In-memory databases whose connection the pool replaces.
3. Guarded inserts as an implementation of a one-winner register.
4. SQLite's new columns one by one.
