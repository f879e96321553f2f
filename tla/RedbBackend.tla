---------------------------- MODULE RedbBackend ----------------------------
(***************************************************************************)
(* The redb backend.  Rows live in one key-value table (kv, airnest_kv);   *)
(* uniqueness groups are kept in a second one (uq, airnest_uq) that maps   *)
(* each claimed value to the key of the row that owns it, and that every   *)
(* writer has to keep in step with the first by hand.                      *)
(*                                                                         *)
(* redb runs one write transaction at a time and gives each reader the     *)
(* last committed contents.  An operation whose transaction has no step    *)
(* that can be observed on its own is one action.  A batch is taken entry  *)
(* by entry, because any of its entries may fail.  replace_where is three  *)
(* separate transactions, with awaits between them: a read that collects   *)
(* the rows to delete, a write that deletes what was collected, and a      *)
(* batch.  Nothing keeps another writer out between them.                  *)
(***************************************************************************)
EXTENDS Schema

CONSTANTS
    Clients,    \* tasks that hold the store
    Nobody,     \* no client holds the write transaction
    NoTable     \* the client is in no replace_where

ASSUME ClientAssumption == Nobody \notin Clients /\ NoTable \notin Tables

VARIABLES
    kv,         \* committed rows
    uq,         \* committed unique keys: the owner's key, or NoRow
    writer,     \* whose batch transaction is open
    newKv,      \* rows as the open batch sees them
    newUq,      \* unique keys as the open batch sees them
    batch,      \* the entries of the open batch
    applied,    \* how many of them it has applied
    pc,         \* where each client is in its operation
    target,     \* the table each replace_where works on
    doomed,     \* the rows each replace_where collected, as it read them
    outcome,    \* how the last operation to end has ended
    torn        \* history: the tables whose keys a delete has torn off rows

vars == <<kv, uq, writer, newKv, newUq, batch, applied, pc, target, doomed,
          outcome, torn>>

staged == <<writer, newKv, newUq, batch, applied>>
replacing == <<target, doomed>>

Owners == Keys \cup {NoRow}

NoContents == [k \in Keys |-> NoRow]
NoOwners == [q \in UniqueKeys |-> NoRow]

TypeOK ==
    /\ kv \in Contents
    /\ uq \in [UniqueKeys -> Owners]
    /\ writer \in Clients \cup {Nobody}
    /\ newKv \in Contents
    /\ newUq \in [UniqueKeys -> Owners]
    /\ batch \in Batches
    /\ applied \in 0..Len(batch)
    /\ pc \in [Clients -> {"idle", "collected", "deleted", "batch"}]
    /\ target \in [Clients -> Tables \cup {NoTable}]
    /\ doomed \in [Clients -> Contents]
    /\ outcome \in Outcomes
    /\ torn \subseteq Tables

-----------------------------------------------------------------------------
(* The unique-key table, for one record.                                   *)

(* Another row owns a value that the new row claims.                       *)
Taken(owners, k, row) ==
    \E q \in Claims(TableOf[k], row) : owners[q] \notin {NoRow, k}

(* Faulty variant of Sync: the old row's claims are never looked at.       *)
SyncKeepsStale(owners, k, old, row) ==
    [q \in UniqueKeys |-> IF q \in Claims(TableOf[k], row) THEN k ELSE owners[q]]

(* Drop the claims the old row made and the new one does not; then claim.  *)
Sync(owners, k, old, row) ==
    LET fresh == Claims(TableOf[k], row)
        stale == IF old = NoRow THEN {} ELSE Claims(TableOf[k], old) \ fresh
    IN  [q \in UniqueKeys |-> IF q \in fresh THEN k
                              ELSE IF q \in stale THEN NoRow
                              ELSE owners[q]]

(* Drop every claim the given rows make, whoever the owner now is.         *)
Release(owners, gone) ==
    [q \in UniqueKeys |->
        IF \E k \in Present(gone) : q \in Claims(TableOf[k], gone[k])
        THEN NoRow ELSE owners[q]]

Without(contents, ks) == [k \in Keys |-> IF k \in ks THEN NoRow ELSE contents[k]]
Only(contents, ks) == [k \in Keys |-> IF k \in ks THEN contents[k] ELSE NoRow]

-----------------------------------------------------------------------------
(* Operations that are one write transaction.                              *)

(* A client may start an operation, and no write transaction is open.      *)
CanWrite(c) == pc[c] = "idle" /\ writer = Nobody

(* Write one row, unless one of its values is taken.                       *)
Upsert(k, row, old, done, refused) ==
    IF Taken(uq, k, row)
      THEN outcome' = refused /\ UNCHANGED <<kv, uq>>
      ELSE /\ uq' = Sync(uq, k, old, row)
           /\ kv' = [kv EXCEPT ![k] = row]
           /\ outcome' = done

Save(c, k, row) ==
    /\ CanWrite(c)
    /\ Upsert(k, row, kv[k], "ok", "conflict")
    /\ UNCHANGED <<staged, pc, replacing, torn>>

Insert(c, k, row) ==
    /\ CanWrite(c)
    /\ IF kv[k] # NoRow
         THEN outcome' = "conflict" /\ UNCHANGED <<kv, uq>>
         ELSE Upsert(k, row, NoRow, "ok", "conflict")
    /\ UNCHANGED <<staged, pc, replacing, torn>>

(* The number guarded is the one the row carries.                          *)
InsertGuarded(c, k, row, partition, col) ==
    /\ CanWrite(c)
    /\ IF Blocked(kv, TableOf[k], partition, col, NumOf[row[col]])
         THEN outcome' = "rejected" /\ UNCHANGED <<kv, uq>>
         ELSE Upsert(k, row, kv[k], "landed", "rejected")
    /\ UNCHANGED <<staged, pc, replacing, torn>>

Delete(c, k) ==
    /\ CanWrite(c)
    /\ kv' = Without(kv, {k})
    /\ uq' = Release(uq, Only(kv, {k}))
    /\ outcome' = "ok"
    /\ UNCHANGED <<staged, pc, replacing, torn>>

(* Rows of t lie beyond the range of a scan: an emptied table keeps them.  *)
Survivors(t) == Present(kv) \cap (KeysOf(t) \ InRange(t))

(* Both tables are emptied by a range, not row by row: a row that stays has *)
(* lost its keys, and a table in which none stays agrees with them again.  *)
DeleteAll(c, t) ==
    /\ CanWrite(c)
    /\ kv' = Without(kv, InRange(t))
    /\ uq' = [q \in UniqueKeys |-> IF q.group.table = t THEN NoRow ELSE uq[q]]
    /\ outcome' = "ok"
    /\ torn' = IF Survivors(t) = {} THEN torn \ {t} ELSE torn \cup {t}
    /\ UNCHANGED <<staged, pc, replacing>>

DeleteWhere(c, t, filters) ==
    /\ CanWrite(c)
    /\ kv' = Without(kv, Matching(kv, t, filters))
    /\ uq' = Release(uq, Only(kv, Matching(kv, t, filters)))
    /\ outcome' = "ok"
    /\ UNCHANGED <<staged, pc, replacing, torn>>

-----------------------------------------------------------------------------
(* save_batch: one write transaction over all entries.                     *)

OpenBatch(c, entries) ==
    /\ writer' = c
    /\ newKv' = kv
    /\ newUq' = uq
    /\ batch' = entries
    /\ applied' = 0
    /\ pc' = [pc EXCEPT ![c] = "batch"]

BatchBegin(c, entries) ==
    /\ CanWrite(c)
    /\ OpenBatch(c, entries)
    /\ UNCHANGED <<kv, uq, replacing, outcome, torn>>

(* Faulty variant of NoBatch: the count of applied entries is not reset.   *)
NoBatchKeepsCount ==
    /\ writer' = Nobody
    /\ newKv' = NoContents
    /\ newUq' = NoOwners
    /\ batch' = <<>>
    /\ UNCHANGED applied

NoBatch ==
    /\ writer' = Nobody
    /\ newKv' = NoContents
    /\ newUq' = NoOwners
    /\ batch' = <<>>
    /\ applied' = 0

Entry == batch[applied + 1]

(* Faulty variant of BatchEntry: it looks for the claim in what is committed, *)
(* where the entries before it in the batch are not.                       *)
BatchEntryChecksCommitted(c) ==
    /\ writer = c
    /\ applied < Len(batch)
    /\ ~ Taken(uq, Entry.key, Entry.row)
    /\ newUq' = Sync(newUq, Entry.key, newKv[Entry.key], Entry.row)
    /\ newKv' = [newKv EXCEPT ![Entry.key] = Entry.row]
    /\ applied' = applied + 1
    /\ UNCHANGED <<kv, uq, writer, batch, pc, replacing, outcome, torn>>

BatchEntry(c) ==
    /\ writer = c
    /\ applied < Len(batch)
    /\ ~ Taken(newUq, Entry.key, Entry.row)
    /\ newUq' = Sync(newUq, Entry.key, newKv[Entry.key], Entry.row)
    /\ newKv' = [newKv EXCEPT ![Entry.key] = Entry.row]
    /\ applied' = applied + 1
    /\ UNCHANGED <<kv, uq, writer, batch, pc, replacing, outcome, torn>>

(* Faulty variant of BatchRefused: the entries before the refused one stay. *)
BatchRefusedKeepsPrefix(c) ==
    /\ writer = c
    /\ applied < Len(batch)
    /\ Taken(newUq, Entry.key, Entry.row)
    /\ kv' = newKv
    /\ uq' = newUq
    /\ NoBatch
    /\ pc' = [pc EXCEPT ![c] = "idle"]
    /\ outcome' = "conflict"
    /\ UNCHANGED <<replacing, torn>>

(* The error leaves the closure before commit: the transaction is dropped. *)
BatchRefused(c) ==
    /\ writer = c
    /\ applied < Len(batch)
    /\ Taken(newUq, Entry.key, Entry.row)
    /\ NoBatch
    /\ pc' = [pc EXCEPT ![c] = "idle"]
    /\ outcome' = "conflict"
    /\ UNCHANGED <<kv, uq, replacing, torn>>

BatchCommit(c) ==
    /\ writer = c
    /\ applied = Len(batch)
    /\ kv' = newKv
    /\ uq' = newUq
    /\ NoBatch
    /\ pc' = [pc EXCEPT ![c] = "idle"]
    /\ outcome' = "ok"
    /\ UNCHANGED <<replacing, torn>>

-----------------------------------------------------------------------------
(* replace_where: collect, delete what was collected, then a batch.        *)

(* A read transaction: it needs no turn among the writers.                 *)
ReplaceCollect(c, t, filters) ==
    /\ pc[c] = "idle"
    /\ pc' = [pc EXCEPT ![c] = "collected"]
    /\ target' = [target EXCEPT ![c] = t]
    /\ doomed' = [doomed EXCEPT ![c] = Only(kv, Matching(kv, t, filters))]
    /\ UNCHANGED <<kv, uq, staged, outcome, torn>>

(* What has been collected is not what the file holds by now.              *)
Stale(c) == \E k \in Present(doomed[c]) : kv[k] # doomed[c][k]

(* The rows are removed by key, their claims by the cells collected, which *)
(* by now may be the claims of other rows.                                 *)
ReplaceDelete(c) ==
    /\ pc[c] = "collected"
    /\ writer = Nobody
    /\ kv' = Without(kv, Present(doomed[c]))
    /\ uq' = Release(uq, doomed[c])
    /\ pc' = [pc EXCEPT ![c] = "deleted"]
    /\ doomed' = [doomed EXCEPT ![c] = NoContents]
    /\ torn' = IF Stale(c) THEN torn \cup {target[c]} ELSE torn
    /\ UNCHANGED <<staged, target, outcome>>

ReplaceInsert(c, entries) ==
    /\ pc[c] = "deleted"
    /\ writer = Nobody
    /\ Touches(entries) \subseteq {target[c]}
    /\ OpenBatch(c, entries)
    /\ target' = [target EXCEPT ![c] = NoTable]
    /\ UNCHANGED <<kv, uq, doomed, outcome, torn>>

(* The caller drops the future at one of its awaits: what has been         *)
(* committed stays, what has not been started is never done.               *)
ReplaceDropped(c) ==
    /\ pc[c] \in {"collected", "deleted"}
    /\ pc' = [pc EXCEPT ![c] = "idle"]
    /\ target' = [target EXCEPT ![c] = NoTable]
    /\ doomed' = [doomed EXCEPT ![c] = NoContents]
    /\ UNCHANGED <<kv, uq, staged, outcome, torn>>

(* The process stops and reopens the file: redb keeps what was committed.  *)
Crash ==
    /\ NoBatch
    /\ pc' = [c \in Clients |-> "idle"]
    /\ target' = [c \in Clients |-> NoTable]
    /\ doomed' = [c \in Clients |-> NoContents]
    /\ UNCHANGED <<kv, uq, outcome, torn>>

-----------------------------------------------------------------------------
Init ==
    /\ kv = NoContents
    /\ uq = NoOwners
    /\ writer = Nobody
    /\ newKv = NoContents
    /\ newUq = NoOwners
    /\ batch = <<>>
    /\ applied = 0
    /\ pc = [c \in Clients |-> "idle"]
    /\ target = [c \in Clients |-> NoTable]
    /\ doomed = [c \in Clients |-> NoContents]
    /\ outcome = "none"
    /\ torn = {}

(* One write transaction on table t.                                       *)
Write(c, t) ==
    \/ \E k \in KeysOf(t), row \in Rows : Save(c, k, row) \/ Insert(c, k, row)
    \/ \E k \in KeysOf(t), row \in Rows, p \in EqFilters, col \in Cols :
            InsertGuarded(c, k, row, p, col)
    \/ \E k \in KeysOf(t) : Delete(c, k)
    \/ DeleteAll(c, t)
    \/ \E f \in Filters : DeleteWhere(c, t, f)

BatchStep(c) == BatchEntry(c) \/ BatchRefused(c) \/ BatchCommit(c)

Collect(c, t) == \E f \in EqFilters : ReplaceCollect(c, t, f)

Next ==
    \/ Crash
    \/ \E c \in Clients, t \in Tables : Write(c, t) \/ Collect(c, t)
    \/ \E c \in Clients, b \in Batches : BatchBegin(c, b) \/ ReplaceInsert(c, b)
    \/ \E c \in Clients : BatchStep(c) \/ ReplaceDelete(c) \/ ReplaceDropped(c)

Spec == Init /\ [][Next]_vars

-----------------------------------------------------------------------------
(* Properties.                                                             *)

(***************************************************************************)
(* unique(...) holds: no two rows of a table agree on all the columns of   *)
(* one of its groups.  This is what sync_unique_keys exists for, and what  *)
(* replace_where breaks.                                                   *)
(***************************************************************************)
UniqueRows == \A k \in Present(kv) : ~ Clashes(kv, k, kv[k])

(***************************************************************************)
(* Only two things in the code let a duplicate in: the delete of a         *)
(* replace_where that comes after other writers have changed what it       *)
(* collected, and a delete_all that passes over ids from 0xff on.  As long *)
(* as neither has happened to a table, unique(...) holds in it, whatever   *)
(* writes, batches, replaces, dropped futures and crashes come and go.     *)
(***************************************************************************)
UntornAreUnique ==
    \A k \in Present(kv) : TableOf[k] \notin torn => ~ Clashes(kv, k, kv[k])

(***************************************************************************)
(* A unique key is owned exactly by the row that claims it: a claim that   *)
(* is missing lets a duplicate in, a claim that stays behind refuses a     *)
(* value nobody holds, for ever.                                           *)
(***************************************************************************)
Mirrors(t, owners, contents) ==
    \A q \in UniqueKeys, k \in Keys :
        q.group.table = t =>
            (owners[q] = k <=> /\ contents[k] # NoRow
                               /\ q \in Claims(TableOf[k], contents[k]))

(* The keys of a table that no delete has torn mirror its rows.            *)
UntornMirror == \A t \in Tables \ torn : Mirrors(t, uq, kv)

(***************************************************************************)
(* An open batch sees the committed rows with the entries it has applied,  *)
(* each of which found its values free.                                    *)
(***************************************************************************)
BatchIsPrefix ==
    writer # Nobody =>
        /\ newKv = After(kv, batch, applied)
        /\ \A n \in 1..applied :
                TableOf[batch[n].key] \notin torn => EntryLands(kv, batch, n)

NoneOpen ==
    writer = Nobody => batch = <<>> /\ newKv = NoContents /\ newUq = NoOwners

(* A replace_where collects rows of its own table.                         *)
OwnRows ==
    \A c \in Clients : pc[c] = "collected" =>
        \A k \in Present(doomed[c]) : TableOf[k] = target[c]

(***************************************************************************)
(* The inductive invariant: where no delete has torn them the keys mirror  *)
(* the rows, in the committed file and in the open batch, which is a       *)
(* prefix, and a replace_where collects rows of its own table.             *)
(***************************************************************************)
IInv ==
    /\ TypeOK
    /\ UntornMirror
    /\ \A t \in Tables \ torn : Mirrors(t, newUq, newKv)
    /\ BatchIsPrefix
    /\ NoneOpen
    /\ OwnRows

(***************************************************************************)
(* As long as no table is torn the backend is a UniqueTable: refused means *)
(* that the rows really collide, and a batch is one step, whatever happens *)
(* between its entries.                                                    *)
(***************************************************************************)
Abs == INSTANCE UniqueTable WITH rows <- kv
ImplementsUniqueTable ==
    Abs!Init /\ [][torn = {} => [Abs!Next]_(Abs!vars)]_vars
=============================================================================
