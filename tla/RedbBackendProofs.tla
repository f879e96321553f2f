------------------------ MODULE RedbBackendProofs ------------------------
(***************************************************************************)
(* The redb backend keeps its unique keys in step with its rows, for every *)
(* set of clients, tables, columns, cells and groups, in every table that  *)
(* no stale delete of a replace_where and no delete_all that passed a row  *)
(* by has torn.  Writers, replaces and crashes interleave as they will.    *)
(***************************************************************************)
EXTENDS RedbBackend, SchemaProofs

-----------------------------------------------------------------------------
(* Facts about claims.                                                     *)

(* If the keys of a table mirror its rows, no two of them claim one key.   *)
LEMMA MirrorsSeparate ==
    ASSUME NEW contents \in Contents, NEW owners,
           NEW k \in Present(contents),
           Mirrors(TableOf[k], owners, contents)
    PROVE  ~ Clashes(contents, k, contents[k])
<1> SUFFICES ASSUME NEW other \in Present(contents) \ {k},
                    TableOf[other] = TableOf[k],
                    NEW q \in Claims(TableOf[k], contents[k])
                                \cap Claims(TableOf[k], contents[other])
             PROVE  FALSE
  BY DEF Clashes
<1>1. k \in Keys /\ contents[k] \in Stored /\ contents[k] # NoRow
  BY DEF Present, Contents
<1>2. other \in Keys /\ contents[other] # NoRow
  BY DEF Present
<1>3. q \in UniqueKeys /\ q.group.table = TableOf[k]
  BY <1>1, ClaimsAreKeys, SchemaAssumption
<1>4. owners[q] = k /\ owners[q] = other
  BY <1>1, <1>2, <1>3 DEF Mirrors
<1> QED
  BY <1>4

-----------------------------------------------------------------------------
(* Facts about the operations on the unique-key table.                     *)

(* Whatever the keys say, the operations keep their type.                  *)
LEMMA OwnersStay ==
    ASSUME NEW owners \in [UniqueKeys -> Owners]
    PROVE  /\ \A k \in Keys : \A old, row : Sync(owners, k, old, row) \in [UniqueKeys -> Owners]
           /\ \A gone : Release(owners, gone) \in [UniqueKeys -> Owners]
BY DEF Sync, Release, Owners

(* sync_unique_keys, when it does not refuse, follows the row written; the *)
(* keys of the other tables it leaves alone.                               *)
LEMMA SyncMirrors ==
    ASSUME NEW contents \in Contents, NEW owners \in [UniqueKeys -> Owners],
           NEW t, Mirrors(t, owners, contents),
           NEW k \in Keys, NEW row \in Rows,
           ~ Taken(owners, k, row)
    PROVE  Mirrors(t, Sync(owners, k, contents[k], row), [contents EXCEPT ![k] = row])
<1> DEFINE fresh == Claims(TableOf[k], row)
           old == contents[k]
           stale == IF old = NoRow THEN {} ELSE Claims(TableOf[k], old) \ fresh
           new == Sync(owners, k, old, row)
           next == [contents EXCEPT ![k] = row]
<1>1. new = [q \in UniqueKeys |-> IF q \in fresh THEN k
                                  ELSE IF q \in stale THEN NoRow
                                  ELSE owners[q]]
  BY DEF Sync
<1>2. next \in [Keys -> Stored \cup {NoRow}] /\ next[k] = row /\ row # NoRow
  BY RowsAreStored, SchemaAssumption DEF Contents, Stored, Rows
<1>3. ASSUME NEW q \in UniqueKeys, q.group.table = t, NEW j \in Keys
      PROVE  new[q] = j <=> next[j] # NoRow /\ q \in Claims(TableOf[j], next[j])
  <2>1. owners[q] = j <=> contents[j] # NoRow /\ q \in Claims(TableOf[j], contents[j])
    BY <1>3 DEF Mirrors
  <2>2. owners[q] = k <=> old # NoRow /\ q \in Claims(TableOf[k], old)
    BY <1>3 DEF Mirrors
  <2>3. NoRow # j /\ NoRow # k
    BY SchemaAssumption
  <2>4. q \in fresh => owners[q] \in {NoRow, k}
    BY DEF Taken
  <2>5. CASE j = k
    BY <1>1, <1>2, <2>2, <2>3, <2>5
  <2>6. CASE j # k
    <3>1. next[j] = contents[j]
      BY <2>6 DEF Contents
    <3>2. q \in fresh => owners[q] # j
      BY <2>3, <2>4, <2>6
    <3>3. q \in stale => owners[q] = k
      BY <2>2
    <3> QED
      BY <1>1, <2>1, <2>3, <2>6, <3>1, <3>2, <3>3
  <2> QED
    BY <2>5, <2>6
<1> QED
  BY <1>3 DEF Mirrors

(* remove_unique_keys follows the removal of rows of t that are as they    *)
(* were read; rows of other tables are no matter.                          *)
LEMMA ReleaseMirrors ==
    ASSUME NEW contents \in Contents, NEW owners \in [UniqueKeys -> Owners],
           NEW t, Mirrors(t, owners, contents),
           NEW ks \in SUBSET Keys, NEW gone \in Contents,
           \A k \in Present(gone) :
                TableOf[k] = t => k \in ks /\ gone[k] = contents[k],
           \A k \in ks :
                TableOf[k] = t /\ contents[k] # NoRow => k \in Present(gone)
    PROVE  Mirrors(t, Release(owners, gone), Without(contents, ks))
<1> DEFINE new == Release(owners, gone)
           next == Without(contents, ks)
           Freed(q) == \E k \in Present(gone) : q \in Claims(TableOf[k], gone[k])
<1>1. new = [q \in UniqueKeys |-> IF Freed(q) THEN NoRow ELSE owners[q]]
  BY DEF Release
<1>2. ASSUME NEW q \in UniqueKeys, q.group.table = t, NEW j \in Keys
      PROVE  new[q] = j <=> next[j] # NoRow /\ q \in Claims(TableOf[j], next[j])
  <2>1. owners[q] = j <=> contents[j] # NoRow /\ q \in Claims(TableOf[j], contents[j])
    BY <1>2 DEF Mirrors
  <2>2. NoRow # j
    BY SchemaAssumption
  <2>3. next[j] = IF j \in ks THEN NoRow ELSE contents[j]
    BY DEF Without
  <2>4. CASE Freed(q)
    <3>1. PICK k \in Present(gone) : q \in Claims(TableOf[k], gone[k])
      BY <2>4
    <3>2. k \in Keys /\ TableOf[k] = t
      BY <1>2, <3>1, ClaimsAreKeys, SchemaAssumption DEF Present, Contents
    <3>3. k \in ks /\ contents[k] # NoRow /\ q \in Claims(TableOf[k], contents[k])
      BY <3>1, <3>2 DEF Present
    <3>4. owners[q] = k
      BY <1>2, <3>2, <3>3 DEF Mirrors
    <3>5. new[q] = NoRow
      BY <1>1, <2>4
    <3> QED
      BY <2>1, <2>2, <2>3, <3>3, <3>4, <3>5
  <2>5. CASE ~ Freed(q)
    <3>1. new[q] = owners[q]
      BY <1>1, <2>5
    <3>2. ASSUME owners[q] = j PROVE j \notin ks
      <4>1. contents[j] # NoRow /\ q \in Claims(TableOf[j], contents[j])
        BY <2>1, <3>2
      <4>2. TableOf[j] = t
        BY <1>2, <4>1, ClaimsAreKeys, SchemaAssumption DEF Contents
      <4> QED
        BY <2>5, <4>1, <4>2
    <3> QED
      BY <2>1, <2>3, <3>1, <3>2
  <2> QED
    BY <2>4, <2>5
<1> QED
  BY <1>2 DEF Mirrors

(* delete_all empties the keys of t, which then mirror its rows if none    *)
(* has stayed; the other tables it leaves alone.                           *)
LEMMA ClearMirrors ==
    ASSUME NEW contents \in Contents, NEW owners \in [UniqueKeys -> Owners],
           NEW t \in Tables, NEW u \in Tables,
           u = t => \A k \in KeysOf(t) \ InRange(t) : contents[k] = NoRow,
           u # t => Mirrors(u, owners, contents)
    PROVE  Mirrors(u, [q \in UniqueKeys |-> IF q.group.table = t THEN NoRow ELSE owners[q]],
                   Without(contents, InRange(t)))
<1> DEFINE new == [q \in UniqueKeys |-> IF q.group.table = t THEN NoRow ELSE owners[q]]
           next == Without(contents, InRange(t))
<1>1. ASSUME NEW q \in UniqueKeys, q.group.table = u, NEW j \in Keys
      PROVE  new[q] = j <=> next[j] # NoRow /\ q \in Claims(TableOf[j], next[j])
  <2>1. next[j] # NoRow => next[j] = contents[j] /\ contents[j] \in Stored
    BY DEF Without, Contents
  <2>2. next[j] # NoRow /\ q \in Claims(TableOf[j], next[j]) => TableOf[j] = u
    BY <1>1, <2>1, ClaimsAreKeys, SchemaAssumption
  <2>3. NoRow # j
    BY SchemaAssumption
  <2>4. CASE u = t
    <3>1. TableOf[j] = t => next[j] = NoRow
      BY <2>4 DEF Without, KeysOf
    <3> QED
      BY <1>1, <2>2, <2>3, <2>4, <3>1
  <2>5. CASE u # t
    <3>1. owners[q] = j <=> contents[j] # NoRow /\ q \in Claims(TableOf[j], contents[j])
      BY <1>1, <2>5 DEF Mirrors
    <3>2. contents[j] # NoRow /\ q \in Claims(TableOf[j], contents[j]) => TableOf[j] = u
      BY <1>1, ClaimsAreKeys, SchemaAssumption DEF Contents
    <3>3. TableOf[j] = u => next[j] = contents[j]
      BY <2>5 DEF Without, InRange, KeysOf
    <3> QED
      BY <1>1, <2>1, <2>2, <2>5, <3>1, <3>2, <3>3
  <2> QED
    BY <2>4, <2>5
<1> QED
  BY <1>1 DEF Mirrors

-----------------------------------------------------------------------------
(* Facts about contents and batches.                                       *)

LEMMA EmptyContents ==
    /\ NoContents \in Contents
    /\ NoOwners \in [UniqueKeys -> Owners]
    /\ \A t : Mirrors(t, NoOwners, NoContents)
    /\ Present(NoContents) = {}
BY SchemaAssumption DEF NoContents, NoOwners, Contents, Owners, Mirrors, Present

LEMMA PartsOfContents ==
    ASSUME NEW contents \in Contents, NEW ks \in SUBSET Keys
    PROVE  /\ Without(contents, ks) \in Contents
           /\ Only(contents, ks) \in Contents
           /\ Present(Only(contents, ks)) \subseteq ks
           /\ \A k \in Present(Only(contents, ks)) : Only(contents, ks)[k] = contents[k]
           /\ \A k \in ks : contents[k] # NoRow => k \in Present(Only(contents, ks))
BY DEF Without, Only, Contents, Present

(* The check of sync_unique_keys finds exactly the real collisions.        *)
LEMMA TakenIsClash ==
    ASSUME NEW contents \in Contents, NEW owners \in [UniqueKeys -> Owners],
           NEW k \in Keys, NEW row \in Rows,
           Mirrors(TableOf[k], owners, contents)
    PROVE  Taken(owners, k, row) <=> Clashes(contents, k, row)
<1>1. TableOf[k] \in Tables /\ row \in Stored
  BY RowsAreStored, SchemaAssumption
<1>2. ASSUME Taken(owners, k, row)
      PROVE  Clashes(contents, k, row)
  <2>1. PICK q \in Claims(TableOf[k], row) : owners[q] \notin {NoRow, k}
    BY <1>2 DEF Taken
  <2>2. q \in UniqueKeys /\ q.group.table = TableOf[k]
    BY <1>1, ClaimsAreKeys
  <2>3. owners[q] \in Keys
    BY <2>1, <2>2 DEF Owners
  <2>4. contents[owners[q]] # NoRow /\ q \in Claims(TableOf[owners[q]], contents[owners[q]])
    BY <2>2, <2>3 DEF Mirrors
  <2>5. TableOf[owners[q]] = TableOf[k]
    BY <2>2, <2>3, <2>4, ClaimsAreKeys, SchemaAssumption DEF Contents
  <2> QED
    BY <2>1, <2>3, <2>4, <2>5 DEF Clashes, Present
<1>3. ASSUME Clashes(contents, k, row)
      PROVE  Taken(owners, k, row)
  <2>1. PICK other \in Present(contents) \ {k} :
            /\ TableOf[other] = TableOf[k]
            /\ Claims(TableOf[k], row) \cap Claims(TableOf[k], contents[other]) # {}
    BY <1>3 DEF Clashes
  <2>2. PICK q \in Claims(TableOf[k], row) : q \in Claims(TableOf[k], contents[other])
    BY <2>1
  <2>3. q \in UniqueKeys /\ q.group.table = TableOf[k]
    BY <1>1, <2>2, ClaimsAreKeys
  <2>4. owners[q] = other
    BY <2>1, <2>2, <2>3 DEF Mirrors, Present
  <2> QED
    BY <2>1, <2>2, <2>4, SchemaAssumption DEF Taken, Present
<1> QED
  BY <1>2, <1>3

-----------------------------------------------------------------------------
(* What the operations do to a pair of rows and keys that agree.           *)

(* What every write transaction keeps.                                     *)
Kept == /\ kv' \in Contents
        /\ uq' \in [UniqueKeys -> Owners]
        /\ outcome' \in Outcomes
        /\ torn' \subseteq Tables
        /\ \A t \in Tables \ torn' : Mirrors(t, uq', kv')

LEMMA UpsertStep ==
    ASSUME TypeOK, UntornMirror,
           NEW k \in Keys, NEW row \in Rows, NEW done \in Outcomes,
           NEW refused \in Outcomes,
           NEW old, old = kv[k],
           Upsert(k, row, old, done, refused),
           UNCHANGED torn
    PROVE  Kept
<1>1. CASE Taken(uq, k, row)
  BY <1>1 DEF Upsert, TypeOK, UntornMirror, Kept
<1>2. CASE ~ Taken(uq, k, row)
  <2>1. uq' = Sync(uq, k, kv[k], row) /\ kv' = [kv EXCEPT ![k] = row] /\ outcome' = done
    BY <1>2 DEF Upsert
  <2>2. uq' \in [UniqueKeys -> Owners]
    BY <2>1, OwnersStay DEF TypeOK
  <2>3. \A t \in Tables \ torn : Mirrors(t, uq', kv')
    BY <1>2, <2>1, SyncMirrors DEF TypeOK, UntornMirror
  <2>4. kv' \in Contents
    BY <2>1, RowsAreStored DEF TypeOK, Contents
  <2> QED
    BY <2>1, <2>2, <2>3, <2>4 DEF TypeOK, Kept
<1> QED
  BY <1>1, <1>2

(* Rows go with the claims they make by now.                               *)
LEMMA RemoveStep ==
    ASSUME TypeOK, UntornMirror, NEW ks \in SUBSET Keys,
           kv' = Without(kv, ks), uq' = Release(uq, Only(kv, ks)),
           outcome' \in Outcomes, UNCHANGED torn
    PROVE  Kept
<1>1. kv \in Contents /\ uq \in [UniqueKeys -> Owners]
  BY DEF TypeOK
<1>2. kv' \in Contents /\ uq' \in [UniqueKeys -> Owners]
  BY <1>1, PartsOfContents, OwnersStay
<1>3. ASSUME NEW t \in Tables \ torn
      PROVE  Mirrors(t, Release(uq, Only(kv, ks)), Without(kv, ks))
  BY <1>1, PartsOfContents, ReleaseMirrors DEF UntornMirror
<1> QED
  BY <1>2, <1>3 DEF TypeOK, Kept

LEMMA ClearStep ==
    ASSUME TypeOK, UntornMirror, NEW c \in Clients, NEW t \in Tables, DeleteAll(c, t)
    PROVE  Kept
<1>1. kv \in Contents /\ uq \in [UniqueKeys -> Owners]
  BY DEF TypeOK
<1>2. kv' \in Contents
  BY <1>1, PartsOfContents DEF DeleteAll, InRange, KeysOf
<1>3. uq' \in [UniqueKeys -> Owners]
  BY <1>1 DEF DeleteAll, Owners
<1>4. torn' \subseteq Tables /\ outcome' \in Outcomes
  BY DEF DeleteAll, TypeOK, Outcomes
<1>5. ASSUME NEW u \in Tables \ torn'
      PROVE  Mirrors(u, uq', kv')
  <2>1. u = t => \A k \in KeysOf(t) \ InRange(t) : kv[k] = NoRow
    BY <1>5 DEF DeleteAll, Survivors, Present, KeysOf
  <2>2. u # t => Mirrors(u, uq, kv)
    BY <1>5 DEF DeleteAll, UntornMirror
  <2> QED
    BY <1>1, <2>1, <2>2, ClearMirrors DEF DeleteAll
<1> QED
  BY <1>2, <1>3, <1>4, <1>5 DEF Kept

-----------------------------------------------------------------------------
(* The inductive invariant.                                                *)

LEMMA InitIInv == Init => IInv
<1> SUFFICES ASSUME Init PROVE IInv
  OBVIOUS
<1>1. TypeOK
  BY EmptyContents, EmptyBatch DEF Init, TypeOK, Outcomes
<1>2. UntornMirror /\ \A t \in Tables \ torn : Mirrors(t, newUq, newKv)
  BY EmptyContents DEF Init, UntornMirror
<1>3. OwnRows /\ BatchIsPrefix
  BY DEF Init, OwnRows, BatchIsPrefix
<1> QED
  BY <1>1, <1>2, <1>3 DEF IInv, Init, NoneOpen

(* Enough for every action that changes committed rows and nothing else:   *)
(* no batch is open meanwhile, so there is none to disturb.                *)
LEMMA WriteKeepsIInv ==
    ASSUME IInv, writer = Nobody, Kept, UNCHANGED <<staged, pc, replacing>>
    PROVE  IInv'
<1> USE DEF IInv
<1>1. TypeOK'
  BY DEF TypeOK, staged, replacing, Kept
<1>2. UntornMirror'
  BY DEF UntornMirror, Kept
<1>3. (\A t \in Tables \ torn : Mirrors(t, newUq, newKv))'
  BY EmptyContents DEF NoneOpen, staged
<1>4. BatchIsPrefix' /\ NoneOpen'
  BY DEF BatchIsPrefix, NoneOpen, staged
<1>5. OwnRows'
  BY DEF OwnRows, replacing
<1> QED
  BY <1>1, <1>2, <1>3, <1>4, <1>5

(* One write transaction.                                                  *)
LEMMA WriteIInv ==
    ASSUME IInv, NEW c \in Clients, NEW t \in Tables, Write(c, t)
    PROVE  IInv'
<1>1. ASSUME CanWrite(c), Kept, UNCHANGED <<staged, pc, replacing>>
      PROVE  IInv'
  BY <1>1, WriteKeepsIInv DEF CanWrite
<1>2. "ok" \in Outcomes /\ "conflict" \in Outcomes /\ "landed" \in Outcomes
        /\ "rejected" \in Outcomes
  BY DEF Outcomes
<1>3. KeysOf(t) \subseteq Keys /\ TypeOK /\ UntornMirror
  BY DEF KeysOf, IInv
<1>4. ASSUME UNCHANGED <<kv, uq, torn>>, outcome' \in Outcomes
      PROVE  Kept
  BY <1>3, <1>4 DEF Kept, TypeOK, UntornMirror
<1>5. ASSUME NEW k \in KeysOf(t), NEW row \in Rows, Save(c, k, row)
      PROVE  IInv'
  BY <1>1, <1>2, <1>3, <1>5, UpsertStep DEF Save
<1>6. ASSUME NEW k \in KeysOf(t), NEW row \in Rows, Insert(c, k, row)
      PROVE  IInv'
  <2>1. CASE kv[k] # NoRow
    BY <1>1, <1>2, <1>4, <1>6, <2>1 DEF Insert
  <2>2. CASE kv[k] = NoRow
    BY <1>1, <1>2, <1>3, <1>6, <2>2, UpsertStep DEF Insert
  <2> QED
    BY <2>1, <2>2
<1>7. ASSUME NEW k \in KeysOf(t), NEW row \in Rows, NEW p, NEW col,
             InsertGuarded(c, k, row, p, col)
      PROVE  IInv'
  <2>1. CASE Blocked(kv, TableOf[k], p, col, NumOf[row[col]])
    BY <1>1, <1>2, <1>4, <1>7, <2>1 DEF InsertGuarded
  <2>2. CASE ~ Blocked(kv, TableOf[k], p, col, NumOf[row[col]])
    BY <1>1, <1>2, <1>3, <1>7, <2>2, UpsertStep DEF InsertGuarded
  <2> QED
    BY <2>1, <2>2
<1>8. ASSUME NEW k \in KeysOf(t), Delete(c, k)
      PROVE  IInv'
  <2>1. {k} \in SUBSET Keys
    BY <1>3
  <2> QED
    BY <1>1, <1>2, <1>3, <1>8, <2>1, RemoveStep DEF Delete
<1>9. ASSUME DeleteAll(c, t)
      PROVE  IInv'
  BY <1>1, <1>3, <1>9, ClearStep DEF DeleteAll
<1>10. ASSUME NEW f, DeleteWhere(c, t, f)
      PROVE  IInv'
  <2>1. Matching(kv, t, f) \in SUBSET Keys
    BY DEF Matching, InRange, KeysOf
  <2> QED
    BY <1>1, <1>2, <1>3, <1>10, <2>1, RemoveStep DEF DeleteWhere
<1> QED
  BY <1>5, <1>6, <1>7, <1>8, <1>9, <1>10 DEF Write

(* A batch opens.                                                          *)
LEMMA OpenIInv ==
    ASSUME IInv, NEW c \in Clients, NEW b \in Batches,
           BatchBegin(c, b) \/ ReplaceInsert(c, b)
    PROVE  IInv'
<1> USE DEF IInv
<1>1. OpenBatch(c, b) /\ kv' = kv /\ uq' = uq /\ doomed' = doomed /\ outcome' = outcome
        /\ torn' = torn
        /\ target' \in [Clients -> Tables \cup {NoTable}]
        /\ \A d \in Clients : pc'[d] = "collected" => pc[d] = "collected" /\ target'[d] = target[d]
  BY DEF BatchBegin, ReplaceInsert, OpenBatch, replacing, CanWrite, TypeOK
<1>2. TypeOK'
  BY <1>1, BatchParts DEF OpenBatch, TypeOK
<1>3. UntornMirror' /\ (\A t \in Tables \ torn : Mirrors(t, newUq, newKv))'
  BY <1>1 DEF OpenBatch, UntornMirror
<1>4. BatchIsPrefix'
  <2>1. newKv' = After(kv', batch', applied')
    BY <1>1, AfterNone DEF OpenBatch, TypeOK
  <2>2. 1..applied' = {}
    BY <1>1 DEF OpenBatch
  <2> QED
    BY <2>1, <2>2 DEF BatchIsPrefix
<1>5. NoneOpen'
  BY <1>1, ClientAssumption DEF OpenBatch, NoneOpen
<1>6. OwnRows'
  BY <1>1 DEF OwnRows
<1> QED
  BY <1>2, <1>3, <1>4, <1>5, <1>6

(* The steps of an open batch.                                             *)
LEMMA EntryIInv ==
    ASSUME IInv, NEW c \in Clients, BatchEntry(c)
    PROVE  IInv'
<1> USE DEF IInv
<1>1. /\ applied \in Nat /\ applied < Len(batch) /\ batch \in Batches
      /\ Len(batch) \in Nat
      /\ writer = c /\ writer # Nobody
      /\ kv \in Contents /\ newKv \in Contents /\ newUq \in [UniqueKeys -> Owners]
  BY BatchParts, ClientAssumption DEF BatchEntry, TypeOK
<1>2. Entry.key \in Keys /\ Entry.row \in Rows /\ TableOf[Entry.key] \in Tables
  BY <1>1, BatchParts, SchemaAssumption DEF Entry
<1>3. ~ Taken(newUq, Entry.key, Entry.row)
  BY DEF BatchEntry
<1>4. newUq' \in [UniqueKeys -> Owners]
  BY <1>1, <1>2, OwnersStay DEF BatchEntry
<1>5. \A t \in Tables \ torn : Mirrors(t, newUq', newKv')
  BY <1>1, <1>2, <1>3, SyncMirrors DEF BatchEntry
<1>6. newKv' \in Contents
  BY <1>1, <1>2, RowsAreStored DEF BatchEntry, Contents
<1>7. TypeOK'
  BY <1>1, <1>4, <1>6 DEF BatchEntry, TypeOK, replacing
<1>8. UntornMirror' /\ (\A t \in Tables \ torn : Mirrors(t, newUq, newKv))'
        /\ NoneOpen' /\ OwnRows'
  BY <1>1, <1>5 DEF BatchEntry, UntornMirror, NoneOpen, OwnRows, replacing
<1>9. BatchIsPrefix'
  <2>1. newKv = After(kv, batch, applied)
        /\ \A n \in 1..applied :
                TableOf[batch[n].key] \notin torn => EntryLands(kv, batch, n)
    BY <1>1 DEF BatchIsPrefix
  <2>2. newKv' = After(kv, batch, applied + 1)
    <3>1. newKv' = [newKv EXCEPT ![Entry.key] = Entry.row]
      BY DEF BatchEntry
    <3>2. After(kv, batch, applied + 1)
            = [After(kv, batch, applied) EXCEPT ![Entry.key] = Entry.row]
      BY <1>1, AfterStep DEF Entry
    <3> QED
      BY <2>1, <3>1, <3>2
  <2>3. TableOf[Entry.key] \notin torn => ~ Clashes(newKv, Entry.key, Entry.row)
    BY <1>1, <1>2, <1>3, TakenIsClash
  <2>4. TableOf[batch[applied + 1].key] \notin torn => EntryLands(kv, batch, applied + 1)
    BY <1>1, <2>1, <2>3 DEF EntryLands, Entry
  <2>5. \A n \in 1..(applied + 1) :
            TableOf[batch[n].key] \notin torn => EntryLands(kv, batch, n)
    BY <1>1, <2>1, <2>4
  <2> QED
    BY <2>2, <2>5 DEF BatchIsPrefix, BatchEntry
<1> QED
  BY <1>7, <1>8, <1>9

LEMMA CloseIInv ==
    ASSUME IInv, NEW c \in Clients, BatchRefused(c) \/ BatchCommit(c)
    PROVE  IInv'
<1> USE DEF IInv
<1>1. writer = c /\ writer # Nobody /\ NoBatch /\ torn' = torn
  BY ClientAssumption DEF BatchRefused, BatchCommit
<1>2. TypeOK'
  BY EmptyContents, EmptyBatch
  DEF BatchRefused, BatchCommit, NoBatch, TypeOK, replacing, Outcomes
<1>3. UntornMirror'
  BY <1>1 DEF BatchRefused, BatchCommit, UntornMirror
<1>4. (\A t \in Tables \ torn : Mirrors(t, newUq, newKv))'
  BY <1>1, EmptyContents DEF NoBatch
<1>5. BatchIsPrefix' /\ NoneOpen'
  BY <1>1 DEF NoBatch, BatchIsPrefix, NoneOpen
<1>6. OwnRows'
  <2>1. doomed' = doomed /\ target' = target
          /\ \A d \in Clients : pc'[d] = "collected" => pc[d] = "collected"
    BY DEF BatchRefused, BatchCommit, replacing, TypeOK
  <2> QED
    BY <2>1 DEF OwnRows
<1> QED
  BY <1>2, <1>3, <1>4, <1>5, <1>6

(* The steps of a replace_where.                                           *)
LEMMA CollectIInv ==
    ASSUME IInv, NEW c \in Clients, NEW t \in Tables, Collect(c, t)
    PROVE  IInv'
<1> USE DEF IInv
<1>1. PICK f \in EqFilters : ReplaceCollect(c, t, f)
  BY DEF Collect
<1> DEFINE matched == Matching(kv, t, f)
<1>2. matched \in SUBSET Keys /\ \A k \in matched : TableOf[k] = t
  BY DEF Matching, InRange, KeysOf
<1> HIDE DEF matched
<1>3. /\ Only(kv, matched) \in Contents
      /\ \A k \in Present(Only(kv, matched)) : TableOf[k] = t
  BY <1>2, PartsOfContents DEF TypeOK
<1>4. TypeOK'
  BY <1>1, <1>3 DEF ReplaceCollect, TypeOK, staged, matched
<1>5. UntornMirror' /\ (\A u \in Tables \ torn : Mirrors(u, newUq, newKv))'
        /\ NoneOpen' /\ BatchIsPrefix'
  BY <1>1 DEF ReplaceCollect, UntornMirror, NoneOpen, BatchIsPrefix, staged
<1>6. OwnRows'
  <2>1. doomed'[c] = Only(kv, matched) /\ target'[c] = t
    BY <1>1 DEF ReplaceCollect, TypeOK, matched
  <2>2. \A d \in Clients \ {c} :
            doomed'[d] = doomed[d] /\ target'[d] = target[d] /\ pc'[d] = pc[d]
    BY <1>1 DEF ReplaceCollect, TypeOK
  <2> QED
    BY <1>3, <2>1, <2>2 DEF OwnRows
<1> QED
  BY <1>4, <1>5, <1>6

(* A table stays untorn when what was collected from it still stands.      *)
LEMMA ReplaceDeleteIInv ==
    ASSUME IInv, NEW c \in Clients, ReplaceDelete(c)
    PROVE  IInv'
<1> USE DEF IInv
<1>1. /\ kv \in Contents /\ uq \in [UniqueKeys -> Owners]
      /\ doomed[c] \in Contents /\ Present(doomed[c]) \in SUBSET Keys
  BY DEF TypeOK, Present
<1>2. kv' \in Contents /\ uq' \in [UniqueKeys -> Owners]
  BY <1>1, PartsOfContents, OwnersStay DEF ReplaceDelete
<1>3. torn \subseteq torn' /\ torn' \subseteq Tables
  <2>1. Present(doomed[c]) # {} => target[c] \in Tables
    BY SchemaAssumption DEF ReplaceDelete, OwnRows, Present
  <2> QED
    BY <2>1 DEF ReplaceDelete, Stale, TypeOK
<1>4. TypeOK'
  BY <1>2, <1>3, EmptyContents DEF ReplaceDelete, TypeOK, staged
<1>5. ASSUME NEW t \in Tables \ torn'
      PROVE  Mirrors(t, uq', kv')
  <2>1. Mirrors(t, uq, kv)
    BY <1>3, <1>5 DEF UntornMirror
  <2>2. \A k \in Present(doomed[c]) : TableOf[k] = t => doomed[c][k] = kv[k]
    BY <1>5 DEF ReplaceDelete, Stale, OwnRows
  <2> QED
    BY <1>1, <2>1, <2>2, ReleaseMirrors DEF ReplaceDelete
<1>6. UntornMirror'
  BY <1>5 DEF UntornMirror
<1>7. (\A t \in Tables \ torn : Mirrors(t, newUq, newKv))' /\ BatchIsPrefix' /\ NoneOpen'
  BY <1>3 DEF ReplaceDelete, staged, BatchIsPrefix, NoneOpen
<1>8. OwnRows'
  <2>1. ASSUME NEW d \in Clients, pc'[d] = "collected"
        PROVE  pc[d] = "collected" /\ doomed'[d] = doomed[d] /\ target'[d] = target[d]
    BY <2>1 DEF ReplaceDelete, TypeOK
  <2> QED
    BY <2>1 DEF OwnRows
<1> QED
  BY <1>4, <1>6, <1>7, <1>8

LEMMA ReplaceDroppedIInv ==
    ASSUME IInv, NEW c \in Clients, ReplaceDropped(c)
    PROVE  IInv'
<1> USE DEF IInv
<1>1. TypeOK'
  BY EmptyContents DEF ReplaceDropped, TypeOK, staged
<1>2. UntornMirror' /\ (\A t \in Tables \ torn : Mirrors(t, newUq, newKv))'
        /\ NoneOpen' /\ BatchIsPrefix'
  BY DEF ReplaceDropped, UntornMirror, NoneOpen, BatchIsPrefix, staged
<1>3. OwnRows'
  BY DEF ReplaceDropped, TypeOK, OwnRows
<1> QED
  BY <1>1, <1>2, <1>3

LEMMA CrashIInv == ASSUME IInv, Crash PROVE IInv'
<1> USE DEF IInv
<1>1. TypeOK'
  BY EmptyContents, EmptyBatch DEF Crash, NoBatch, TypeOK
<1>2. UntornMirror' /\ (\A t \in Tables \ torn : Mirrors(t, newUq, newKv))'
  BY EmptyContents DEF Crash, NoBatch, UntornMirror
<1>3. OwnRows' /\ NoneOpen' /\ BatchIsPrefix'
  BY DEF Crash, NoBatch, OwnRows, NoneOpen, BatchIsPrefix
<1> QED
  BY <1>1, <1>2, <1>3

LEMMA NextIInv == IInv /\ [Next]_vars => IInv'
<1> SUFFICES ASSUME IInv, [Next]_vars PROVE IInv'
  OBVIOUS
<1>1. CASE Next
  BY <1>1, WriteIInv, OpenIInv, EntryIInv, CloseIInv, CollectIInv,
     ReplaceDeleteIInv, ReplaceDroppedIInv, CrashIInv DEF Next, BatchStep
<1>2. CASE UNCHANGED vars
  BY <1>2 DEF vars, IInv, TypeOK, UntornMirror, Mirrors, BatchIsPrefix,
     NoneOpen, OwnRows
<1> QED
  BY <1>1, <1>2

-----------------------------------------------------------------------------
(***************************************************************************)
(* In every reachable state the unique keys of every table that is not     *)
(* torn mirror its rows, committed and in the open batch, so every claim   *)
(* is found by the next check and none outlives its row.                   *)
(***************************************************************************)
THEOREM RedbInvariant == Spec => []IInv
BY InitIInv, NextIInv, PTL DEF Spec

(***************************************************************************)
(* Types, for every instance.                                              *)
(***************************************************************************)
THEOREM RedbTypes == Spec => []TypeOK
BY RedbInvariant, PTL DEF IInv

(***************************************************************************)
(* airnest_uq holds a claim for every cell of every group of every row in  *)
(* airnest_kv, and no other, until a delete tears the table.               *)
(***************************************************************************)
THEOREM RedbKeysMirrorRows == Spec => []UntornMirror
BY RedbInvariant, PTL DEF IInv

(***************************************************************************)
(* unique(...) holds on redb, whatever interleaves, in every table to      *)
(* which neither a stale delete of replace_where nor a delete_all that     *)
(* passed a row by has happened: the code has no third way to lose it.     *)
(***************************************************************************)
THEOREM RedbUniqueRows == Spec => []UntornAreUnique
<1>1. IInv => UntornAreUnique
  <2> SUFFICES ASSUME IInv, NEW k \in Present(kv), TableOf[k] \notin torn
               PROVE  ~ Clashes(kv, k, kv[k])
    BY DEF UntornAreUnique
  <2>1. TableOf[k] \in Tables
    BY SchemaAssumption DEF Present
  <2> QED
    BY <2>1, MirrorsSeparate DEF IInv, TypeOK, UntornMirror
<1> QED
  BY <1>1, RedbInvariant, PTL

-----------------------------------------------------------------------------
(* Refinement: every step is a step of UniqueTable, or changes nothing.    *)

(* UniqueTable reads the schema as this module does.                       *)
LEMMA SameSchema ==
    /\ Abs!Rows = Rows /\ Abs!EqFilters = EqFilters /\ Abs!Batches = Batches
    /\ \A contents, k, row : Abs!Clashes(contents, k, row) = Clashes(contents, k, row)
    /\ \A contents, b, n : Abs!After(contents, b, n) = After(contents, b, n)
    /\ \A contents, b : Abs!Lands(contents, b) = Lands(contents, b)
    /\ \A contents, t, p, col, n :
            Abs!Blocked(contents, t, p, col, n) = Blocked(contents, t, p, col, n)
<1>1. Abs!Rows = Rows /\ Abs!EqFilters = EqFilters
  BY DEF Abs!Rows, Rows, Abs!EqFilters, EqFilters
<1>2. Abs!Batches = Batches
  BY <1>1 DEF Abs!Batches, Batches, Abs!Entries, Entries
<1>3. ASSUME NEW contents, NEW k, NEW row
      PROVE  Abs!Clashes(contents, k, row) = Clashes(contents, k, row)
  <2>1. \A t, r : Abs!Claims(t, r) = Claims(t, r)
    BY DEF Abs!Claims, Claims, Abs!GroupsOf, GroupsOf, Abs!UniqueKey, UniqueKey,
       Abs!Cell, Cell
  <2>2. Abs!Present(contents) = Present(contents)
    BY DEF Abs!Present, Present
  <2> QED
    BY <2>1, <2>2 DEF Abs!Clashes, Clashes
<1>4. ASSUME NEW contents, NEW b, NEW n
      PROVE  Abs!After(contents, b, n) = After(contents, b, n)
  BY DEF Abs!After, After
<1>5. ASSUME NEW contents, NEW b
      PROVE  Abs!Lands(contents, b) = Lands(contents, b)
  <2>1. \A n : Abs!EntryLands(contents, b, n) = EntryLands(contents, b, n)
    BY <1>3, <1>4 DEF Abs!EntryLands, EntryLands
  <2> QED
    BY <2>1 DEF Abs!Lands, Lands
<1>6. ASSUME NEW contents, NEW t, NEW p, NEW col, NEW n
      PROVE  Abs!Blocked(contents, t, p, col, n) = Blocked(contents, t, p, col, n)
  BY DEF Abs!Blocked, Blocked, Abs!Matching, Matching, Abs!Matches, Matches,
     Abs!InRange, InRange, Abs!KeysOf, KeysOf
<1> QED
  BY <1>1, <1>2, <1>3, <1>4, <1>5, <1>6

LEMMA UpsertRefines ==
    ASSUME IInv, torn = {},
           NEW k \in Keys, NEW row \in Rows, NEW old, NEW done, NEW refused,
           Upsert(k, row, old, done, refused)
    PROVE  IF ~ Clashes(kv, k, row)
             THEN kv' = [kv EXCEPT ![k] = row] /\ outcome' = done
             ELSE kv' = kv /\ outcome' = refused
BY TakenIsClash, SchemaAssumption DEF Upsert, IInv, TypeOK, UntornMirror

LEMMA WriteRefines ==
    ASSUME IInv, torn = {}, NEW c \in Clients, NEW t \in Tables, Write(c, t)
    PROVE  Abs!Next
<1>1. ASSUME NEW k \in KeysOf(t), NEW row \in Rows, Save(c, k, row)
      PROVE  Abs!Next
  <2>1. k \in Keys
    BY DEF KeysOf
  <2>2. Abs!Put(k, row)
    BY <1>1, <2>1, UpsertRefines, SameSchema DEF Save, Abs!Put
  <2> QED
    BY <2>1, <2>2, SameSchema DEF Abs!Next
<1>2. ASSUME NEW k \in KeysOf(t), NEW row \in Rows, Insert(c, k, row)
      PROVE  Abs!Next
  <2>1. k \in Keys
    BY DEF KeysOf
  <2>2. Abs!Create(k, row)
    BY <1>2, <2>1, UpsertRefines, SameSchema DEF Insert, Abs!Create
  <2> QED
    BY <2>1, <2>2, SameSchema DEF Abs!Next
<1>3. ASSUME NEW k \in KeysOf(t), NEW row \in Rows, NEW p \in EqFilters,
             NEW col \in Cols, InsertGuarded(c, k, row, p, col)
      PROVE  Abs!Next
  <2>1. k \in Keys
    BY DEF KeysOf
  <2>2. Abs!CreateGuarded(k, row, p, col)
    BY <1>3, <2>1, UpsertRefines, SameSchema DEF InsertGuarded, Abs!CreateGuarded
  <2> QED
    BY <2>1, <2>2, SameSchema DEF Abs!Next
<1>4. ASSUME NEW ks \in SUBSET Keys, kv' = Without(kv, ks), outcome' \in {outcome, "ok"}
      PROVE  Abs!Next
  BY <1>4 DEF Without, Abs!Next, Abs!Remove
<1>5. ASSUME NEW k \in KeysOf(t), Delete(c, k)
      PROVE  Abs!Next
  <2>1. {k} \in SUBSET Keys
    BY DEF KeysOf
  <2> QED
    BY <1>4, <1>5, <2>1 DEF Delete
<1>6. ASSUME DeleteAll(c, t)
      PROVE  Abs!Next
  <2>1. InRange(t) \in SUBSET Keys
    BY DEF InRange, KeysOf
  <2> QED
    BY <1>4, <1>6, <2>1 DEF DeleteAll
<1>7. ASSUME NEW f \in Filters, DeleteWhere(c, t, f)
      PROVE  Abs!Next
  <2>1. Matching(kv, t, f) \in SUBSET Keys
    BY DEF Matching, InRange, KeysOf
  <2> QED
    BY <1>4, <1>7, <2>1 DEF DeleteWhere
<1> QED
  BY <1>1, <1>2, <1>3, <1>5, <1>6, <1>7 DEF Write

(* A committed batch found every value free; a refused one did not.        *)
LEMMA CloseRefines ==
    ASSUME IInv, torn = {}, NEW c \in Clients, BatchRefused(c) \/ BatchCommit(c)
    PROVE  Abs!Next
<1>1. /\ batch \in Batches /\ Len(batch) \in Nat /\ applied \in 0..Len(batch)
      /\ newKv = After(kv, batch, applied)
      /\ \A n \in 1..applied : EntryLands(kv, batch, n)
  BY BatchParts, ClientAssumption
  DEF IInv, TypeOK, BatchIsPrefix, BatchRefused, BatchCommit
<1>2. Abs!PutAll(batch)
  <2>1. CASE BatchCommit(c)
    <3>1. applied = Len(batch)
      BY <2>1 DEF BatchCommit
    <3>2. Lands(kv, batch)
      BY <1>1, <3>1 DEF Lands
    <3> QED
      BY <1>1, <2>1, <3>1, <3>2, SameSchema DEF BatchCommit, Abs!PutAll
  <2>2. CASE BatchRefused(c)
    <3>1. applied + 1 \in 1..Len(batch)
      BY <1>1, <2>2 DEF BatchRefused
    <3>2. Entry.key \in Keys /\ Entry.row \in Rows
      BY <1>1, <3>1, BatchParts DEF Entry
    <3>3. Clashes(newKv, Entry.key, Entry.row)
      BY <2>2, <3>2, TakenIsClash, SchemaAssumption DEF BatchRefused, IInv, TypeOK
    <3>4. ~ EntryLands(kv, batch, applied + 1)
      BY <1>1, <3>3 DEF EntryLands, Entry
    <3>5. ~ Lands(kv, batch)
      BY <3>1, <3>4 DEF Lands
    <3> QED
      BY <2>2, <3>5, SameSchema DEF BatchRefused, Abs!PutAll
  <2> QED
    BY <2>1, <2>2
<1> QED
  BY <1>1, <1>2, SameSchema DEF Abs!Next

LEMMA StepRefines ==
    ASSUME IInv, torn = {}, [Next]_vars
    PROVE  [Abs!Next]_(Abs!vars)
<1>1. ASSUME NEW c \in Clients, ReplaceDelete(c)
      PROVE  Abs!Next
  <2>1. Present(doomed[c]) \in SUBSET Keys
    BY DEF Present
  <2> QED
    BY <1>1, <2>1 DEF ReplaceDelete, Without, Abs!Next, Abs!Remove
<1>2. ASSUME NEW c \in Clients,
             \/ \E t \in Tables : Collect(c, t)
             \/ \E b \in Batches : BatchBegin(c, b) \/ ReplaceInsert(c, b)
             \/ BatchEntry(c)
             \/ ReplaceDropped(c)
      PROVE  UNCHANGED <<kv, outcome>>
  BY <1>2 DEF Collect, ReplaceCollect, BatchBegin, ReplaceInsert, BatchEntry,
     ReplaceDropped
<1>3. Crash => UNCHANGED <<kv, outcome>>
  BY DEF Crash
<1>4. UNCHANGED vars => UNCHANGED <<kv, outcome>>
  BY DEF vars
<1> QED
  BY <1>1, <1>2, <1>3, <1>4, WriteRefines, CloseRefines
  DEF Next, BatchStep, Abs!vars

(***************************************************************************)
(* The redb backend implements UniqueTable as long as no table is torn: a  *)
(* write is refused exactly when the rows collide, and a batch is one      *)
(* indivisible step, whoever else is in a replace_where meanwhile.         *)
(***************************************************************************)
THEOREM RedbImplementsUniqueTable == Spec => ImplementsUniqueTable
<1>1. Init => Abs!Init
  BY DEF Init, Abs!Init, NoContents
<1>2. IInv /\ [Next]_vars => [torn = {} => [Abs!Next]_(Abs!vars)]_vars
  BY StepRefines
<1> QED
  BY <1>1, <1>2, RedbInvariant, PTL DEF Spec, ImplementsUniqueTable
=============================================================================
