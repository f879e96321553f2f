---------------------------- MODULE SchemaProofs ----------------------------
(***************************************************************************)
(* Facts about claims and batches that the proofs about every backend use. *)
(***************************************************************************)
EXTENDS Schema, SequenceTheorems, WellFoundedInduction, TLAPS

-----------------------------------------------------------------------------
(* Claims.                                                                 *)

(* A row's claims are unique keys of its own table.                        *)
LEMMA ClaimsAreKeys ==
    ASSUME NEW t \in Tables, NEW row \in Stored, NEW q \in Claims(t, row)
    PROVE  q \in UniqueKeys /\ q.group.table = t
<1>1. PICK g \in GroupsOf(t) : q = UniqueKey(g, row)
  BY DEF Claims
<1>2. g \in Groups /\ g.table = t /\ g.cols \subseteq Cols
  BY <1>1, SchemaAssumption DEF GroupsOf
<1>3. \A c \in g.cols : Cell(row, c) \in Vals
  BY <1>2, SchemaAssumption DEF Stored, Cell
<1>4. [c \in g.cols |-> Cell(row, c)] \in [g.cols -> Vals]
  BY <1>3
<1>5. q \in [group : {g}, vals : [g.cols -> Vals]]
  BY <1>1, <1>4 DEF UniqueKey
<1>6. q.group = g
  BY <1>1 DEF UniqueKey
<1> QED
  BY <1>2, <1>5, <1>6 DEF UniqueKeys

LEMMA RowsAreStored == Rows \subseteq Stored
BY DEF Rows, Stored

(* Claims of two tables are never shared.                                  *)
LEMMA ClaimsNameTheirTable ==
    ASSUME NEW t, NEW u, NEW row, NEW other, Claims(t, row) \cap Claims(u, other) # {}
    PROVE  t = u
<1>1. PICK g \in GroupsOf(t), h \in GroupsOf(u) : UniqueKey(g, row) = UniqueKey(h, other)
  BY DEF Claims
<1>2. g = h
  BY <1>1 DEF UniqueKey
<1> QED
  BY <1>2 DEF GroupsOf

(* Rows of the running version share a claim when they agree on the        *)
(* columns of a group.                                                     *)
LEMMA SharedClaim ==
    ASSUME NEW t, NEW row \in Rows, NEW other \in Rows
    PROVE  Claims(t, row) \cap Claims(t, other) # {}
            <=> \E g \in GroupsOf(t) : \A col \in g.cols : row[col] = other[col]
<1>1. ASSUME NEW g \in GroupsOf(t)
      PROVE  /\ g.cols \subseteq Cols
             /\ \A col \in g.cols : Cell(row, col) = row[col] /\ Cell(other, col) = other[col]
  BY <1>1, SchemaAssumption DEF GroupsOf, Rows, Cell
<1>2. ASSUME NEW g \in GroupsOf(t)
      PROVE  UniqueKey(g, row) = UniqueKey(g, other)
                <=> \A col \in g.cols : row[col] = other[col]
  <2>1. ASSUME \A col \in g.cols : row[col] = other[col]
        PROVE  UniqueKey(g, row) = UniqueKey(g, other)
    BY <1>1, <1>2, <2>1 DEF UniqueKey
  <2>2. ASSUME UniqueKey(g, row) = UniqueKey(g, other)
        PROVE  \A col \in g.cols : row[col] = other[col]
    <3>1. [c \in g.cols |-> Cell(row, c)] = [c \in g.cols |-> Cell(other, c)]
      BY <2>2 DEF UniqueKey
    <3>2. \A col \in g.cols : Cell(row, col) = Cell(other, col)
      BY <3>1
    <3> QED
      BY <1>1, <1>2, <3>2
  <2> QED
    BY <2>1, <2>2
<1>3. \A g, h, r, o : UniqueKey(g, r) = UniqueKey(h, o) => g = h
  BY DEF UniqueKey
<1>4. \A q : q \in Claims(t, row) \cap Claims(t, other)
          <=> \E g, h \in GroupsOf(t) : q = UniqueKey(g, row) /\ q = UniqueKey(h, other)
  BY DEF Claims
<1> QED
  BY <1>2, <1>3, <1>4

-----------------------------------------------------------------------------
(* Batches.                                                                 *)

LEMMA EmptyBatch == <<>> \in Batches /\ Len(<<>>) = 0 /\ Touches(<<>>) = {}
<1>1. <<>> \in [1..0 -> Entries]
  OBVIOUS
<1>2. Touches(<<>>) = {}
  BY DEF Touches
<1> QED
  BY <1>1, <1>2, SchemaAssumption DEF Batches

LEMMA BatchParts ==
    ASSUME NEW b \in Batches
    PROVE  /\ Len(b) \in Nat
           /\ DOMAIN b = 1..Len(b)
           /\ \A i \in 1..Len(b) : /\ b[i] \in Entries
                                   /\ b[i].key \in Keys
                                   /\ b[i].row \in Rows
                                   /\ TableOf[b[i].key] \in Touches(b)
<1>1. PICK n \in 0..MaxBatch : b \in [1..n -> Entries]
  BY DEF Batches
<1>2. Len(b) = n /\ DOMAIN b = 1..n /\ n \in Nat
  BY <1>1, SchemaAssumption
<1>3. \A i \in 1..n : b[i] \in Entries
  BY <1>1
<1> QED
  BY <1>2, <1>3 DEF Entries, Touches

LEMMA EntryAppended ==
    ASSUME NEW b \in Batches, Len(b) < MaxBatch, NEW e \in Entries
    PROVE  /\ Append(b, e) \in Batches /\ Len(Append(b, e)) = Len(b) + 1
           /\ DOMAIN b = 1..Len(b) /\ Len(b) \in Nat
           /\ DOMAIN Append(b, e) = 1..(Len(b) + 1)
           /\ \A i \in 1..Len(b) : Append(b, e)[i] = b[i]
           /\ Append(b, e)[Len(b) + 1] = e
<1>1. PICK n \in 0..MaxBatch : b \in [1..n -> Entries]
  BY DEF Batches
<1>2. n \in Nat /\ MaxBatch \in Nat /\ b \in Seq(Entries) /\ Len(b) = n
  BY <1>1, SchemaAssumption
<1>3. /\ Append(b, e) \in Seq(Entries) /\ Len(Append(b, e)) = n + 1
      /\ \A i \in 1..n : Append(b, e)[i] = b[i]
      /\ Append(b, e)[n + 1] = e
  BY <1>2, AppendProperties
<1>4. n + 1 \in 0..MaxBatch
  BY <1>2
<1>5. Append(b, e) \in [1..(n + 1) -> Entries] /\ DOMAIN Append(b, e) = 1..(n + 1)
  BY <1>3, LenProperties
<1> QED
  BY <1>1, <1>2, <1>3, <1>4, <1>5 DEF Batches

-----------------------------------------------------------------------------
(* The contents after some entries of a batch.                              *)

(* A set of entries has a last one.                                        *)
LEMMA LastExists ==
    ASSUME NEW n \in Nat, NEW S \in SUBSET (1..n), S # {}
    PROVE  \E i \in S : \A j \in S : j <= i
<1> DEFINE T == {n - i : i \in S}
           less == {p \in Nat \X Nat : p[1] < p[2]}
<1>1. IsWellFoundedOn(less, Nat)
  BY NatLessThanWellFounded DEF OpToRel
<1>2. T \subseteq Nat /\ T # {}
  <2>1. \A i \in S : i \in 1..n /\ n - i \in Nat
    OBVIOUS
  <2> QED
    BY <2>1
<1> HIDE DEF less
<1>3. PICK x \in T : \A y \in T : <<y, x>> \notin less
  BY <1>1, <1>2, WFMin
<1>4. \A y \in T : x <= y
  <2> TAKE y \in T
  <2>1. x \in Nat /\ y \in Nat
    BY <1>2
  <2>2. <<y, x>> \in less <=> y < x
    BY <2>1 DEF less
  <2> QED
    BY <1>3, <2>1, <2>2
<1>5. PICK i \in S : x = n - i
  BY <1>3
<1>6. \A j \in S : j <= i
  <2> TAKE j \in S
  <2>1. n - j \in T
    OBVIOUS
  <2> QED
    BY <1>4, <1>5, <2>1
<1> QED
  BY <1>6

LEMMA AfterNone ==
    ASSUME NEW contents \in Contents, NEW b
    PROVE  After(contents, b, 0) = contents
BY DEF After, Contents

(* A key that no entry names keeps its row; another does not depend on it. *)
LEMMA AfterMiss ==
    ASSUME NEW kv, NEW b, NEW n, NEW k \in Keys, \A i \in 1..n : b[i].key # k
    PROVE  After(kv, b, n)[k] = kv[k]
<1>1. {i \in 1..n : b[i].key = k} = {}
  OBVIOUS
<1> QED
  BY <1>1 DEF After

(* A batch changes only the tables it touches.                             *)
LEMMA AfterElsewhere ==
    ASSUME NEW contents, NEW b \in Batches, NEW n \in 0..Len(b),
           NEW k \in Keys, TableOf[k] \notin Touches(b)
    PROVE  After(contents, b, n)[k] = contents[k]
<1>1. {i \in 1..n : b[i].key = k} = {}
  BY BatchParts
<1> QED
  BY <1>1 DEF After

LEMMA AfterIsFunction ==
    ASSUME NEW kv, NEW b, NEW n
    PROVE  After(kv, b, n) = [k \in Keys |-> After(kv, b, n)[k]]
BY DEF After

LEMMA AfterHit ==
    ASSUME NEW kv, NEW other, NEW b, NEW n, NEW k \in Keys, \E i \in 1..n : b[i].key = k
    PROVE  After(kv, b, n)[k] = After(other, b, n)[k]
<1>1. {i \in 1..n : b[i].key = k} # {}
  OBVIOUS
<1> QED
  BY <1>1 DEF After

(* Applying one more entry.                                                *)
LEMMA AfterStep ==
    ASSUME NEW contents \in Contents, NEW b \in Batches, NEW n \in Nat, n < Len(b)
    PROVE  After(contents, b, n + 1)
            = [After(contents, b, n) EXCEPT ![b[n + 1].key] = b[n + 1].row]
<1> DEFINE hits(m, k) == {i \in 1..m : b[i].key = k}
           last(m, k) == CHOOSE i \in hits(m, k) : \A j \in hits(m, k) : j <= i
           at(m, k) == IF hits(m, k) = {} THEN contents[k] ELSE b[last(m, k)].row
<1>1. \A m : After(contents, b, m) = [k \in Keys |-> at(m, k)]
  BY DEF After
<1>2. ASSUME NEW k \in Keys
      PROVE  at(n + 1, k) = IF k = b[n + 1].key THEN b[n + 1].row ELSE at(n, k)
  <2>1. CASE k = b[n + 1].key
    <3>1. n + 1 \in hits(n + 1, k)
      BY <2>1
    <3>2. \A j \in hits(n + 1, k) : j <= n + 1
      OBVIOUS
    <3>3. \A i \in hits(n + 1, k) :
            (\A j \in hits(n + 1, k) : j <= i) => i = n + 1
      BY <3>1
    <3> HIDE DEF hits
    <3>4. last(n + 1, k) = n + 1
      BY <3>1, <3>2, <3>3
    <3>5. hits(n + 1, k) # {}
      BY <3>1
    <3> HIDE DEF last
    <3> QED
      BY <2>1, <3>4, <3>5
  <2>2. CASE k # b[n + 1].key
    <3>1. hits(n + 1, k) = hits(n, k)
      BY <2>2
    <3>2. last(n + 1, k) = last(n, k)
      BY <3>1, Zenon
    <3> HIDE DEF hits, last
    <3> QED
      BY <2>2, <3>1, <3>2
  <2> QED
    BY <2>1, <2>2
<1> HIDE DEF at
<1> QED
  BY <1>1, <1>2

(* The last entry for a key is one of them.                                *)
Hits(b, n, k) == {i \in 1..n : b[i].key = k}
Last(b, n, k) == CHOOSE i \in Hits(b, n, k) : \A j \in Hits(b, n, k) : j <= i

LEMMA AfterIsLast ==
    ASSUME NEW kv, NEW b, NEW n, NEW k \in Keys
    PROVE  After(kv, b, n)[k] = IF Hits(b, n, k) = {} THEN kv[k] ELSE b[Last(b, n, k)].row
BY DEF After, Hits, Last

LEMMA LastHits ==
    ASSUME NEW b, NEW n \in Nat, NEW k, Hits(b, n, k) # {}
    PROVE  /\ Last(b, n, k) \in Hits(b, n, k)
           /\ \A j \in Hits(b, n, k) : j <= Last(b, n, k)
<1>1. Hits(b, n, k) \in SUBSET (1..n)
  BY DEF Hits
<1>2. \E i \in Hits(b, n, k) : \A j \in Hits(b, n, k) : j <= i
  BY <1>1, LastExists
<1> QED
  BY <1>2 DEF Last

LEMMA AfterPrefix ==
    ASSUME NEW kv, NEW b \in Batches, Len(b) < MaxBatch, NEW e \in Entries, NEW n \in 0..Len(b)
    PROVE  After(kv, Append(b, e), n) = After(kv, b, n)
<1> DEFINE a == Append(b, e)
<1>1. n \in Nat /\ \A i \in 1..n : a[i] = b[i]
  BY EntryAppended
<1> HIDE DEF a
<1>2. ASSUME NEW k \in Keys PROVE After(kv, a, n)[k] = After(kv, b, n)[k]
  <2>1. Hits(a, n, k) = Hits(b, n, k)
    BY <1>1 DEF Hits
  <2>2. Last(a, n, k) = Last(b, n, k)
    BY <2>1, Zenon DEF Last
  <2>3. CASE Hits(b, n, k) = {}
    BY <2>1, <2>3, AfterIsLast
  <2>4. CASE Hits(b, n, k) # {}
    <3>1. Last(b, n, k) \in 1..n
      BY <1>1, <2>4, LastHits DEF Hits
    <3> QED
      BY <1>1, <2>1, <2>2, <2>4, <3>1, AfterIsLast
  <2> QED
    BY <2>3, <2>4
<1>3. After(kv, a, n) = [k \in Keys |-> After(kv, a, n)[k]]
  BY DEF After
<1>4. After(kv, b, n) = [k \in Keys |-> After(kv, b, n)[k]]
  BY DEF After
<1>5. After(kv, a, n) = After(kv, b, n)
  BY <1>2, <1>3, <1>4, Zenon
<1> QED
  BY <1>5 DEF a

LEMMA AfterAppend ==
    ASSUME NEW kv, NEW b \in Batches, Len(b) < MaxBatch, NEW e \in Entries, NEW k \in Keys
    PROVE  After(kv, Append(b, e), Len(b) + 1)[k]
            = IF k = e.key THEN e.row ELSE After(kv, b, Len(b))[k]
<1> DEFINE a == Append(b, e)
           n == Len(b)
<1>1. /\ n \in Nat /\ \A i \in 1..n : a[i] = b[i]
      /\ a[n + 1] = e
  BY EntryAppended
<1>2. After(kv, a, n) = After(kv, b, n)
  BY <1>1, AfterPrefix
<1> HIDE DEF a, n
<1>3. CASE k = e.key
  <2>1. n + 1 \in Hits(a, n + 1, k)
    BY <1>1, <1>3 DEF Hits
  <2>2. Last(a, n + 1, k) \in Hits(a, n + 1, k) /\ n + 1 <= Last(a, n + 1, k)
    BY <1>1, <2>1, LastHits
  <2>3. Last(a, n + 1, k) = n + 1
    BY <1>1, <2>2 DEF Hits
  <2>4. After(kv, a, n + 1)[k] = e.row
    BY <1>1, <2>1, <2>3, AfterIsLast
  <2> QED
    BY <1>3, <2>4 DEF a, n
<1>4. CASE k # e.key
  <2>1. Hits(a, n + 1, k) = Hits(a, n, k)
    BY <1>1, <1>4 DEF Hits
  <2>2. Last(a, n + 1, k) = Last(a, n, k)
    BY <2>1, Zenon DEF Last
  <2>3. After(kv, a, n + 1)[k] = After(kv, a, n)[k]
    BY <2>1, <2>2, AfterIsLast
  <2> QED
    BY <1>2, <1>4, <2>3 DEF a, n
<1> QED
  BY <1>3, <1>4

(* One more entry lands, or does not, on what the others leave.            *)
LEMMA LandsAppend ==
    ASSUME NEW kv, NEW b \in Batches, Len(b) < MaxBatch, NEW e \in Entries, Lands(kv, b)
    PROVE  Lands(kv, Append(b, e)) <=> ~ Clashes(After(kv, b, Len(b)), e.key, e.row)
<1> DEFINE a == Append(b, e)
<1>1. /\ Len(b) \in Nat /\ Len(a) = Len(b) + 1 /\ \A i \in 1..Len(b) : a[i] = b[i]
      /\ a[Len(b) + 1] = e
  BY EntryAppended
<1>2. \A n \in 0..Len(b) : After(kv, a, n) = After(kv, b, n)
  BY AfterPrefix
<1> HIDE DEF a
<1>3. \A n \in 1..Len(b) : EntryLands(kv, a, n) <=> EntryLands(kv, b, n)
  <2> TAKE n \in 1..Len(b)
  <2>1. n - 1 \in 0..Len(b)
    BY <1>1
  <2> QED
    BY <1>1, <1>2, <2>1 DEF EntryLands
<1>4. EntryLands(kv, a, Len(b) + 1) <=> ~ Clashes(After(kv, b, Len(b)), e.key, e.row)
  <2>1. (Len(b) + 1) - 1 = Len(b) /\ Len(b) \in 0..Len(b)
    BY <1>1
  <2> QED
    BY <1>1, <1>2, <2>1 DEF EntryLands
<1>5. Lands(kv, a) <=> ~ Clashes(After(kv, b, Len(b)), e.key, e.row)
  <2>1. \A n \in 1..Len(b) : EntryLands(kv, b, n)
    BY DEF Lands
  <2>2. Lands(kv, a) <=> \A n \in 1..(Len(b) + 1) : EntryLands(kv, a, n)
    BY <1>1 DEF Lands
  <2>3. \A n \in 1..(Len(b) + 1) : n \in 1..Len(b) \/ n = Len(b) + 1
    BY <1>1
  <2>4. Len(b) + 1 \in 1..(Len(b) + 1) /\ \A n \in 1..Len(b) : n \in 1..(Len(b) + 1)
    BY <1>1
  <2> QED
    BY <1>3, <1>4, <2>1, <2>2, <2>3, <2>4
<1> QED
  BY <1>5 DEF a
=============================================================================
