---------------------------- MODULE ReadsProofs ----------------------------
(***************************************************************************)
(* What holds of Reads for any number of rows, fields, cells, filters,     *)
(* keys of an order and limits, and any two engines that read cells as     *)
(* numbers.                                                                *)
(*                                                                         *)
(* The sort and the filter are recursive functions.  Induction over sets   *)
(* of naturals says what they compute.                                     *)
(***************************************************************************)
EXTENDS Reads, SequenceTheorems, FiniteSetTheorems, TLAPS

-----------------------------------------------------------------------------
(* The inductive invariant: a row's cells are those of what its blob       *)
(* encodes.                                                                *)
Paired == \A id \in Ids : kv[id] # NoRow => kv[id].cells = kv[id].blob.row

IInv == TypeOK /\ Paired

-----------------------------------------------------------------------------
(* Decoding.                                                               *)

LEMMA OldShape ==
    ASSUME NEW row \in Shapes
    PROVE  /\ \A c \in Cols \ NewCols : row[c] \in Vals
           /\ row \notin Rows => \A c \in NewCols : row[c] = Missing
           /\ \A c \in Cols : row[c] \in Vals \cup {Missing}
BY ReadsAssumption DEF Shapes, Rows, Old

(* A blob decodes to a row whose values are the ones it encodes, except    *)
(* those that its shape lacks.                                             *)
LEMMA DecodedTells ==
    ASSUME NEW blob \in [codec : Codecs, row : Shapes], DecodeRow(blob) # Unreadable
    PROVE  /\ DecodeRow(blob) \in Rows
           /\ \A c \in Cols : blob.row[c] \in {DecodeRow(blob)[c], Missing}
<1>1. CASE AsCurrent(blob) # Unreadable
  BY <1>1 DEF AsCurrent, DecodeRow
<1>2. CASE AsCurrent(blob) = Unreadable
  <2>1. DecodeRow(blob) = Upgrade(blob) /\ AsOld(blob) # Unreadable
    BY <1>2 DEF DecodeRow, Upgrade
  <2>2. DecodeRow(blob) = [c \in Cols |-> IF c \in NewCols THEN Default ELSE blob.row[c]]
    BY <2>1 DEF Upgrade
  <2>3. blob.row \notin Rows
    BY <1>2, <2>1, ReadsAssumption DEF AsCurrent, AsOld, Rows
  <2> QED
    BY <2>2, <2>3, OldShape, ReadsAssumption DEF Rows
<1> QED
  BY <1>1, <1>2

(* What the store has just written in its own codec reads back.            *)
LEMMA WrittenReadsBack ==
    ASSUME NEW row \in Rows
    PROVE  DecodeRow(Blob(StoreCodec, row)) = row /\ row # Unreadable
BY ReadsAssumption DEF DecodeRow, AsCurrent, Blob, Rows

-----------------------------------------------------------------------------
(* The stored rows.                                                        *)

LEMMA InitHolds == Init => IInv
<1> SUFFICES ASSUME Init PROVE IInv
  OBVIOUS
<1>1. ASSUME NEW row \in Rows
      PROVE  /\ Stored(Old(row), Blob(StoreCodec, Old(row)))
                    \in [cells : Shapes, blob : [codec : Codecs, row : Shapes]]
             /\ Stored(Old(row), Blob(StoreCodec, Old(row))).cells
                    = Stored(Old(row), Blob(StoreCodec, Old(row))).blob.row
  <2>1. Old(row) \in Shapes
    BY DEF Shapes
  <2> QED
    BY <2>1, ReadsAssumption DEF Stored, Blob
<1>2. \A id \in Ids : kv[id] # NoRow =>
            \E row \in Rows : kv[id] = Stored(Old(row), Blob(StoreCodec, Old(row)))
  BY DEF Init
<1>3. kv = [id \in Ids |-> kv[id]]
  BY DEF Init
<1> QED
  BY <1>1, <1>2, <1>3 DEF IInv, TypeOK, Paired

(* A row whose cells are those of its blob takes one place.                *)
LEMMA WriteKeeps ==
    ASSUME IInv, NEW id \in Ids, NEW row \in Rows, NEW codec \in Codecs,
           kv' = [kv EXCEPT ![id] = Stored(row, Blob(codec, row))]
    PROVE  IInv'
<1>1. Stored(row, Blob(codec, row)) \in [cells : Shapes, blob : [codec : Codecs, row : Shapes]]
  BY DEF Stored, Blob, Shapes
<1>2. TypeOK'
  BY <1>1 DEF IInv, TypeOK
<1>3. Paired'
  BY DEF IInv, TypeOK, Paired, Stored, Blob
<1> QED
  BY <1>2, <1>3 DEF IInv

LEMMA UpdateWrites ==
    ASSUME IInv, NEW id \in Ids, NEW col \in Cols, NEW val \in Vals, Update(id, col, val)
    PROVE  \E row \in Rows : kv' = [kv EXCEPT ![id] = Stored(row, Blob(StoreCodec, row))]
<1> DEFINE value == DecodeRow(kv[id].blob)
           row == [value EXCEPT ![col] = val]
<1>1. kv[id].blob \in [codec : Codecs, row : Shapes] /\ value # Unreadable
  BY DEF Update, IInv, TypeOK
<1>2. value \in Rows
  BY <1>1, DecodedTells
<1>3. row \in Rows
  <2> HIDE DEF value
  <2> QED
    BY <1>2 DEF Rows
<1> QED
  BY <1>3 DEF Update, Save

LEMMA NextKeeps == IInv /\ [Next]_kv => IInv'
<1> SUFFICES ASSUME IInv, [Next]_kv PROVE IInv'
  OBVIOUS
<1>1. ASSUME NEW id \in Ids, NEW row \in Rows, Save(id, row) \/ SaveBatch(id, row)
      PROVE  IInv'
  BY <1>1, WriteKeeps, ReadsAssumption DEF Save, SaveBatch, Codecs
<1>2. ASSUME NEW id \in Ids, NEW col \in Cols, NEW val \in Vals, Update(id, col, val)
      PROVE  IInv'
  BY <1>2, UpdateWrites, WriteKeeps, ReadsAssumption
<1>3. ASSUME NEW id \in Ids, Delete(id)
      PROVE  IInv'
  BY <1>3 DEF Delete, IInv, TypeOK, Paired
<1>4. CASE UNCHANGED kv
  BY <1>4 DEF IInv, TypeOK, Paired
<1> QED
  BY <1>1, <1>2, <1>3, <1>4 DEF Next

(* A row is stored with the cells that its blob encodes.                   *)
THEOREM ReadsInvariant == Spec => []IInv
<1> QED
  BY InitHolds, NextKeeps, PTL DEF Spec

(* Rows are cells beside a blob, each in the shape of one version.         *)
THEOREM ReadsTypes == Spec => []TypeOK
<1>1. IInv => TypeOK
  BY DEF IInv
<1> QED
  BY <1>1, ReadsInvariant, PTL

(***************************************************************************)
(* A value that is read has the cells it was found by, in every codec, and *)
(* whether its blob was decoded as it is or upgraded: an upgrade changes   *)
(* no field that the older version knew.                                   *)
(***************************************************************************)
THEOREM ReadsCellsTell == Spec => []CellsTellTheValue
<1>1. ASSUME IInv, NEW id \in Ids, kv[id] # NoRow, DecodeRow(kv[id].blob) # Unreadable,
             NEW col \in Cols
      PROVE  Cell(id, col) \in {DecodeRow(kv[id].blob)[col], Missing}
  <2>1. kv[id].blob \in [codec : Codecs, row : Shapes] /\ kv[id].cells = kv[id].blob.row
    BY <1>1 DEF IInv, TypeOK, Paired
  <2> QED
    BY <1>1, <2>1, DecodedTells DEF Cell
<1>2. IInv => CellsTellTheValue
  BY <1>1 DEF CellsTellTheValue
<1> QED
  BY <1>2, ReadsInvariant, PTL

(***************************************************************************)
(* After an update a row is found by every value it shows, also when what  *)
(* was updated was a row of an older version.                              *)
(***************************************************************************)
THEOREM ReadsUpdatedAreFound == Spec => UpdatedRowsAreFound
<1>1. ASSUME IInv, NEW id \in Ids, NEW col \in Cols, NEW val \in Vals, Update(id, col, val)
      PROVE  LET value == DecodeRow(kv'[id].blob)
             IN  value # Unreadable /\ \A c \in Cols : kv'[id].cells[c] = value[c]
  <2>1. PICK row \in Rows : kv' = [kv EXCEPT ![id] = Stored(row, Blob(StoreCodec, row))]
    BY <1>1, UpdateWrites
  <2>2. kv'[id] = Stored(row, Blob(StoreCodec, row))
    BY <1>1, <2>1 DEF IInv, TypeOK
  <2>3. kv'[id].blob = Blob(StoreCodec, row) /\ kv'[id].cells = row
    BY <2>2 DEF Stored
  <2> QED
    BY <2>3, WrittenReadsBack
<1>2. IInv /\ [Next]_kv =>
        [\A id \in Ids, col \in Cols, val \in Vals : Update(id, col, val) =>
            LET value == DecodeRow(kv'[id].blob)
            IN  value # Unreadable /\ \A c \in Cols : kv'[id].cells[c] = value[c]]_kv
  BY <1>1
<1> QED
  BY <1>2, ReadsInvariant, PTL DEF Spec, UpdatedRowsAreFound

-----------------------------------------------------------------------------
(* Induction and recursion, over sets.                                     *)

LEMMA Induction ==
    ASSUME NEW N \in Nat, NEW S, 0 \in S, \A n \in 0..(N - 1) : n \in S => n + 1 \in S
    PROVE  0..N \subseteq S
<1> SUFFICES ASSUME (0..N) \ S # {} PROVE FALSE
  OBVIOUS
<1> DEFINE T == (0..N) \ S
           less == {p \in Nat \X Nat : p[1] < p[2]}
<1>1. IsWellFoundedOn(less, Nat)
  BY NatLessThanWellFounded DEF OpToRel
<1>2. T \subseteq Nat /\ T # {}
  OBVIOUS
<1> HIDE DEF less
<1>3. PICK n \in T : \A m \in T : <<m, n>> \notin less
  BY <1>1, <1>2, WFMin
<1>4. n \in 0..N /\ n \notin S /\ n # 0
  OBVIOUS
<1>5. n - 1 \in 0..(N - 1) /\ <<n - 1, n>> \in less
  BY <1>4 DEF less
<1>6. n - 1 \in S
  BY <1>3, <1>5
<1> QED
  BY <1>4, <1>5, <1>6

(* g gets each of its N values from the one before it, in X.               *)
Steps(step, N, X) == step \in [X \X (1..N) -> X]

Iterates(g, N, X, start, step) ==
    /\ g \in [0..N -> X] /\ g[0] = start
    /\ \A n \in 1..N : g[n] = step[<<g[n - 1], n>>]

LEMMA IteratesExists ==
    ASSUME NEW N \in Nat, NEW X, NEW start \in X, NEW step, Steps(step, N, X)
    PROVE  \E g : Iterates(g, N, X, start, step)
<1> USE DEF Steps
<1> DEFINE Good(g, k) == g[0] = start /\ \A n \in 1..k : g[n] = step[<<g[n - 1], n>>]
           S == {k \in 0..N : \E g \in [0..k -> X] : Good(g, k)}
<1>1. 0 \in S
  <2>1. [n \in 0..0 |-> start][0] = start
    OBVIOUS
  <2>2. [n \in 0..0 |-> start] \in [0..0 -> X]
    OBVIOUS
  <2>3. 0 \in 0..N /\ \A n \in 1..0 : FALSE
    OBVIOUS
  <2> QED
    BY <2>1, <2>2, <2>3
<1>2. ASSUME NEW k \in 0..(N - 1), k \in S PROVE k + 1 \in S
  <2>1. PICK g \in [0..k -> X] : Good(g, k)
    BY <1>2
  <2>2. k \in Nat /\ k \in 0..k /\ k + 1 \in 1..N /\ k + 1 \in Nat /\ (k + 1) - 1 = k
    OBVIOUS
  <2>3. PICK next : next = step[<<g[k], k + 1>>]
    OBVIOUS
  <2>4. next \in X
    BY <2>2, <2>3
  <2> DEFINE h == [n \in 0..(k + 1) |-> IF n = k + 1 THEN next ELSE g[n]]
  <2>5. h \in [0..(k + 1) -> X]
    BY <2>2, <2>4
  <2>6. h[k + 1] = next /\ \A n \in 0..k : h[n] = g[n]
    BY <2>2
  <2> HIDE DEF h
  <2>7. h[0] = start
    BY <2>1, <2>2, <2>6
  <2>8. ASSUME NEW n \in 1..(k + 1) PROVE h[n] = step[<<h[n - 1], n>>]
    <3>1. n - 1 \in 0..k /\ (n = k + 1 \/ n \in 1..k)
      BY <2>2
    <3> QED
      BY <2>1, <2>2, <2>3, <2>6, <3>1
  <2>9. Good(h, k + 1)
    BY <2>7, <2>8
  <2> QED
    BY <2>2, <2>5, <2>9
<1> HIDE DEF S
<1>3. 0..N \subseteq S
  BY <1>1, <1>2, Induction
<1>4. N \in S
  BY <1>3
<1> QED
  BY <1>4 DEF S, Iterates

-----------------------------------------------------------------------------
(* Filtered sequences.                                                     *)

(* Where the elements of s that are in S stand.                            *)
Places(s, S, n) == {i \in 1..n : s[i] \in S}

(* f has, in the order of s, its first n elements that are in S.           *)
FilteredTo(f, s, S, n) ==
    \E at \in [1..Len(f) -> Places(s, S, n)] :
        /\ \A p \in 1..Len(f) : f[p] = s[at[p]]
        /\ \A p, q \in 1..Len(f) : p < q => at[p] < at[q]
        /\ \A i \in Places(s, S, n) : \E p \in 1..Len(f) : at[p] = i

LEMMA FilteredOne ==
    ASSUME NEW X, NEW s \in Seq(X), NEW S, NEW n \in 1..Len(s),
           NEW f \in Seq(X), FilteredTo(f, s, S, n - 1)
    PROVE  LET g == IF s[n] \in S THEN Append(f, s[n]) ELSE f
           IN  g \in Seq(X) /\ FilteredTo(g, s, S, n)
<1> n \in Nat /\ n - 1 \in Nat /\ s[n] \in X /\ Len(f) \in Nat
  OBVIOUS
<1>1. CASE s[n] \notin S
  <2>1. Places(s, S, n) = Places(s, S, n - 1)
    BY <1>1 DEF Places
  <2> QED
    BY <1>1, <2>1 DEF FilteredTo
<1>2. CASE s[n] \in S
  <2> DEFINE g == Append(f, s[n])
             k == Len(f)
  <2>1. /\ g \in Seq(X) /\ Len(g) = k + 1 /\ g[k + 1] = s[n]
        /\ \A p \in 1..k : g[p] = f[p]
    BY AppendProperties
  <2>2. Places(s, S, n) = Places(s, S, n - 1) \cup {n}
    BY <1>2 DEF Places
  <2>3. PICK at \in [1..k -> Places(s, S, n - 1)] :
            /\ \A p \in 1..k : f[p] = s[at[p]]
            /\ \A p, q \in 1..k : p < q => at[p] < at[q]
            /\ \A i \in Places(s, S, n - 1) : \E p \in 1..k : at[p] = i
    BY DEF FilteredTo
  <2> DEFINE to == [p \in 1..(k + 1) |-> IF p = k + 1 THEN n ELSE at[p]]
  <2>4. to \in [1..(k + 1) -> Places(s, S, n)]
    BY <2>2, <2>3
  <2>5. \A p \in 1..k : p \in 1..(k + 1) /\ to[p] = at[p] /\ at[p] \in 1..(n - 1)
    BY <2>3 DEF Places
  <2>6. to[k + 1] = n /\ k + 1 \in 1..(k + 1)
    OBVIOUS
  <2> HIDE DEF to, g, k
  <2>7. k \in Nat
    BY DEF k
  <2>8. \A p \in 1..(k + 1) : p = k + 1 \/ p \in 1..k
    BY <2>7
  <2>9. \A p \in 1..(k + 1) : g[p] = s[to[p]]
    BY <2>1, <2>3, <2>5, <2>6, <2>8
  <2>10. \A p, q \in 1..(k + 1) : p < q => to[p] < to[q]
    <3> SUFFICES ASSUME NEW p \in 1..(k + 1), NEW q \in 1..(k + 1), p < q
                 PROVE  to[p] < to[q]
      OBVIOUS
    <3>1. p \in 1..k
      BY <2>7
    <3> QED
      BY <2>3, <2>5, <2>6, <2>7, <2>8, <3>1
  <2>11. \A i \in Places(s, S, n) : \E p \in 1..(k + 1) : to[p] = i
    BY <2>2, <2>3, <2>5, <2>6
  <2>12. FilteredTo(g, s, S, n)
    <3>1. to \in [1..Len(g) -> Places(s, S, n)]
      BY <2>1, <2>4
    <3>2. \A p \in 1..Len(g) : g[p] = s[to[p]]
      BY <2>1, <2>9
    <3>3. \A p, q \in 1..Len(g) : p < q => to[p] < to[q]
      BY <2>1, <2>10
    <3>4. \A i \in Places(s, S, n) : \E p \in 1..Len(g) : to[p] = i
      BY <2>1, <2>11
    <3> QED
      BY <3>1, <3>2, <3>3, <3>4, Zenon DEF FilteredTo
  <2> QED
    BY <1>2, <2>1, <2>12 DEF g
<1> QED
  BY <1>1, <1>2

LEMMA FilteredSelects ==
    ASSUME NEW X, NEW s \in Seq(X), NEW S
    PROVE  Filtered(s, S) \in Seq(X) /\ FilteredTo(Filtered(s, S), s, S, Len(s))
<1> DEFINE One(f, n) == IF s[n] \in S THEN Append(f, s[n]) ELSE f
           body(f) == [n \in 0..Len(s) |->
                        IF n = 0 THEN << >>
                        ELSE IF s[n] \in S THEN Append(f[n - 1], s[n]) ELSE f[n - 1]]
<1>1. PICK N \in Nat : N = Len(s)
  OBVIOUS
<1>2. PICK step : Steps(step, N, Seq(X)) /\
            \A g \in Seq(X), n \in 1..N : step[<<g, n>>] = One(g, n)
  <2>1. \A g \in Seq(X), n \in 1..N : One(g, n) \in Seq(X)
    BY <1>1, AppendProperties
  <2> DEFINE step == [x \in Seq(X) \X (1..N) |-> One(x[1], x[2])]
  <2>2. Steps(step, N, Seq(X))
    BY <2>1 DEF Steps
  <2>3. \A g \in Seq(X), n \in 1..N : step[<<g, n>>] = One(g, n)
    OBVIOUS
  <2> HIDE DEF step
  <2> QED
    BY <2>2, <2>3
<1>3. PICK g : Iterates(g, N, Seq(X), << >>, step)
  <2>1. << >> \in Seq(X)
    OBVIOUS
  <2> QED
    BY <1>1, <1>2, <2>1, IteratesExists
<1>4. g = body(g)
  <2>1. \A n \in 1..N : g[n] = One(g[n - 1], n)
    <3> TAKE n \in 1..N
    <3>1. n - 1 \in 0..N
      OBVIOUS
    <3> QED
      BY <1>2, <1>3, <3>1 DEF Iterates
  <2>2. \A n \in 0..N : n = 0 \/ n \in 1..N
    OBVIOUS
  <2> QED
    BY <1>1, <1>3, <2>1, <2>2 DEF Iterates
<1>5. PICK f : f = body(f) /\ Filtered(s, S) = f[Len(s)]
  <2> DEFINE f == CHOOSE h : h = body(h)
  <2>1. Filtered(s, S) = f[Len(s)]
    BY Zenon DEF Filtered
  <2> HIDE DEF body
  <2>2. f = body(f)
    BY <1>4, Zenon
  <2> HIDE DEF f
  <2> QED
    BY <2>1, <2>2
<1>6. f[0] = << >> /\ \A n \in 1..N : f[n] = One(f[n - 1], n)
  <2>1. \A n \in 0..N : f[n] = body(f)[n]
    BY <1>5
  <2>2. 0 \in 0..N /\ \A n \in 1..N : n \in 0..N /\ n # 0
    OBVIOUS
  <2> QED
    BY <1>1, <2>1, <2>2
<1> HIDE DEF One, body
<1> DEFINE T == {n \in 0..N : f[n] \in Seq(X) /\ FilteredTo(f[n], s, S, n)}
<1>7. 0 \in T
  <2>1. << >> \in Seq(X) /\ Len(<< >>) = 0 /\ Places(s, S, 0) = {} /\ 1..0 = {} /\ 0 \in 0..N
    BY DEF Places
  <2>2. FilteredTo(<< >>, s, S, 0)
    <3>1. [p \in 1..0 |-> p] \in [1..0 -> Places(s, S, 0)]
      BY <2>1
    <3> QED
      BY <2>1, <3>1 DEF FilteredTo
  <2> QED
    BY <1>6, <2>1, <2>2, Zenon
<1>8. ASSUME NEW n \in 0..(N - 1), n \in T PROVE n + 1 \in T
  <2>1. n + 1 \in 1..N /\ (n + 1) - 1 = n /\ n + 1 \in 0..N
    OBVIOUS
  <2>2. f[n + 1] = One(f[n], n + 1)
    BY <1>6, <2>1
  <2>3. One(f[n], n + 1) \in Seq(X) /\ FilteredTo(One(f[n], n + 1), s, S, n + 1)
    BY <1>1, <1>8, <2>1, FilteredOne DEF One
  <2> QED
    BY <2>1, <2>2, <2>3
<1> HIDE DEF T
<1>9. 0..N \subseteq T
  BY <1>7, <1>8, Induction
<1>10. N \in T
  BY <1>9
<1> QED
  BY <1>1, <1>5, <1>10 DEF T

-----------------------------------------------------------------------------
(* Lists: sequences that have every element of a set, once.                *)

Lists(s, T) ==
    /\ s \in Seq(T) /\ \A t \in T : \E n \in DOMAIN s : s[n] = t
    /\ \A n, m \in DOMAIN s : s[n] = s[m] => n = m

LEMMA ListCounts ==
    ASSUME NEW T, NEW s, Lists(s, T)
    PROVE  IsFiniteSet(T) /\ Cardinality(T) = Len(s) /\ Len(s) \in Nat
<1>1. s \in [1..Len(s) -> T] /\ Len(s) \in Nat /\ DOMAIN s = 1..Len(s)
  BY DEF Lists
<1>2. s \in Bijection(1..Len(s), T)
  BY <1>1 DEF Lists, Bijection, Injection, Surjection, IsInjective
<1>3. ExistsBijection(1..Len(s), T)
  BY <1>2 DEF ExistsBijection
<1>4. IsFiniteSet(1..Len(s))
  BY <1>1, FS_Interval
<1> QED
  BY <1>1, <1>3, <1>4, FS_CountingElements, FS_Bijection

(* As many elements are left as places held one.                           *)
LEMMA FilteredCounts ==
    ASSUME NEW X, NEW s \in Seq(X), NEW S
    PROVE  /\ Filtered(s, S) \in Seq(X)
           /\ IsFiniteSet({n \in DOMAIN s : s[n] \in S})
           /\ Cardinality({n \in DOMAIN s : s[n] \in S}) = Len(Filtered(s, S))
<1> DEFINE f == Filtered(s, S)
           P == {n \in DOMAIN s : s[n] \in S}
<1>1. f \in Seq(X) /\ FilteredTo(f, s, S, Len(s)) /\ Len(f) \in Nat
  BY FilteredSelects
<1>2. P = Places(s, S, Len(s))
  BY DEF Places
<1> HIDE DEF f, P
<1>3. PICK at \in [1..Len(f) -> P] :
            /\ \A p, q \in 1..Len(f) : p < q => at[p] < at[q]
            /\ \A i \in P : \E p \in 1..Len(f) : at[p] = i
  BY <1>1, <1>2 DEF FilteredTo
<1>4. at \in Seq(P) /\ Len(at) = Len(f) /\ DOMAIN at = 1..Len(f)
  BY <1>1, <1>3
<1>5. \A p, q \in 1..Len(f) : at[p] = at[q] => p = q
  <2> TAKE p, q \in 1..Len(f)
  <2>1. p < q \/ q < p \/ p = q
    BY <1>1
  <2>2. at[p] \in Int /\ at[q] \in Int
    BY <1>3 DEF P
  <2> QED
    BY <1>3, <2>1, <2>2
<1>6. Lists(at, P)
  BY <1>3, <1>4, <1>5 DEF Lists
<1> QED
  BY <1>1, <1>4, <1>6, ListCounts DEF f, P

LEMMA FilteredLists ==
    ASSUME NEW T, NEW s, Lists(s, T), NEW S
    PROVE  Lists(Filtered(s, S), T \cap S)
<1> DEFINE f == Filtered(s, S)
<1>1. s \in Seq(T) /\ DOMAIN s = 1..Len(s)
  BY DEF Lists
<1>2. f \in Seq(T) /\ FilteredTo(f, s, S, Len(s)) /\ DOMAIN f = 1..Len(f) /\ Len(f) \in Nat
  BY <1>1, FilteredSelects
<1> HIDE DEF f
<1>3. PICK at \in [1..Len(f) -> Places(s, S, Len(s))] :
            /\ \A p \in 1..Len(f) : f[p] = s[at[p]]
            /\ \A p, q \in 1..Len(f) : p < q => at[p] < at[q]
            /\ \A i \in Places(s, S, Len(s)) : \E p \in 1..Len(f) : at[p] = i
  BY <1>2 DEF FilteredTo
<1>4. \A p \in 1..Len(f) : at[p] \in 1..Len(s) /\ at[p] \in Int /\ f[p] \in T \cap S
  BY <1>1, <1>3 DEF Places
<1>5. f \in Seq(T \cap S)
  BY <1>2, <1>4
<1>6. \A t \in T \cap S : \E p \in DOMAIN f : f[p] = t
  <2> TAKE t \in T \cap S
  <2>1. PICK i \in DOMAIN s : s[i] = t
    BY DEF Lists
  <2>2. i \in Places(s, S, Len(s))
    BY <1>1, <2>1 DEF Places
  <2> QED
    BY <1>2, <1>3, <2>1, <2>2
<1>7. \A p, q \in DOMAIN f : f[p] = f[q] => p = q
  <2> SUFFICES ASSUME NEW p \in 1..Len(f), NEW q \in 1..Len(f), f[p] = f[q]
               PROVE  p = q
    BY <1>2
  <2>1. at[p] = at[q]
    BY <1>1, <1>3, <1>4 DEF Lists
  <2>2. p < q \/ q < p \/ p = q
    BY <1>2
  <2> QED
    BY <1>3, <1>4, <2>1, <2>2
<1> QED
  BY <1>5, <1>6, <1>7 DEF Lists, f

(* A property is as frequent on a list as in its set.                      *)
LEMMA CountedOnList ==
    ASSUME NEW T, NEW s, Lists(s, T), NEW S
    PROVE  Cardinality({n \in DOMAIN s : s[n] \in S}) = Cardinality(T \cap S)
<1>1. s \in Seq(T)
  BY DEF Lists
<1>2. Cardinality({n \in DOMAIN s : s[n] \in S}) = Len(Filtered(s, S))
  BY <1>1, FilteredCounts
<1>3. Cardinality(T \cap S) = Len(Filtered(s, S))
  BY FilteredLists, ListCounts
<1> QED
  BY <1>2, <1>3

(* What a filter leaves and what it drops make up the whole.               *)
LEMMA KeptAndDropped ==
    ASSUME NEW X, NEW s \in Seq(X), NEW S
    PROVE  Len(Filtered(s, S)) + Cardinality({n \in DOMAIN s : s[n] \notin S}) = Len(s)
<1> DEFINE A == {n \in DOMAIN s : s[n] \in S}
           B == {n \in DOMAIN s : s[n] \notin S}
<1>1. IsFiniteSet(A) /\ Cardinality(A) = Len(Filtered(s, S))
  BY FilteredCounts
<1>2. B = {n \in DOMAIN s : s[n] \in X \ S}
  OBVIOUS
<1>3. IsFiniteSet(B)
  BY <1>2, FilteredCounts
<1>4. A \cup B = 1..Len(s) /\ A \cap B = {} /\ Len(s) \in Nat
  OBVIOUS
<1> HIDE DEF A, B
<1>5. Cardinality(A \cup B) = Cardinality(A) + Cardinality(B) - Cardinality(A \cap B)
  BY <1>1, <1>3, FS_Union
<1>6. Cardinality(1..Len(s)) = Len(s) /\ Cardinality({}) = 0
  <2>1. PICK n \in Nat : n = Len(s)
    BY <1>4
  <2>2. Cardinality(1..n) = IF 1 > n THEN 0 ELSE n - 1 + 1
    <3>1. 1 \in Int /\ n \in Int
      BY <2>1
    <3> QED
      BY <3>1, FS_Interval, Zenon
  <2> QED
    BY <2>1, <2>2, FS_EmptySet
<1>7. Cardinality(A) \in Nat /\ Cardinality(B) \in Nat
  BY <1>1, <1>3, FS_CardinalityType
<1>8. Cardinality(A) + Cardinality(B) = Len(s)
  <2>1. Cardinality(1..Len(s)) = Cardinality(A) + Cardinality(B) - Cardinality({})
    BY <1>4, <1>5
  <2> QED
    BY <1>6, <1>7, <2>1
<1> QED
  BY <1>1, <1>8 DEF B

-----------------------------------------------------------------------------
(* A stable sort.                                                          *)

(* The place n comes before m: a lower value, or the same and earlier.     *)
Precedes(at, n, m) == at[n] < at[m] \/ (at[n] = at[m] /\ n < m)

(* The places that do not come after n; how many there are is n's rank.    *)
UpTo(at, n) == {m \in DOMAIN at : at[m] < at[n] \/ (at[m] = at[n] /\ m <= n)}

LEMMA RankGrows ==
    ASSUME NEW N \in Nat, NEW at \in [1..N -> Int], NEW n \in 1..N, NEW m \in 1..N
    PROVE  /\ Cardinality(UpTo(at, n)) \in 1..N
           /\ Precedes(at, n, m) => Cardinality(UpTo(at, n)) < Cardinality(UpTo(at, m))
<1> DEFINE A == UpTo(at, n)
           B == UpTo(at, m)
<1>1. A \subseteq 1..N /\ B \subseteq 1..N /\ n \in A /\ m \in B
  BY DEF UpTo
<1>2. IsFiniteSet(1..N) /\ Cardinality(1..N) = N
  <2>1. 1 \in Int /\ N \in Int
    OBVIOUS
  <2>2. IsFiniteSet(1..N) /\ Cardinality(1..N) = IF 1 > N THEN 0 ELSE N - 1 + 1
    BY <2>1, FS_Interval, Zenon
  <2> QED
    BY <2>2
<1>3. ASSUME Precedes(at, n, m) PROVE A \subseteq B /\ m \notin A
  BY <1>3 DEF Precedes, UpTo
<1> HIDE DEF A, B
<1>4. IsFiniteSet(A) /\ IsFiniteSet(B) /\ Cardinality(A) <= N
  <2>1. A \in SUBSET (1..N) /\ B \in SUBSET (1..N)
    BY <1>1
  <2>2. Cardinality(A) <= Cardinality(1..N)
    BY <1>2, <2>1, FS_Subset, Zenon
  <2> QED
    BY <1>2, <2>1, <2>2, FS_Subset, Zenon
<1>5. Cardinality(A) \in Nat /\ Cardinality(B) \in Nat /\ Cardinality(A) # 0
  BY <1>1, <1>4, FS_CardinalityType, FS_EmptySet
<1>6. ASSUME Precedes(at, n, m) PROVE Cardinality(A) < Cardinality(B)
  <2>1. A \subseteq B /\ A # B
    BY <1>1, <1>3, <1>6
  <2>2. Cardinality(A) <= Cardinality(B) /\ Cardinality(B) # Cardinality(A)
    BY <1>4, <2>1, FS_Subset
  <2> QED
    BY <1>5, <2>2
<1>7. Cardinality(A) \in 1..N
  BY <1>4, <1>5
<1> QED
  BY <1>6, <1>7 DEF A, B

(* Every rank is that of one place, and ranks are in the order of places.  *)
LEMMA RanksArePlaces ==
    ASSUME NEW N \in Nat, NEW at \in [1..N -> Int]
    PROVE  /\ \A p \in 1..N : \E n \in 1..N : Cardinality(UpTo(at, n)) = p
           /\ \A n, m \in 1..N : Cardinality(UpTo(at, n)) < Cardinality(UpTo(at, m))
                                    => Precedes(at, n, m)
<1> DEFINE rank == [n \in 1..N |-> Cardinality(UpTo(at, n))]
<1>1. \A n \in 1..N : rank[n] = Cardinality(UpTo(at, n))
  OBVIOUS
<1>2. rank \in [1..N -> 1..N]
  BY RankGrows
<1> HIDE DEF rank
<1>3. \A n, m \in 1..N : Precedes(at, n, m) => rank[n] < rank[m]
  BY <1>1, RankGrows
<1>4. \A n, m \in 1..N : n # m => Precedes(at, n, m) \/ Precedes(at, m, n)
  BY DEF Precedes
<1>5. \A n \in 1..N : rank[n] \in Int
  BY <1>2
<1>6. \A n, m \in 1..N : rank[n] = rank[m] => n = m
  BY <1>3, <1>4, <1>5
<1>7. rank \in Injection(1..N, 1..N)
  BY <1>2, <1>6 DEF Injection, IsInjective
<1>8. IsFiniteSet(1..N)
  <2>1. 1 \in Int /\ N \in Int
    OBVIOUS
  <2> QED
    BY <2>1, FS_Interval, Zenon
<1>9. rank \in Surjection(1..N, 1..N)
  BY <1>7, <1>8, FS_Injection
<1>10. \A p \in 1..N : \E n \in 1..N : rank[n] = p
  BY <1>9 DEF Surjection
<1>11. \A n, m \in 1..N : rank[n] < rank[m] => Precedes(at, n, m)
  BY <1>3, <1>4, <1>5
<1> QED
  BY <1>1, <1>10, <1>11

(* Where redb places every id of a list.                                   *)
PlacesOn(ids, key) == [n \in 1..Len(ids) |-> PlaceOf("redb", key, ids[n])]

(* SortBy rearranges a list: by places, and where they tie as it was.      *)
LEMMA SortByIsStable ==
    ASSUME NEW T, NEW ids, Lists(ids, T), NEW key,
           \A id \in T : PlaceOf("redb", key, id) \in Int
    PROVE  /\ Lists(SortBy(ids, key), T)
           /\ Len(SortBy(ids, key)) = Len(ids)
           /\ \A p, q \in 1..Len(ids) : p < q =>
                \E n, m \in 1..Len(ids) :
                    /\ SortBy(ids, key)[p] = ids[n] /\ SortBy(ids, key)[q] = ids[m]
                    /\ Precedes(PlacesOn(ids, key), n, m)
<1>1. PICK N \in Nat : N = Len(ids) /\ DOMAIN ids = 1..N /\ ids \in [1..N -> T]
  BY DEF Lists
<1>2. PICK at \in [1..N -> Int] : at = PlacesOn(ids, key)
  BY <1>1 DEF PlacesOn
<1> DEFINE RankOf(n) == Cardinality(UpTo(at, n))
           from == [p \in 1..N |-> CHOOSE n \in 1..N : RankOf(n) = p]
<1>differ. \A n, m \in 1..N : RankOf(n) = RankOf(m) => n = m
  <2>1. \A n, m \in 1..N : n # m => Precedes(at, n, m) \/ Precedes(at, m, n)
    BY <1>2 DEF Precedes
  <2>2. \A n, m \in 1..N : Precedes(at, n, m) => RankOf(n) < RankOf(m)
    BY <1>1, <1>2, RankGrows
  <2>3. \A n \in 1..N : RankOf(n) \in Int
    BY <1>1, <1>2, RankGrows
  <2> QED
    BY <2>1, <2>2, <2>3
<1>3. \A p \in 1..N : from[p] \in 1..N /\ RankOf(from[p]) = p
  <2>1. \A p \in 1..N : \E n \in 1..N : RankOf(n) = p
    BY <1>1, <1>2, RanksArePlaces
  <2> QED
    BY <2>1
<1>4. SortBy(ids, key) = [p \in 1..N |-> ids[from[p]]]
  <2> DEFINE At(n) == PlaceOf("redb", key, ids[n])
             Pos(n) == Cardinality({m \in DOMAIN ids :
                                        At(m) < At(n) \/ (At(m) = At(n) /\ m <= n)})
  <2>1. \A n \in 1..N : at[n] = At(n)
    BY <1>1, <1>2 DEF PlacesOn
  <2>2. \A n \in 1..N : {m \in DOMAIN ids : At(m) < At(n) \/ (At(m) = At(n) /\ m <= n)}
                            = UpTo(at, n)
    <3> HIDE DEF At
    <3> QED
      BY <1>1, <1>2, <2>1 DEF UpTo
  <2>3. \A n \in 1..N : Pos(n) = RankOf(n)
    BY <2>2
  <2>4. SortBy(ids, key) = [p \in DOMAIN ids |-> ids[CHOOSE n \in DOMAIN ids : Pos(n) = p]]
    BY DEF SortBy
  <2> HIDE DEF Pos
  <2>5. \A p \in 1..N : (CHOOSE n \in DOMAIN ids : Pos(n) = p) \in 1..N
            /\ Pos(CHOOSE n \in DOMAIN ids : Pos(n) = p) = p
    BY <1>1, <1>3, <2>3
  <2>7. \A p \in 1..N : (CHOOSE n \in DOMAIN ids : Pos(n) = p) = from[p]
    <3> HIDE DEF from
    <3> QED
      BY <1>differ, <1>3, <2>3, <2>5
  <2> QED
    BY <1>1, <2>4, <2>7
<1> HIDE DEF RankOf, from
<1> DEFINE s == SortBy(ids, key)
<1>5. s \in Seq(T) /\ Len(s) = N /\ DOMAIN s = 1..N /\ \A p \in 1..N : s[p] = ids[from[p]]
  BY <1>1, <1>3, <1>4
<1> HIDE DEF s
<1>6. \A p, q \in 1..N : from[p] = from[q] => p = q
  BY <1>3
<1>7. \A p, q \in DOMAIN s : s[p] = s[q] => p = q
  <2>1. \A n, m \in 1..N : ids[n] = ids[m] => n = m
    BY <1>1 DEF Lists
  <2>2. ASSUME NEW p \in 1..N, NEW q \in 1..N, s[p] = s[q] PROVE p = q
    <3>1. ids[from[p]] = ids[from[q]] /\ from[p] \in 1..N /\ from[q] \in 1..N
      BY <1>3, <1>5, <2>2
    <3>2. from[p] = from[q]
      BY <2>1, <3>1
    <3> QED
      BY <1>6, <3>2
  <2>3. DOMAIN s = 1..N
    BY <1>5
  <2> QED
    BY <2>2, <2>3, Zenon
<1>8. \A n \in 1..N : \E p \in 1..N : from[p] = n
  <2> SUFFICES ASSUME NEW n \in 1..N PROVE from[RankOf(n)] = n /\ RankOf(n) \in 1..N
    OBVIOUS
  <2>1. RankOf(n) \in 1..N
    BY <1>1, <1>2, RankGrows DEF RankOf
  <2>2. RankOf(from[RankOf(n)]) = RankOf(n) /\ from[RankOf(n)] \in 1..N
    BY <1>3, <2>1
  <2> QED
    BY <1>differ, <2>1, <2>2
<1>9. \A t \in T : \E p \in DOMAIN s : s[p] = t
  <2> TAKE t \in T
  <2>1. PICK n \in 1..N : ids[n] = t
    BY <1>1 DEF Lists
  <2>2. PICK p \in 1..N : from[p] = n
    BY <1>8
  <2>3. s[p] = t /\ DOMAIN s = 1..N
    BY <1>5, <2>1, <2>2
  <2> QED
    BY <2>3, Zenon
<1>10. ASSUME NEW p \in 1..N, NEW q \in 1..N, p < q
       PROVE  Precedes(at, from[p], from[q])
  <2>1. RankOf(from[p]) < RankOf(from[q]) /\ from[p] \in 1..N /\ from[q] \in 1..N
    BY <1>3, <1>10
  <2> QED
    BY <1>1, <1>2, <2>1, RanksArePlaces DEF RankOf
<1>11. Lists(s, T)
  BY <1>5, <1>7, <1>9 DEF Lists
<1>12. \A p, q \in 1..N : p < q =>
            \E n, m \in 1..N : s[p] = ids[n] /\ s[q] = ids[m] /\ Precedes(at, n, m)
  BY <1>3, <1>5, <1>10
<1> QED
  BY <1>1, <1>2, <1>5, <1>11, <1>12 DEF s

-----------------------------------------------------------------------------
(* Sorting by several keys.                                                *)

(* id comes before other in redb's reading of the keys from the k-th on.   *)
BeforeFrom(order, k, id, other) ==
    \E n \in k..Len(order) :
        /\ PlaceOf("redb", order[n], id) < PlaceOf("redb", order[n], other)
        /\ \A m \in k..(n - 1) :
                PlaceOf("redb", order[m], id) = PlaceOf("redb", order[m], other)

(* No id stands behind one that it comes before.                           *)
InOrder(ids, order, k) ==
    \A p, q \in 1..Len(ids) : p < q => ~ BeforeFrom(order, k, ids[q], ids[p])

(* redb has a place for every id of T under every key of an order.         *)
Placed(T, order) ==
    \A id \in T, n \in 1..Len(order) : PlaceOf("redb", order[n], id) \in Int

LEMMA OneMoreKey ==
    ASSUME NEW T, NEW ids, Lists(ids, T), NEW order \in Seq(Keys), Placed(T, order),
           NEW k \in 1..Len(order), InOrder(ids, order, k + 1)
    PROVE  /\ Lists(SortBy(ids, order[k]), T)
           /\ InOrder(SortBy(ids, order[k]), order, k)
<1> DEFINE key == order[k]
           s == SortBy(ids, key)
<1>1. \A id \in T : PlaceOf("redb", key, id) \in Int
  BY DEF Placed
<1>2. /\ Lists(s, T) /\ Len(s) = Len(ids)
      /\ \A p, q \in 1..Len(ids) : p < q =>
            \E n, m \in 1..Len(ids) :
                s[p] = ids[n] /\ s[q] = ids[m] /\ Precedes(PlacesOn(ids, key), n, m)
  <2> HIDE DEF key
  <2> QED
    BY <1>1, SortByIsStable
<1> HIDE DEF s
<1>3. ASSUME NEW p \in 1..Len(s), NEW q \in 1..Len(s), p < q, BeforeFrom(order, k, s[q], s[p])
      PROVE  FALSE
  <2>1. PICK n \in 1..Len(ids), m \in 1..Len(ids) :
            s[p] = ids[n] /\ s[q] = ids[m] /\ Precedes(PlacesOn(ids, key), n, m)
    BY <1>2, <1>3
  <2>2. ids[n] \in T /\ ids[m] \in T /\ n \in Int /\ m \in Int
    BY DEF Lists
  <2>3. \/ PlaceOf("redb", key, ids[n]) < PlaceOf("redb", key, ids[m])
        \/ PlaceOf("redb", key, ids[n]) = PlaceOf("redb", key, ids[m]) /\ n < m
    BY <2>1 DEF Precedes, PlacesOn
  <2>4. PICK j \in k..Len(order) :
            /\ PlaceOf("redb", order[j], ids[m]) < PlaceOf("redb", order[j], ids[n])
            /\ \A i \in k..(j - 1) :
                    PlaceOf("redb", order[i], ids[m]) = PlaceOf("redb", order[i], ids[n])
    BY <1>3, <2>1 DEF BeforeFrom
  <2>5. PlaceOf("redb", key, ids[n]) \in Int /\ PlaceOf("redb", key, ids[m]) \in Int
    BY <1>1, <2>2
  <2> HIDE DEF key
  <2>6. CASE j = k
    BY <2>3, <2>4, <2>5, <2>6 DEF key
  <2>7. CASE j # k
    <3>1. k \in k..(j - 1) /\ j \in (k + 1)..Len(order)
          /\ \A i \in (k + 1)..(j - 1) : i \in k..(j - 1)
      BY <2>7
    <3>2. PlaceOf("redb", key, ids[m]) = PlaceOf("redb", key, ids[n])
      BY <2>4, <3>1 DEF key
    <3>3. n < m
      BY <2>3, <2>5, <3>2
    <3>4. BeforeFrom(order, k + 1, ids[m], ids[n])
      BY <2>4, <3>1 DEF BeforeFrom
    <3> QED
      BY <3>3, <3>4 DEF InOrder
  <2> QED
    BY <2>6, <2>7
<1>4. InOrder(s, order, k)
  BY <1>3 DEF InOrder
<1> QED
  BY <1>2, <1>4 DEF s

LEMMA SortedIsInOrder ==
    ASSUME NEW T, NEW ids, Lists(ids, T), NEW order \in Seq(Keys), Placed(T, order)
    PROVE  Lists(Sorted(ids, order), T) /\ InOrder(Sorted(ids, order), order, 1)
<1> DEFINE X == {s \in Seq(T) : Lists(s, T)}
           One(s, n) == SortBy(s, order[Len(order) - n + 1])
           body(f) == [n \in 0..Len(order) |->
                            IF n = 0 THEN ids ELSE SortBy(f[n - 1], order[Len(order) - n + 1])]
<1>1. PICK N \in Nat : N = Len(order)
  OBVIOUS
<1>2. \A s : s \in X <=> Lists(s, T)
  BY DEF Lists
<1> HIDE DEF X
<1>3. ASSUME NEW n \in 1..N
      PROVE  N - n + 1 \in 1..N /\ \A id \in T : PlaceOf("redb", order[N - n + 1], id) \in Int
  BY <1>1 DEF Placed
<1>4. PICK step : Steps(step, N, X) /\
            \A s \in X, n \in 1..N : step[<<s, n>>] = One(s, n)
  <2>1. ASSUME NEW s \in X, NEW n \in 1..N PROVE One(s, n) \in X
    BY <1>1, <1>2, <1>3, SortByIsStable
  <2> DEFINE step == [x \in X \X (1..N) |-> One(x[1], x[2])]
  <2> HIDE DEF One
  <2>2. Steps(step, N, X)
    BY <2>1 DEF Steps
  <2>3. \A s \in X, n \in 1..N : step[<<s, n>>] = One(s, n)
    OBVIOUS
  <2> HIDE DEF step
  <2> QED
    BY <2>2, <2>3
<1>5. PICK g : Iterates(g, N, X, ids, step)
  BY <1>1, <1>2, <1>4, IteratesExists
<1>6. g = body(g)
  <2>1. \A n \in 1..N : g[n] = One(g[n - 1], n)
    <3> TAKE n \in 1..N
    <3>1. n - 1 \in 0..N
      OBVIOUS
    <3> HIDE DEF One
    <3> QED
      BY <1>4, <1>5, <3>1 DEF Iterates
  <2>2. \A n \in 0..N : n = 0 \/ n \in 1..N
    OBVIOUS
  <2> QED
    BY <1>1, <1>5, <2>1, <2>2 DEF Iterates
<1>7. PICK by : by = body(by) /\ Sorted(ids, order) = by[Len(order)]
  <2> DEFINE f == CHOOSE h : h = body(h)
  <2>1. Sorted(ids, order) = f[Len(order)]
    BY Zenon DEF Sorted
  <2> HIDE DEF body
  <2>2. f = body(f)
    BY <1>6, Zenon
  <2> HIDE DEF f
  <2> QED
    BY <2>1, <2>2
<1>8. by[0] = ids /\ \A n \in 1..N : by[n] = One(by[n - 1], n)
  <2>1. \A n \in 0..N : by[n] = body(by)[n]
    BY <1>7
  <2>2. 0 \in 0..N /\ \A n \in 1..N : n \in 0..N /\ n # 0
    OBVIOUS
  <2> QED
    BY <1>1, <2>1, <2>2
<1> HIDE DEF One, body
<1> DEFINE S == {n \in 0..N : Lists(by[n], T) /\ InOrder(by[n], order, N - n + 1)}
<1>9. 0 \in S
  <2>1. \A i \in (N + 1)..Len(order) : FALSE
    BY <1>1
  <2>2. InOrder(ids, order, N + 1)
    BY <2>1 DEF InOrder, BeforeFrom
  <2>3. 0 \in 0..N /\ N - 0 + 1 = N + 1
    OBVIOUS
  <2> QED
    BY <1>8, <2>2, <2>3
<1>10. ASSUME NEW n \in 0..(N - 1), n \in S PROVE n + 1 \in S
  <2>1. PICK k \in 1..N : k = N - (n + 1) + 1
    BY <1>3
  <2>2. n + 1 \in 0..N /\ n + 1 \in 1..N /\ (n + 1) - 1 = n /\ N - n + 1 = k + 1
    BY <2>1
  <2>3. by[n + 1] = SortBy(by[n], order[k])
    BY <1>1, <1>8, <2>1, <2>2 DEF One
  <2>4. Lists(by[n], T) /\ InOrder(by[n], order, k + 1)
    BY <1>10, <2>2
  <2>5. Lists(by[n + 1], T) /\ InOrder(by[n + 1], order, k)
    BY <1>1, <2>3, <2>4, OneMoreKey
  <2> QED
    BY <2>1, <2>2, <2>5
<1> HIDE DEF S
<1>11. 0..N \subseteq S
  BY <1>9, <1>10, Induction
<1>12. N \in S /\ N - N + 1 = 1
  BY <1>11
<1> QED
  BY <1>1, <1>7, <1>12 DEF S

-----------------------------------------------------------------------------
(* What redb answers.                                                      *)

LEMMA PlaceIsInt ==
    ASSUME TypeOK, NEW id \in Ids, kv[id] # NoRow, NEW key \in Keys
    PROVE  PlaceOf("redb", key, id) \in Int
<1> DEFINE cell == Cell(id, key.col)
           up == IF key.dir \in {"Asc", "Desc"}
                   THEN IF cell # Missing THEN Rank[cell] ELSE Lowest
                   ELSE IF cell # Missing THEN NumRead["redb"][cell] ELSE 0
<1>1. cell \in Vals \cup {Missing}
  <2>1. kv[id].cells \in Shapes /\ key.col \in Cols
    BY DEF TypeOK, Keys
  <2> QED
    BY <2>1, OldShape DEF Cell
<1>2. key.dir \in Orders
  BY DEF Keys
<1> HIDE DEF cell
<1>3. up \in Int
  BY <1>1, ReadsAssumption DEF Lowest, Engines
<1>4. Place("redb", key.dir, cell) = IF key.dir \in {"Desc", "NumDesc"} THEN - up ELSE up
  BY <1>2 DEF Place, Orders
<1> HIDE DEF up
<1> QED
  BY <1>3, <1>4 DEF PlaceOf, cell

(* The ids of a table's rows, and of those a query selects.                *)
Present == {id \in Ids : kv[id] # NoRow}

LEMMA ScanLists == Lists(Scan, Present) /\ ToSet(Scan) = Present
<1> DEFINE all == [n \in Ids |-> n]
<1>1. all \in Seq(Ids) /\ DOMAIN all = Ids /\ \A n \in Ids : all[n] = n
  BY ReadsAssumption DEF Ids
<1> HIDE DEF all
<1>2. Lists(all, Ids)
  BY <1>1 DEF Lists
<1>3. Lists(Scan, Ids \cap Present)
  BY <1>2, FilteredLists DEF Scan, Present, all
<1>4. Ids \cap Present = Present
  BY DEF Present
<1>5. Lists(Scan, Present)
  BY <1>3, <1>4
<1>6. \A n \in DOMAIN Scan : Scan[n] \in Present
  BY <1>5 DEF Lists
<1> QED
  BY <1>5, <1>6 DEF Lists, ToSet

(* redb's answer is a list of the rows selected, in the order of the keys, *)
(* up to the limit.                                                        *)
LEMMA AnswerIsSorted ==
    ASSUME TypeOK, NEW q, q.order \in Seq(Keys)
    PROVE  /\ Placed(Selected(q), q.order)
           /\ \E s : /\ Lists(s, Selected(q)) /\ InOrder(s, q.order, 1)
                     /\ Answer(q) = Truncated(s, q.limit)
<1> DEFINE matching == {id \in ToSet(Scan) : Matches(id, q.filters)}
           found == Filtered(Scan, matching)
<1>1. Present \cap matching = Selected(q)
  BY ScanLists DEF Present, Selected
<1>2. Lists(found, Selected(q))
  BY <1>1, ScanLists, FilteredLists
<1>3. Placed(Selected(q), q.order)
  <2>1. \A n \in 1..Len(q.order) : q.order[n] \in Keys
    OBVIOUS
  <2> QED
    BY <2>1, PlaceIsInt DEF Placed, Selected
<1>4. Answer(q) = Truncated(Sorted(found, q.order), q.limit)
  BY DEF Answer
<1> HIDE DEF found
<1> QED
  BY <1>2, <1>3, <1>4, SortedIsInOrder

-----------------------------------------------------------------------------
(* The order.                                                              *)

LEMMA AnswerIsAllowed ==
    ASSUME TypeOK, NEW order \in OrderBys, NEW limit \in Limits, NEW filters, NEW engine,
           ReadAlike(engine, Query(filters, order, limit))
    PROVE  Allowed(engine, Query(filters, order, limit), Answer(Query(filters, order, limit)))
<1> DEFINE q == Query(filters, order, limit)
           ids == Answer(q)
           T == Selected(q)
<1>1. q.order = order /\ q.limit = limit /\ order \in Seq(Keys) /\ DOMAIN order = 1..Len(order)
  BY ReadsAssumption DEF Query, OrderBys
<1>2. PICK s : Lists(s, T) /\ InOrder(s, order, 1) /\ ids = Truncated(s, limit)
  BY <1>1, AnswerIsSorted
<1>3. \A id \in T, n \in 1..Len(order) :
            PlaceOf(engine, order[n], id) = PlaceOf("redb", order[n], id)
  BY <1>1 DEF ReadAlike
<1> HIDE DEF q, T, ids
<1>4. \A id, other \in T : Before(engine, order, id, other) => BeforeFrom(order, 1, id, other)
  <2> SUFFICES ASSUME NEW id \in T, NEW other \in T, Before(engine, order, id, other)
               PROVE  BeforeFrom(order, 1, id, other)
    OBVIOUS
  <2>1. PICK n \in 1..Len(order) :
            /\ PlaceOf(engine, order[n], id) < PlaceOf(engine, order[n], other)
            /\ \A m \in 1..(n - 1) :
                    PlaceOf(engine, order[m], id) = PlaceOf(engine, order[m], other)
    BY <1>1 DEF Before
  <2>2. Len(order) \in Nat /\ \A m \in 1..(n - 1) : m \in 1..Len(order)
    BY <1>1
  <2> QED
    BY <1>3, <2>1, <2>2 DEF BeforeFrom
<1>5. PICK N \in Nat : /\ N = Len(s) /\ N = Cardinality(T) /\ s \in [1..N -> T]
                       /\ \A t \in T : \E n \in 1..N : s[n] = t
                       /\ \A n, m \in 1..N : s[n] = s[m] => n = m
  <2>1. Len(s) \in Nat /\ Len(s) = Cardinality(T)
    BY <1>2, ListCounts
  <2> QED
    BY <1>2, <2>1 DEF Lists
<1>6. \A n, m \in 1..N : n < m => s[n] # s[m] /\ ~ Before(engine, order, s[m], s[n])
  <2> SUFFICES ASSUME NEW n \in 1..N, NEW m \in 1..N, n < m
               PROVE  s[n] # s[m] /\ ~ Before(engine, order, s[m], s[n])
    OBVIOUS
  <2>1. ~ BeforeFrom(order, 1, s[m], s[n])
    BY <1>2, <1>5 DEF InOrder
  <2>2. n # m /\ s[n] \in T /\ s[m] \in T
    BY <1>5
  <2> QED
    BY <1>4, <1>5, <2>1, <2>2
(* The first M of the rows in order.                                       *)
<1>7. PICK M \in 0..N : /\ Len(ids) = M /\ DOMAIN ids = 1..M
                        /\ \A n \in 1..M : ids[n] = s[n]
                        /\ M = IF limit # NoLimit /\ limit < N THEN limit ELSE N
  <2>1. CASE limit # NoLimit /\ limit < N
    <3>1. limit \in Nat /\ limit \in 0..N
      BY <2>1, ReadsAssumption
    <3>2. ids = SubSeq(s, 1, limit) /\ s \in Seq(T)
      BY <1>2, <1>5, <2>1 DEF Truncated, Lists
    <3>3. Len(ids) = limit /\ \A n \in 1..limit : ids[n] = s[n]
      BY <1>5, <3>1, <3>2
    <3>4. DOMAIN ids = 1..limit
      BY <1>5, <3>1, <3>2
    <3> QED
      BY <2>1, <3>1, <3>3, <3>4
  <2>2. CASE ~ (limit # NoLimit /\ limit < N)
    <3>1. ids = s /\ DOMAIN s = 1..N
      BY <1>2, <1>5, <2>2 DEF Truncated
    <3> QED
      BY <1>5, <2>2, <3>1
  <2> QED
    BY <2>1, <2>2
<1>8. M \in Nat /\ M <= N /\ \A n \in 1..M : n \in 1..N
  BY <1>5, <1>7
<1>9. ToSet(ids) \subseteq T
  BY <1>5, <1>7, <1>8 DEF ToSet
<1>10. \A n, m \in DOMAIN ids : n < m =>
            ids[n] # ids[m] /\ ~ Before(engine, order, ids[m], ids[n])
  BY <1>6, <1>7, <1>8
<1>11. \A id \in T \ ToSet(ids) : \A n \in DOMAIN ids : ~ Before(engine, order, id, ids[n])
  <2> SUFFICES ASSUME NEW id \in T \ ToSet(ids), NEW n \in 1..M
               PROVE  ~ Before(engine, order, id, ids[n])
    BY <1>7
  <2>1. PICK m \in 1..N : s[m] = id
    BY <1>5
  <2>2. m \notin 1..M
    BY <1>7, <2>1 DEF ToSet
  <2>3. n < m /\ n \in 1..N /\ ids[n] = s[n]
    BY <1>7, <1>8, <2>1, <2>2
  <2> QED
    BY <1>6, <2>1, <2>3
<1>12. IF limit # NoLimit /\ limit < Cardinality(T)
         THEN Len(ids) = limit ELSE Len(ids) = Cardinality(T)
  BY <1>5, <1>7
<1>13. Allowed(engine, q, ids)
  BY <1>1, <1>9, <1>10, <1>11, <1>12 DEF Allowed, T
<1> QED
  BY <1>13 DEF ids, q

(***************************************************************************)
(* redb's loop of stable sorts, last key first, and its cut give an answer *)
(* that SQL allows, for any number of rows, keys and limits, on every      *)
(* engine that places the cells of the query as redb does.                 *)
(***************************************************************************)
THEOREM ReadsOrderedAsInSql == Spec => []OrderedAsInSql
<1>1. TypeOK => OrderedAsInSql
  BY AnswerIsAllowed DEF OrderedAsInSql
<1> QED
  BY <1>1, ReadsTypes, PTL

-----------------------------------------------------------------------------
(* The counts.                                                             *)

(* count counts what the same filters select.                              *)
LEMMA CountIsSelected ==
    ASSUME NEW f \in Conditions, Empty \notin f.vals \/ f.kind = "Eq", NEW order, NEW limit
    PROVE  Count(Query({f}, order, limit)) = Cardinality(Selected(Query({f}, order, limit)))
<1> DEFINE q == Query({f}, order, limit)
           S == {id \in Present : CountMatches(id, {f})}
<1>1. q.filters = {f}
  BY DEF Query
<1>2. ASSUME NEW id PROVE CountMatches(id, {f}) <=> Matches(id, {f})
  BY ReadsAssumption DEF CountMatches, Matches, Conditions
<1>3. Present \cap S = Selected(q)
  BY <1>1, <1>2 DEF Present, Selected
<1>4. {n \in DOMAIN Scan : CountMatches(Scan[n], {f})} = {n \in DOMAIN Scan : Scan[n] \in S}
  BY ScanLists DEF ToSet
<1>5. Count(q) = Cardinality({n \in DOMAIN Scan : Scan[n] \in S})
  BY <1>1, <1>4 DEF Count
<1> HIDE DEF S
<1>6. Count(q) = Cardinality(Present \cap S)
  <2>1. Lists(Scan, Present)
    BY ScanLists
  <2>2. Cardinality({n \in DOMAIN Scan : Scan[n] \in S}) = Cardinality(Present \cap S)
    BY <2>1, CountedOnList
  <2> QED
    BY <1>5, <2>2
<1> QED
  BY <1>3, <1>6

(* all_decodable returns or skips every row selected.                      *)
LEMMA DecodableIsSelected ==
    ASSUME TypeOK, NEW filters
    PROVE  LET q == Query(filters, << >>, NoLimit)
               d == AllDecodable(q)
           IN  Len(d.rows) + d.skipped = Cardinality(Selected(q))
<1> DEFINE q == Query(filters, << >>, NoLimit)
           values == Values(q)
           good == ToSet(values) \ {Unreadable}
<1>1. q.order = << >> /\ q.limit = NoLimit /\ q.order \in Seq(Keys)
  BY DEF Query
<1> HIDE DEF q
<1>2. PICK s : Lists(s, Selected(q)) /\ Answer(q) = s
  BY <1>1, AnswerIsSorted DEF Truncated
<1>3. PICK N \in Nat : N = Cardinality(Selected(q)) /\ N = Len(s) /\ DOMAIN s = 1..N
  BY <1>2, ListCounts DEF Lists
<1>4. values \in Seq(ToSet(values)) /\ Len(values) = N /\ DOMAIN values = 1..N
  <2>1. values = [n \in 1..N |-> DecodeRow(kv[s[n]].blob)]
    BY <1>2, <1>3 DEF Values
  <2>2. DOMAIN values = 1..N
    BY <2>1
  <2>3. \A n \in 1..N : values[n] \in ToSet(values)
    BY <2>2 DEF ToSet
  <2>4. values = [n \in 1..N |-> values[n]]
    BY <2>1
  <2> HIDE DEF values
  <2>5. values \in [1..N -> ToSet(values)]
    BY <2>3, <2>4
  <2> QED
    BY <1>3, <2>2, <2>5
<1>5. {n \in DOMAIN values : values[n] \notin good}
            = {n \in DOMAIN values : values[n] = Unreadable}
  BY DEF ToSet
<1>6. /\ AllDecodable(q).rows = Filtered(values, good)
      /\ AllDecodable(q).skipped = Cardinality({n \in DOMAIN values : values[n] = Unreadable})
  BY DEF AllDecodable
<1> HIDE DEF values, good
<1>7. Len(Filtered(values, good)) + Cardinality({n \in DOMAIN values : values[n] \notin good}) = N
  BY <1>4, KeptAndDropped
<1> QED
  BY <1>3, <1>5, <1>6, <1>7 DEF q

(* A group has the rows that the condition on its value selects.           *)
LEMMA GroupIsSelected ==
    ASSUME NEW col \in Cols, NEW v \in DOMAIN GroupedBy(col)
    PROVE  LET f == [kind |-> "Eq", col |-> col, vals |-> {v}]
           IN  /\ f \in Conditions
               /\ GroupedBy(col)[v] = Cardinality(Selected(Query({f}, << >>, NoLimit)))
<1> DEFINE f == [kind |-> "Eq", col |-> col, vals |-> {v}]
           InGroup(w) == {id \in Ids : kv[id] # NoRow /\ Cell(id, col) = w}
<1>1. v \in Vals /\ GroupedBy(col)[v] = Cardinality(InGroup(v))
  BY DEF GroupedBy
<1>2. f \in Conditions
  BY <1>1 DEF Conditions
<1>3. \A id : Matches(id, {f}) <=> Cell(id, col) = v
  BY DEF Matches
<1>4. Selected(Query({f}, << >>, NoLimit)) = InGroup(v)
  <2>1. Query({f}, << >>, NoLimit).filters = {f}
    BY DEF Query
  <2> HIDE DEF f
  <2> QED
    BY <1>3, <2>1 DEF Selected
<1> QED
  BY <1>1, <1>2, <1>4

(***************************************************************************)
(* count, all_decodable with what it skips, and count_grouped_by agree, on *)
(* any number of rows in any codec: a row is counted whether its blob can  *)
(* be decoded or not, and once.                                            *)
(***************************************************************************)
THEOREM ReadsCountsAgree == Spec => []CountsAgree
<1>1. ASSUME TypeOK, NEW f \in Conditions, NEW limit \in Limits,
             Empty \notin f.vals \/ f.kind = "Eq"
      PROVE  LET d == AllDecodable(Query({f}, << >>, NoLimit))
             IN  Count(Query({f}, << >>, limit)) = Len(d.rows) + d.skipped
  <2>1. Selected(Query({f}, << >>, limit)) = Selected(Query({f}, << >>, NoLimit))
    BY DEF Selected, Query
  <2> QED
    BY <1>1, <2>1, CountIsSelected, DecodableIsSelected
<1>2. ASSUME NEW col \in Cols, NEW v \in DOMAIN GroupedBy(col)
      PROVE  GroupedBy(col)[v] =
                Count(Query({[kind |-> "Eq", col |-> col, vals |-> {v}]}, << >>, NoLimit))
  <2> DEFINE f == [kind |-> "Eq", col |-> col, vals |-> {v}]
  <2>1. f \in Conditions /\ GroupedBy(col)[v] = Cardinality(Selected(Query({f}, << >>, NoLimit)))
    BY GroupIsSelected
  <2>2. f.kind = "Eq"
    OBVIOUS
  <2> HIDE DEF f
  <2>3. GroupedBy(col)[v] = Count(Query({f}, << >>, NoLimit))
    BY <2>1, <2>2, CountIsSelected
  <2> QED
    BY <2>3 DEF f
<1>3. TypeOK => CountsAgree
  BY <1>1, <1>2 DEF CountsAgree
<1> QED
  BY <1>3, ReadsTypes, PTL

=============================================================================
