--------------------------- MODULE VersionsProofs ---------------------------
(***************************************************************************)
(* Proofs about Versions, for every set of declarations, rows and values   *)
(* and every order of deployments.                                         *)
(***************************************************************************)
EXTENDS Versions, TLAPS

-----------------------------------------------------------------------------
(* Columns and cells.                                                      *)

LEMMA CandidateShape ==
    ASSUME NEW d \in Candidates
    PROVE  /\ d.fields \in Seq(Names) /\ d.unique \in Seq(SUBSET Names)
           /\ d.json \subseteq Names /\ d.index \subseteq Names
           /\ DOMAIN d.fields = 1..Len(d.fields) /\ Len(d.fields) \in Nat
           /\ DOMAIN d.unique = 1..Len(d.unique) /\ Len(d.unique) \in Nat
           /\ \A n \in DOMAIN d.fields : d.fields[n] \in Names
  BY VersionsAssumption DEF Declarations

(* A column is that of a field, and has a name of Names.                   *)
LEMMA ColumnShape ==
    ASSUME NEW d \in Candidates, NEW k \in Columns(d)
    PROVE  /\ k.place \in DOMAIN d.fields
           /\ k.name \in Names
           /\ k.name \in ColumnNames(d)
<1>1. PICK n \in DOMAIN d.fields : k = Column(d, n)
  BY DEF Columns
<1>2. d.fields[n] \in Names
  BY CandidateShape
<1>3. k.place = n /\ k.name \in {JsonName[d.fields[n]], d.fields[n]}
  BY <1>1 DEF Column
<1> QED
  BY <1>1, <1>2, <1>3, VersionsAssumption DEF ColumnNames

LEMMA CellShape ==
    ASSUME NEW d \in Candidates, NEW k \in Columns(d), NEW value \in Values(d)
    PROVE  CellOf(k, value) \in Cells
<1>1. value[k.place] \in Vals
  BY ColumnShape DEF Values
<1> QED
  BY <1>1 DEF CellOf, Cells

(* A field in a group that is no JSON field has a column of its name.      *)
LEMMA GroupHasColumns ==
    ASSUME NEW d \in Candidates, Accepted(d), NEW group \in Groups(d),
           group \cap d.json = {}
    PROVE  group \subseteq ColumnNames(d)
<1> SUFFICES ASSUME NEW field \in group
             PROVE  field \in ColumnNames(d)
  OBVIOUS
<1>1. field \in Fields(d) /\ field \notin d.json
  BY DEF Accepted
<1>2. PICK n \in DOMAIN d.fields : d.fields[n] = field
  BY <1>1 DEF Fields, ToSet
<1>3. HasColumn(d, d.fields[n])
  BY <1>2 DEF HasColumn, IsIndex
<1>4. Column(d, n) \in Columns(d)
  BY <1>3 DEF Columns
<1>5. Column(d, n).name = field
  BY <1>1, <1>2 DEF Column
<1> QED
  BY <1>4, <1>5 DEF ColumnNames

-----------------------------------------------------------------------------
(* What a save writes.                                                     *)

(* A name of columns names the first of them.                              *)
LEMMA NamedColumnExists ==
    ASSUME NEW col \in ColumnNames(code)
    PROVE  ColumnNamed(col) \in Columns(code) /\ ColumnNamed(col).name = col
<1>1. PICK k \in Columns(code) : k.name = col
  BY DEF ColumnNames
<1>2. \E i \in Columns(code) :
        i.name = col /\ \A j \in Columns(code) : j.name = col /\ i.json => j.json
  <2>1. CASE \E j \in Columns(code) : j.name = col /\ ~ j.json
    BY <2>1
  <2>2. CASE \A j \in Columns(code) : j.name = col => j.json
    BY <1>1, <2>2
  <2> QED
    BY <2>1, <2>2
<1> QED
  BY <1>2 DEF ColumnNamed

(* It is the only one where no two share the name.                         *)
LEMMA NamedColumn ==
    ASSUME Distinct(code), NEW k \in Columns(code)
    PROVE  ColumnNamed(k.name) = k
<1>1. k.name \in ColumnNames(code)
  BY DEF ColumnNames
<1> QED
  BY <1>1, NamedColumnExists DEF Distinct

LEMMA RowShape ==
    ASSUME TypeOK, NEW id \in Ids, rows[id] # NoRow
    PROVE  /\ rows[id].by \in Candidates
           /\ rows[id].cells \in [Names -> Cells]
           /\ rows[id].value \in Values(rows[id].by)
           /\ rows[id].stale \subseteq SUBSET Names
<1>1. PICK d \in Candidates : rows[id] \in RowsBy(d)
  BY DEF TypeOK
<1> QED
  BY <1>1 DEF RowsBy

LEMMA UpsertShape ==
    ASSUME TypeOK, NEW id \in Ids, NEW value \in Values(code)
    PROVE  Upserted(id, value) \in [Names -> Cells]
<1>1. ASSUME NEW col \in ColumnNames(code)
      PROVE  CellOf(ColumnNamed(col), value) \in Cells
  BY <1>1, NamedColumnExists, CellShape DEF TypeOK
<1>2. ASSUME rows[id] # NoRow, NEW col \in Names
      PROVE  rows[id].cells[col] \in Cells
  BY <1>2, RowShape
<1>3. Missing \in Cells
  BY DEF Cells
<1> QED
  BY <1>1, <1>2, <1>3 DEF Upserted

(* A save gives the columns of the running version their cells.            *)
LEMMA UpsertTells ==
    ASSUME TypeOK, Distinct(code), NEW id \in Ids, NEW value \in Values(code),
           NEW k \in Columns(code)
    PROVE  Upserted(id, value)[k.name] = CellOf(k, value)
<1>1. k.name \in Names /\ k.name \in ColumnNames(code) \ Fixed
  BY ColumnShape DEF TypeOK, Distinct
<1> QED
  BY <1>1, NamedColumn DEF Upserted

(* It writes columns of the table only.                                    *)
LEMMA UpsertInColumns ==
    ASSUME TypeOK, NEW id \in Ids, NEW value \in Values(code),
           ColumnNames(code) \subseteq columns,
           NEW col \in Names, Upserted(id, value)[col] # Missing
    PROVE  col \in columns \ Fixed
<1>1. CASE col \in ColumnNames(code) \ Fixed
  BY <1>1
<1>2. CASE col \notin ColumnNames(code) \ Fixed
  <2>1. rows[id] # NoRow /\ rows[id].cells[col] # Missing
    BY <1>2 DEF Upserted
  <2> QED
    BY <2>1 DEF TypeOK
<1> QED
  BY <1>1, <1>2

LEMMA DecodedShape ==
    ASSUME TypeOK, NEW id \in Ids, rows[id] # NoRow, DecodeRow(rows[id]) # Unreadable
    PROVE  DecodeRow(rows[id]) \in Values(code)
<1> DEFINE row == rows[id]
<1>1. /\ row.by \in Candidates /\ row.value \in [1..Len(row.by.fields) -> Vals]
      /\ Len(row.by.fields) \in Nat
  BY RowShape, CandidateShape DEF Values
<1>2. Len(row.value) = Len(row.by.fields)
  BY <1>1
<1>3. \A n \in DOMAIN code.fields : n \in Nat /\ n >= 1
  BY CandidateShape DEF TypeOK
<1>4. \A n \in DOMAIN code.fields : n <= Len(row.value) => row.value[n] \in Vals
  BY <1>1, <1>2, <1>3
<1> QED
  BY <1>4, VersionsAssumption DEF DecodeRow, Values

-----------------------------------------------------------------------------
(* The steps.                                                              *)

LEMMA InitHolds ==
    ASSUME Init
    PROVE  IInv
<1>1. <<engine, codec>> \in Stores
  <2>1. PICK store \in Stores : engine = store[1] /\ codec = store[2]
    BY DEF Init
  <2> QED
    BY <2>1, VersionsAssumption
<1>2. \A id \in Ids : rows[id] = NoRow
  BY DEF Init
<1>3. TypeOK
  BY <1>1, <1>2 DEF Init, TypeOK
<1> QED
  BY <1>2, <1>3 DEF Init, IInv, IndexesHold, GroupsHold, CellsAsSaved, ColumnsAreThere

LEMMA DeployKeeps ==
    ASSUME IInv, NEW d \in Candidates, Deploy(d)
    PROVE  IInv'
<1>1. TypeOK'
  BY DEF IInv, TypeOK, Deploy
<1>2. IndexesHold'
  BY DEF IInv, IndexesHold, Deploy, Collide, Compared
<1>3. GroupsHold' /\ ColumnsAreThere'
  BY DEF Deploy, GroupsHold, ColumnsAreThere
<1>4. CellsAsSaved'
  BY DEF IInv, CellsAsSaved, Deploy
<1> QED
  BY <1>1, <1>2, <1>3, <1>4 DEF IInv

(* Rows that differ in some columns differ in more.                        *)
LEMMA MoreColumns ==
    ASSUME NEW cols, NEW more, cols \subseteq more, Collide(more)
    PROVE  Collide(cols)
  BY DEF Collide, Agree

(* To make sure of the table changes rows in nothing but what indexes know *)
(* of them.                                                                *)
LEMMA EnsuredRows ==
    ASSUME TypeOK, Ensure, NEW id \in Ids
    PROVE  /\ rows'[id] = NoRow <=> rows[id] = NoRow
           /\ rows[id] # NoRow =>
                /\ rows'[id].cells = rows[id].cells
                /\ rows'[id].value = rows[id].value
                /\ rows'[id].by = rows[id].by
                /\ rows'[id].stale = rows[id].stale \cup OutOfDate(code)
                /\ \A d \in Candidates : rows[id] \in RowsBy(d) => rows'[id] \in RowsBy(d)
<1>1. rows'[id] = IF rows[id] = NoRow THEN NoRow
                  ELSE [rows[id] EXCEPT !.stale = @ \cup OutOfDate(code)]
  BY DEF Ensure
<1>2. ASSUME rows[id] # NoRow
      PROVE  \E d \in Candidates : rows[id] \in RowsBy(d)
  BY <1>2 DEF TypeOK
<1>3. \A d \in Candidates : NoRow \notin RowsBy(d)
  BY RowsAssumption
<1>4. OutOfDate(code) \subseteq SUBSET Names
  BY DEF OutOfDate, TypeOK
<1>5. ASSUME NEW d \in Candidates, rows[id] \in RowsBy(d), rows[id] # NoRow
      PROVE  /\ rows'[id] \in RowsBy(d)
             /\ rows'[id].cells = rows[id].cells
             /\ rows'[id].value = rows[id].value
             /\ rows'[id].by = rows[id].by
             /\ rows'[id].stale = rows[id].stale \cup OutOfDate(code)
  BY <1>1, <1>4, <1>5 DEF RowsBy
<1> QED
  BY <1>1, <1>2, <1>3, <1>5

(* An index that is built finds its columns on Postgres, and no rows that  *)
(* collide.                                                                *)
LEMMA EnsureKeeps ==
    ASSUME IInv, Ensure
    PROVE  IInv'
<1>1. code \in Candidates /\ code' = code /\ engine' = engine /\ codec' = codec /\ TypeOK
  BY DEF IInv, TypeOK, Ensure
<1>2. ASSUME NEW n \in Built(code)
      PROVE  CanBuild(code, code.unique[n]) /\ code.unique[n] \subseteq Names
  <2>1. n \in 1..Len(code.unique)
    BY <1>1, CandidateShape DEF Built
  <2>2. n \in 1..n
    BY <2>1
  <2>3. code.unique[n] \subseteq Names
    BY <1>1, <2>1, CandidateShape
  <2> QED
    BY <2>2, <2>3 DEF Built
<1>3. ColumnNames(code) \subseteq Names
  BY <1>1, ColumnShape DEF ColumnNames
<1>4. /\ columns' = Added(code) /\ columns \subseteq columns' /\ columns' \subseteq Names
      /\ ColumnNames(code) \subseteq columns' /\ uniques \subseteq uniques'
  BY <1>1, <1>3, VersionsAssumption DEF Ensure, Added, TypeOK
<1>5. TypeOK'
  <2>1. uniques' \subseteq SUBSET (IF engine = "postgres" THEN columns' ELSE Names)
    <3>1. uniques \subseteq SUBSET (IF engine = "postgres" THEN columns' ELSE Names)
      BY <1>1, <1>4 DEF TypeOK
    <3>2. \A n \in Built(code) :
            /\ code.unique[n] \subseteq Names
            /\ engine = "postgres" => code.unique[n] \subseteq columns'
      BY <1>2, <1>4 DEF CanBuild
    <3>3. uniques' = uniques \cup {code.unique[n] : n \in Built(code)}
      BY DEF Ensure
    <3> QED
      BY <3>1, <3>2, <3>3
  <2>2. rows' = [id \in Ids |-> rows'[id]]
    BY DEF Ensure
  <2>3. \A id \in Ids : rows'[id] = NoRow \/ \E d \in Candidates : rows'[id] \in RowsBy(d)
    BY <1>1, EnsuredRows DEF TypeOK
  <2>4. ASSUME NEW id \in Ids, rows'[id] # NoRow
        PROVE  /\ \A col \in Names : rows'[id].cells[col] # Missing => col \in columns' \ Fixed
               /\ rows'[id].stale \subseteq (IF engine = "postgres" THEN {} ELSE uniques')
    <3>1. /\ rows[id] # NoRow /\ rows'[id].cells = rows[id].cells
          /\ rows'[id].stale = rows[id].stale \cup OutOfDate(code)
      BY <1>1, <2>4, EnsuredRows
    <3>2. engine = "postgres" => OutOfDate(code) = {}
      BY <1>1 DEF OutOfDate, TypeOK
    <3>3. OutOfDate(code) \subseteq uniques
      BY DEF OutOfDate
    <3> QED
      BY <1>1, <1>4, <3>1, <3>2, <3>3 DEF TypeOK
  <2> QED
    BY <1>1, <1>4, <2>1, <2>2, <2>3, <2>4 DEF Ensure, TypeOK
<1>6. \A cols : Collide(cols)' => Collide(cols)
  BY <1>1, EnsuredRows DEF Collide
<1>7. IndexesHold'
  <2> SUFFICES ASSUME NEW group \in uniques'
               PROVE  ~ Collide(group \cap columns')
    BY <1>6 DEF IndexesHold, Compared
  <2>1. CASE group \in uniques
    <3>1. ~ Collide(group \cap columns)
      BY <2>1 DEF IInv, IndexesHold, Compared
    <3> QED
      BY <1>4, <3>1, MoreColumns
  <2>2. CASE group \notin uniques
    <3>1. PICK n \in Built(code) : group = code.unique[n]
      BY <2>2 DEF Ensure
    <3> QED
      BY <1>2, <1>4, <2>2, <3>1 DEF CanBuild
  <2> QED
    BY <2>1, <2>2
<1>8. GroupsHold'
  <2> SUFFICES ASSUME ready', NEW group \in Groups(code)
               PROVE  group \in uniques' /\ ~ Collide(Compared(group))'
    BY <1>1 DEF GroupsHold
  <2>1. PICK n \in DOMAIN code.unique : group = code.unique[n]
    BY DEF Groups, ToSet
  <2>2. n \in Built(code)
    BY <2>1 DEF Ensure
  <2>3. group \in uniques'
    BY <2>1, <2>2 DEF Ensure
  <2> QED
    BY <1>7, <2>3 DEF IndexesHold
<1>9. CellsAsSaved'
  BY <1>1, EnsuredRows DEF IInv, CellsAsSaved
<1>10. ColumnsAreThere'
  BY <1>1, <1>4 DEF ColumnsAreThere
<1> QED
  BY <1>5, <1>7, <1>8, <1>9, <1>10 DEF IInv

(* Every index refuses what would collide under it.                        *)
LEMMA SaveKeeps ==
    ASSUME IInv, NEW id \in Ids, NEW value \in Values(code), Save(id, value)
    PROVE  IInv'
<1> DEFINE cells == Upserted(id, value)
           saved == Saved(id, cells, value)
<1>1. /\ ready /\ code \in Candidates /\ TypeOK
      /\ UNCHANGED <<engine, codec, code, ready, columns, uniques>>
      /\ ColumnNames(code) \subseteq columns
  BY DEF Save, IInv, TypeOK, table, ColumnsAreThere
<1>2. CASE rows' = rows
  BY <1>1, <1>2 DEF IInv, TypeOK, IndexesHold, GroupsHold, CellsAsSaved, Collide,
                    Compared, ColumnsAreThere
<1>3. CASE ~ Refused(id, cells) /\ rows' = [rows EXCEPT ![id] = saved]
  <2>1. saved \in RowsBy(code)
    BY <1>1, UpsertShape, RowShape DEF RowsBy, Saved
  <2>2. rows'[id] = saved /\ \A other \in Ids \ {id} : rows'[other] = rows[other]
    BY <1>1, <1>3 DEF TypeOK
  <2>3. /\ saved.cells = cells /\ saved.value = value /\ saved.by = code
        /\ saved.stale = IF rows[id] = NoRow THEN {} ELSE rows[id].stale
    BY DEF Saved
  <2>4. TypeOK'
    <3>1. rows' = [i \in Ids |-> rows'[i]]
      BY <1>1, <1>3 DEF TypeOK
    <3>2. \A i \in Ids : rows'[i] = NoRow \/ \E d \in Candidates : rows'[i] \in RowsBy(d)
      BY <1>1, <2>1, <2>2 DEF TypeOK
    <3>3. /\ \A col \in Names : saved.cells[col] # Missing => col \in columns \ Fixed
          /\ saved.stale \subseteq (IF engine = "postgres" THEN {} ELSE uniques)
      <4>1. \A col \in Names : cells[col] # Missing => col \in columns \ Fixed
        BY <1>1, UpsertInColumns
      <4> QED
        BY <1>1, <2>3, <4>1 DEF TypeOK
    <3>4. \A i \in Ids : rows'[i] # NoRow =>
            /\ \A col \in Names : rows'[i].cells[col] # Missing => col \in columns \ Fixed
            /\ rows'[i].stale \subseteq (IF engine = "postgres" THEN {} ELSE uniques)
      BY <1>1, <2>2, <3>3 DEF TypeOK
    <3> QED
      BY <1>1, <3>1, <3>2, <3>4 DEF TypeOK
  <2>5. ASSUME NEW group \in uniques
        PROVE  ~ Collide(Compared(group))'
    <3> SUFFICES ASSUME NEW i \in Ids, NEW j \in Ids, i # j,
                        rows'[i] # NoRow, rows'[j] # NoRow,
                        Agree(rows'[i].cells, rows'[j].cells, Compared(group))
                 PROVE  FALSE
      BY <1>1 DEF Collide, Compared
    <3>1. CASE i # id /\ j # id
      BY <2>2, <2>5, <3>1 DEF IInv, IndexesHold, Collide
    <3>2. CASE i = id
      BY <1>3, <2>2, <2>3, <3>2 DEF Refused
    <3>3. CASE j = id
      <4>1. Agree(rows'[j].cells, rows'[i].cells, Compared(group))
        BY DEF Agree
      <4> QED
        BY <1>3, <2>2, <2>3, <3>3, <4>1 DEF Refused
    <3> QED
      BY <3>1, <3>2, <3>3
  <2>6. IndexesHold' /\ GroupsHold'
    BY <1>1, <2>5 DEF IndexesHold, IInv, GroupsHold
  <2>7. CellsAsSaved'
    <3>1. Distinct(code) => \A k \in Columns(code) : cells[k.name] = CellOf(k, value)
      BY <1>1, UpsertTells
    <3> QED
      BY <2>2, <2>3, <3>1 DEF IInv, CellsAsSaved
  <2>8. ColumnsAreThere'
    BY <1>1 DEF ColumnsAreThere
  <2> QED
    BY <2>4, <2>6, <2>7, <2>8 DEF IInv
<1> QED
  BY <1>2, <1>3 DEF Save

LEMMA DeleteKeeps ==
    ASSUME IInv, NEW id \in Ids, Delete(id)
    PROVE  IInv'
<1>1. \A i \in Ids : rows'[i] # NoRow => rows'[i] = rows[i]
  BY DEF Delete, IInv, TypeOK
<1>2. UNCHANGED <<engine, codec, code, ready, columns, uniques>>
  BY DEF Delete, table
<1>3. TypeOK'
  <2>1. rows' = [i \in Ids |-> rows'[i]]
    BY DEF Delete, IInv, TypeOK
  <2> QED
    BY <1>1, <1>2, <2>1 DEF IInv, TypeOK
<1>4. \A cols : Collide(cols)' => Collide(cols)
  BY <1>1 DEF Collide
<1>5. IndexesHold' /\ GroupsHold'
  BY <1>2, <1>4 DEF IInv, IndexesHold, GroupsHold, Compared
<1>6. CellsAsSaved' /\ ColumnsAreThere'
  BY <1>1, <1>2 DEF IInv, CellsAsSaved, ColumnsAreThere
<1> QED
  BY <1>3, <1>5, <1>6 DEF IInv

LEMMA StepHolds ==
    ASSUME IInv, [Next]_vars
    PROVE  IInv'
<1>1. ASSUME NEW id \in Ids, Update(id)
      PROVE  IInv'
  <2>1. DecodeRow(rows[id]) \in Values(code)
    BY <1>1, DecodedShape DEF Update, IInv
  <2> QED
    BY <1>1, <2>1, SaveKeeps DEF Update
<1>2. CASE UNCHANGED vars
  BY <1>2 DEF vars, IInv, TypeOK, IndexesHold, GroupsHold, CellsAsSaved, Collide,
              Compared, ColumnsAreThere
<1> QED
  BY <1>1, <1>2, DeployKeeps, EnsureKeeps, SaveKeeps, DeleteKeeps DEF Next

-----------------------------------------------------------------------------
(* The theorems.                                                           *)

(***************************************************************************)
(* The inductive invariant, through every order of versions.               *)
(***************************************************************************)
THEOREM VersionsInvariant == Spec => []IInv
  BY InitHolds, StepHolds, PTL DEF Spec

(***************************************************************************)
(* Types, for every instance: rows have cells in the table's columns only, *)
(* whatever versions opened it; on Postgres no index lacks a column.       *)
(***************************************************************************)
THEOREM VersionsTypes == Spec => []TypeOK
  BY VersionsInvariant, PTL DEF IInv

(***************************************************************************)
(* A process that is ready has its own groups enforced over all rows.      *)
(***************************************************************************)
THEOREM VersionsGroupsHold == Spec => []GroupsHold
  BY VersionsInvariant, PTL DEF IInv

(***************************************************************************)
(* A cell of a column that the running version shares with the one that    *)
(* saved the row tells the value that the row decodes to.                  *)
(***************************************************************************)
THEOREM VersionsCellsTell == Spec => []CellsTellTheValue
<1>1. ASSUME IInv
      PROVE  CellsTellTheValue
  <2> SUFFICES ASSUME NEW id \in Ids, rows[id] # NoRow, Distinct(rows[id].by),
                      DecodeRow(rows[id]) # Unreadable,
                      NEW k \in Columns(code) \cap Columns(rows[id].by)
               PROVE  rows[id].cells[k.name] = CellOf(k, DecodeRow(rows[id]))
    BY DEF CellsTellTheValue
  <2>1. rows[id].cells[k.name] = CellOf(k, rows[id].value)
    BY <1>1 DEF IInv, CellsAsSaved
  <2>2. /\ rows[id].by \in Candidates
        /\ rows[id].value \in [1..Len(rows[id].by.fields) -> Vals]
        /\ Len(rows[id].by.fields) \in Nat
    BY <1>1, RowShape, CandidateShape DEF IInv, Values
  <2>3. k.place \in 1..Len(rows[id].by.fields) /\ k.place \in DOMAIN code.fields
    BY <1>1, <2>2, ColumnShape, CandidateShape DEF IInv, TypeOK
  <2>4. Len(rows[id].value) = Len(rows[id].by.fields)
    BY <2>2
  <2>5. DecodeRow(rows[id])[k.place] = rows[id].value[k.place]
    BY <2>3, <2>4 DEF DecodeRow
  <2> QED
    BY <2>1, <2>5 DEF CellOf
<1> QED
  BY <1>1, VersionsInvariant, PTL

(***************************************************************************)
(* Only rows that collide keep a well-declared version from being ready.   *)
(***************************************************************************)
THEOREM VersionsOnlyRowsPrevent == Spec => OnlyRowsPreventIt
<1> DEFINE Excused == Ensure => \/ ready'
                                \/ Misdeclared(code)
                                \/ \E group \in Groups(code) \ uniques :
                                        Collide(group \cap Added(code))
<1>1. ASSUME IInv
      PROVE  Excused
  <2> SUFFICES ASSUME Ensure, ~ ready', ~ Misdeclared(code)
               PROVE  \E group \in Groups(code) \ uniques : Collide(group \cap Added(code))
    OBVIOUS
  <2>1. code \in Candidates /\ Accepted(code)
    BY <1>1 DEF IInv, TypeOK
  <2>2. PICK n \in DOMAIN code.unique : n \notin Built(code)
    BY DEF Ensure, Built
  <2>3. PICK m \in 1..n : ~ CanBuild(code, code.unique[m])
    BY <2>2 DEF Built
  <2>4. m \in DOMAIN code.unique
    BY <2>1, <2>2, <2>3, CandidateShape
  <2>5. code.unique[m] \in Groups(code)
    BY <2>4 DEF Groups, ToSet
  <2>6. engine = "postgres" => code.unique[m] \subseteq Added(code)
    BY <2>1, <2>5, GroupHasColumns DEF Misdeclared, Added
  <2> QED
    BY <2>3, <2>5, <2>6 DEF CanBuild
<1> QED
  BY <1>1, VersionsInvariant, PTL DEF OnlyRowsPreventIt
=============================================================================
