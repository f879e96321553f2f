---------------------- MODULE PostgresRefinementProofs ----------------------
(***************************************************************************)
(* From a new database the Postgres backend is a UniqueTable, for any      *)
(* processes, tasks, tables, groups and batches: each of its steps is a    *)
(* step of UniqueTable or changes nothing there.                           *)
(***************************************************************************)
EXTENDS PostgresBackendProofs

-----------------------------------------------------------------------------
(* Claims.                                                                 *)

LEMMA RowsAreRows ==
    ASSUME NEW row \in Rows
    PROVE  row \in Stored /\ row # NoRow /\ row # Kept
BY SchemaAssumption, PostgresAssumption DEF Rows, Stored

(* Where every group has its index, the index notices every shared claim.  *)
LEMMA CollideIsClaim ==
    ASSUME uniq \subseteq Groups, NEW k \in Keys, GroupsOf(TableOf[k]) \subseteq uniq,
           NEW row \in Rows, NEW other \in Rows
    PROVE  Collide(k, row, other)
            <=> Claims(TableOf[k], row) \cap Claims(TableOf[k], other) # {}
<1>1. other \notin {NoRow, Kept}
  BY RowsAreRows
<1>2. ASSUME NEW g \in GroupsOf(TableOf[k])
      PROVE  Equal(g, row, other) <=> \A col \in g.cols : row[col] = other[col]
  BY <1>2, SchemaAssumption DEF GroupsOf, Rows, Equal
<1>3. Collide(k, row, other) <=> \E g \in GroupsOf(TableOf[k]) : Equal(g, row, other)
  BY <1>1 DEF Collide, GroupsOf
<1> QED
  BY <1>2, <1>3, SharedClaim

-----------------------------------------------------------------------------
(* Batches.                                                                *)

(* A batch that lands still does after rows have gone, and after others    *)
(* have come that claim nothing its entries do.                            *)
LEMMA LandsStill ==
    ASSUME NEW kv, NEW next, NEW b \in Batches, Lands(kv, b),
           \A k \in Keys : \/ next[k] \in {kv[k], NoRow}
                          \/ \A i \in 1..Len(b) : Claims(TableOf[k], next[k])
                                                    \cap Claimed(b[i]) = {}
    PROVE  Lands(next, b)
<1> SUFFICES ASSUME NEW n \in 1..Len(b), Clashes(After(next, b, n - 1), b[n].key, b[n].row)
             PROVE  FALSE
  BY DEF Lands, EntryLands
<1>1. PICK k \in Present(After(next, b, n - 1)) \ {b[n].key} :
        /\ TableOf[k] = TableOf[b[n].key]
        /\ Claims(TableOf[b[n].key], b[n].row)
              \cap Claims(TableOf[b[n].key], After(next, b, n - 1)[k]) # {}
  BY DEF Clashes
<1>2. k \in Keys /\ After(next, b, n - 1)[k] # NoRow
  BY <1>1 DEF Present
<1>3. After(next, b, n - 1)[k] # After(kv, b, n - 1)[k]
  <2>1. ~ Clashes(After(kv, b, n - 1), b[n].key, b[n].row)
    BY DEF Lands, EntryLands
  <2> QED
    BY <1>1, <1>2, <2>1 DEF Clashes, Present
<1>4. \A i \in 1..(n - 1) : b[i].key # k
  BY <1>2, <1>3, AfterHit
<1>5. After(next, b, n - 1)[k] = next[k] /\ After(kv, b, n - 1)[k] = kv[k]
  BY <1>2, <1>4, AfterMiss
<1> QED
  BY <1>1, <1>2, <1>3, <1>5 DEF Claimed

-----------------------------------------------------------------------------
(* Tasks that have written nothing, and tasks that are spared.             *)

LEMMA UnwrittenIsPending ==
    ASSUME TypeOK', NEW c \in Clients, mine'[c] = Nothing, written'[c] = << >>
    PROVE  Pending(c)'
<1>1. \A k \in Keys : mine'[c][k] = Kept
  BY DEF Nothing
<1>2. rows' = [k \in Keys |-> rows'[k]]
  BY DEF TypeOK, Contents
<1>3. Committed(c)' = rows'
  BY <1>1, <1>2 DEF Committed
<1>4. After(rows', << >>, 0) = rows'
  <2>1. \A k \in Keys : After(rows', << >>, 0)[k] = rows'[k]
    BY AfterMiss
  <2> QED
    BY <1>2, <2>1 DEF After
<1>5. Lands(rows', << >>)
  BY DEF Lands
<1> QED
  BY <1>1, <1>3, <1>4, <1>5 DEF Pending

LEMMA RestingIsReady ==
    ASSUME TypeOK', NEW c \in Clients, pc'[c] \notin {"run"} \cup Writing
    PROVE  Ready(c)' /\ Pending(c)' /\ written'[c] = << >>
<1>1. mine'[c] = Nothing /\ written'[c] = << >>
  BY DEF TypeOK
<1> QED
  BY <1>1, UnwrittenIsPending DEF Ready, Writing

(* What d would commit stays as it was, and its entries still land, as     *)
(* long as others do not touch its keys nor claim what it claims.          *)
LEMMA PendingStill ==
    ASSUME TypeOK, NEW d \in Clients, Pending(d), pc[d] # "rows",
           mine'[d] = mine[d], written'[d] = written[d],
           \A k \in Keys : mine[d][k] # Kept => rows'[k] = rows[k],
           \A k \in Keys : \/ rows'[k] \in {rows[k], NoRow}
                          \/ \A i \in DOMAIN written[d] : Claims(TableOf[k], rows'[k])
                                                         \cap Claimed(written[d][i]) = {}
    PROVE  Pending(d)'
<1> DEFINE b == written[d]
<1>1. b \in Batches /\ DOMAIN b = 1..Len(b)
  BY BatchParts DEF TypeOK
<1>2. /\ \A k \in Keys : mine[d][k] # Kept <=> \E i \in 1..Len(b) : b[i].key = k
      /\ Committed(d) = After(rows, b, Len(b))
      /\ Lands(rows, b)
  BY <1>1 DEF Pending
<1> HIDE DEF b
<1>3. ASSUME NEW k \in Keys PROVE Committed(d)'[k] = After(rows', b, Len(b))[k]
  <2>1. CASE mine[d][k] = Kept
    BY <1>2, <2>1, AfterMiss DEF Committed
  <2>2. CASE mine[d][k] # Kept
    <3> DEFINE n == Len(b)
               next == rows'
    <3>0. \E i \in 1..n : b[i].key = k
      BY <1>2, <2>2
    <3> HIDE DEF n, next
    <3>1. After(next, b, n)[k] = After(rows, b, n)[k]
      BY <3>0, AfterHit
    <3>2. After(rows, b, Len(b))[k] = mine[d][k]
      BY <1>2, <2>2 DEF Committed
    <3> QED
      BY <2>2, <3>1, <3>2 DEF Committed, n, next
  <2> QED
    BY <2>1, <2>2
<1>4. Committed(d)' = After(rows', b, Len(b))
  <2>1. Committed(d)' = [k \in Keys |-> Committed(d)'[k]]
    BY DEF Committed
  <2>2. After(rows', b, Len(b)) = [k \in Keys |-> After(rows', b, Len(b))[k]]
    BY DEF After
  <2> QED
    BY <1>3, <2>1, <2>2, Zenon
<1>5. Lands(rows', b)
  <2> DEFINE next == rows'
  <2>1. \A k \in Keys : \/ next[k] \in {rows[k], NoRow}
                        \/ \A i \in 1..Len(b) : Claims(TableOf[k], next[k])
                                                  \cap Claimed(b[i]) = {}
    BY <1>1 DEF b
  <2> HIDE DEF next
  <2>2. Lands(next, b)
    BY <1>1, <1>2, <2>1, LandsStill
  <2> QED
    BY <2>2 DEF next
<1> QED
  BY <1>1, <1>2, <1>4, <1>5 DEF Pending, b

LEMMA SparedIsReady ==
    ASSUME IInv, IInv', NEW d \in Clients, Ready(d), Pending(d), Spared(d),
           tables[ProcOf[d]] \subseteq tables'[ProcOf[d]],
           \A k \in Keys : mine[d][k] # Kept => rows'[k] = rows[k],
           \A k \in Keys : \/ rows'[k] \in {rows[k], NoRow}
                          \/ \A i \in DOMAIN written[d] : Claims(TableOf[k], rows'[k])
                                                         \cap Claimed(written[d][i]) = {}
    PROVE  Ready(d)' /\ Pending(d)'
<1>1. CASE pc'[d] # pc[d]
  <2>1. pc'[d] = "raced"
    BY <1>1 DEF Spared
  <2> QED
    BY <2>1, RestingIsReady DEF IInv, Writing
<1>2. CASE pc'[d] = pc[d]
  <2>1. Ready(d)'
    BY <1>2 DEF Spared, Ready
  <2>2. CASE pc[d] = "rows"
    BY <1>2, <2>1, <2>2 DEF Pending
  <2>3. CASE pc[d] # "rows"
    BY <2>1, <2>3, PendingStill DEF IInv, Spared
  <2> QED
    BY <2>2, <2>3
<1> QED
  BY <1>1, <1>2

(* Most steps write nothing.                                               *)
LEMMA QuietStep ==
    ASSUME IInv, RInv, IInv', NEW c \in Clients, rows' = rows,
           \A p \in Procs : tables[p] \subseteq tables'[p],
           \A d \in Clients \ {c} : Spared(d),
           Ready(c)', Pending(c)', written'[c] \in {written[c], << >>}
    PROVE  RInv'
<1>1. ASSUME NEW d \in Clients PROVE Ready(d)' /\ Pending(d)'
  <2>1. CASE d = c
    BY <2>1
  <2>2. CASE d # c
    <3>1. Ready(d) /\ Pending(d) /\ ProcOf[d] \in Procs
      BY PostgresAssumption DEF RInv
    <3> QED
      BY <2>2, <3>1, SparedIsReady
  <2> QED
    BY <2>1, <2>2
<1>2. \A d \in Clients : written'[d] \in {written[d], << >>}
  BY DEF Spared
<1>3. ASSUME NEW d \in Clients, NEW e \in Clients, d # e PROVE NoneClaims(d, e)'
  <2>1. NoneClaims(d, e)
    BY <1>3 DEF RInv
  <2>2. DOMAIN << >> = {}
    OBVIOUS
  <2> QED
    BY <1>2, <2>1, <2>2 DEF NoneClaims, Claimed
<1> QED
  BY <1>1, <1>3 DEF RInv

LEMMA RestingStep ==
    ASSUME IInv, RInv, IInv', NEW c \in Clients, rows' = rows,
           \A p \in Procs : tables[p] \subseteq tables'[p],
           \A d \in Clients \ {c} : Spared(d), pc'[c] \notin {"run"} \cup Writing
    PROVE  RInv'
BY RestingIsReady, QuietStep DEF IInv

(* Some write rows that they hold, and end.                                *)
LEMMA WriterStep ==
    ASSUME IInv, RInv, IInv', NEW c \in Clients, rows' \in [Keys -> Rows \cup {NoRow}],
           \A p \in Procs : tables[p] \subseteq tables'[p],
           \A d \in Clients \ {c} : Spared(d), pc'[c] \notin {"run"} \cup Writing,
           \A k \in Keys : rows'[k] # rows[k] =>
                /\ HoldsKey(c, k)
                /\ \/ rows'[k] = NoRow
                   \/ \A d \in Clients \ {c} : \A i \in DOMAIN written[d] :
                        Claims(TableOf[k], rows'[k]) \cap Claimed(written[d][i]) = {}
    PROVE  RInv'
<1>1. Ready(c)' /\ Pending(c)' /\ written'[c] = << >>
  BY RestingIsReady DEF IInv
<1>2. ASSUME NEW d \in Clients, d # c PROVE Ready(d)' /\ Pending(d)'
  <2>1. Ready(d) /\ Pending(d) /\ ProcOf[d] \in Procs /\ Spared(d)
    BY <1>2, PostgresAssumption DEF RInv
  <2>2. \A k \in Keys : mine[d][k] # Kept => rows'[k] = rows[k]
    BY <1>2 DEF IInv, LocksHold, Exclusive, HoldsKey
  <2> QED
    BY <1>2, <2>1, <2>2, SparedIsReady
<1>3. \A d \in Clients : written'[d] \in {written[d], << >>}
  BY <1>1 DEF Spared
<1>4. ASSUME NEW d \in Clients, NEW e \in Clients, d # e PROVE NoneClaims(d, e)'
  <2>1. NoneClaims(d, e)
    BY <1>4 DEF RInv
  <2>2. DOMAIN << >> = {}
    OBVIOUS
  <2> QED
    BY <1>3, <2>1, <2>2 DEF NoneClaims, Claimed
<1> QED
  BY <1>1, <1>2, <1>4 DEF RInv

(* What the parts of the steps leave alone.                                *)
LEMMA LeaveSpares ==
    ASSUME TypeOK, NEW c \in Clients, Leave(c)
    PROVE  pc'[c] = "idle" /\ \A d \in Clients \ {c} : Spared(d)
BY LeaveTypes DEF Leave, TypeOK

LEMMA GotoSpares ==
    ASSUME TypeOK, NEW c \in Clients, NEW at, Goto(c, at)
    PROVE  pc'[c] = at /\ \A d \in Clients \ {c} : Spared(d)
BY DEF Goto, TypeOK, Spared

LEMMA CreatesSpares ==
    ASSUME TypeOK, NEW c \in Clients, pc[c] \in Creating, NEW at, Creates(c, at)
    PROVE  pc'[c] = at /\ \A d \in Clients \ {c} : Spared(d)
<1>1. PICK late \in SUBSET Rivals(c) :
        pc' = [d \in Clients |-> IF d \in late THEN "raced" ELSE IF d = c THEN at ELSE pc[d]]
  BY DEF Creates
<1>2. c \notin late /\ \A d \in late : pc[d] = pc[c]
  BY DEF Rivals
<1>3. pc'[c] = at
  BY <1>1, <1>2
<1>4. \A d \in Clients \ {c} : /\ pc'[d] \in {pc[d], "raced"}
                              /\ pc'[d] # pc[d] => pc[d] \in Creating
  BY <1>1, <1>2
<1> QED
  BY <1>3, <1>4 DEF Creates, Spared

(* A step that writes no row and tells its caller of nothing else than a   *)
(* failure.                                                                *)
Quiets(c) ==
    /\ rows' = rows /\ outcome' \in {outcome, "failed", "spurious"}
    /\ \A p \in Procs : tables[p] \subseteq tables'[p]
    /\ \A d \in Clients \ {c} : Spared(d)

LEMMA LeaveQuiets ==
    ASSUME TypeOK, NEW c \in Clients, Leave(c), UNCHANGED <<rows, tables>>,
           outcome' \in {outcome, "failed", "spurious"}
    PROVE  Quiets(c) /\ pc'[c] = "idle"
BY LeaveSpares DEF Quiets

LEMMA EnsuringQuiets ==
    ASSUME IInv, NEW c \in Clients, Ensuring(c)
    PROVE  /\ Quiets(c)
           /\ \/ pc'[c] \notin {"run"} \cup Writing
              \/ Goto(c, "run") /\ want[c] \subseteq tables[ProcOf[c]] /\ pc[c] = "tables"
<1>1. TypeOK
  BY DEF IInv
<1>2. CASE NextTable(c)
  <2>1. CASE Goto(c, "run") /\ want[c] \subseteq tables[ProcOf[c]]
    BY <1>1, <1>2, <2>1, GotoSpares DEF NextTable, Quiets
  <2>2. CASE ~ (Goto(c, "run") /\ want[c] \subseteq tables[ProcOf[c]])
    BY <1>1, <1>2, <2>2 DEF NextTable, Quiets, Spared, TypeOK, Writing
  <2> QED
    BY <2>1, <2>2
<1>3. CASE Raced(c)
  BY <1>1, <1>3, LeaveQuiets DEF Raced, Ends, Violation, Writing
<1>4. CASE CreateTable(c)
  <2>1. pc[c] \in Creating /\ (Goto(c, "columns") \/ Creates(c, "columns"))
    BY <1>4 DEF CreateTable, Creating
  <2> QED
    BY <1>1, <1>4, <2>1, GotoSpares, CreatesSpares DEF CreateTable, Quiets, Writing
<1>5. CASE AddColumns(c)
  BY <1>1, <1>5, GotoSpares DEF AddColumns, Quiets, Writing
<1>6. CASE CreateIndexes(c)
  <2>1. CASE Ends(c, "failed")
    BY <1>1, <1>6, <2>1, LeaveQuiets DEF CreateIndexes, Ends, Writing
  <2>2. CASE (Goto(c, "uniques") \/ Creates(c, "uniques")) /\ UNCHANGED <<rows, outcome>>
    <3>1. pc[c] \in Creating
      BY <1>6 DEF CreateIndexes, Creating
    <3> QED
      BY <1>1, <1>6, <2>2, <3>1, GotoSpares, CreatesSpares DEF CreateIndexes, Quiets, Writing
  <2> QED
    BY <1>6, <2>1, <2>2 DEF CreateIndexes
<1>7. CASE CreateUnique(c)
  <2>1. CASE Ends(c, Violation(c))
    BY <1>1, <1>7, <2>1, LeaveQuiets DEF CreateUnique, Ends, Violation, Writing
  <2>2. CASE Creates(c, "uniques") /\ UNCHANGED <<rows, outcome>>
    <3>1. pc[c] \in Creating
      BY <1>7 DEF CreateUnique, Creating
    <3> QED
      BY <1>1, <1>7, <2>2, <3>1, CreatesSpares DEF CreateUnique, Quiets, Writing
  <2> QED
    BY <1>7, <2>1, <2>2 DEF CreateUnique
<1>8. CASE Ensured(c)
  <2>1. \A p \in Procs : tables[p] \subseteq tables'[p]
    BY <1>1, <1>8 DEF Ensured, TypeOK
  <2> QED
    BY <1>1, <1>8, <2>1 DEF Ensured, Quiets, Spared, TypeOK, Writing
<1> QED
  BY <1>2, <1>3, <1>4, <1>5, <1>6, <1>7, <1>8 DEF Ensuring

-----------------------------------------------------------------------------
(* The steps that write no row.                                            *)

LEMMA EnsuringKeeps ==
    ASSUME IInv, RInv, IInv', NEW c \in Clients, Ensuring(c)
    PROVE  RInv'
<1>1. CASE pc'[c] \notin {"run"} \cup Writing
  BY <1>1, EnsuringQuiets, RestingStep DEF Quiets
<1>2. CASE Goto(c, "run") /\ want[c] \subseteq tables[ProcOf[c]] /\ pc[c] = "tables"
  <2>1. /\ pc'[c] = "run" /\ want'[c] = want[c] /\ mine'[c] = Nothing /\ written'[c] = << >>
        /\ written[c] = << >>
    BY <1>2 DEF IInv, TypeOK, Goto, Writing
  <2>2. ProcOf[c] \in Procs /\ Quiets(c)
    BY EnsuringQuiets, PostgresAssumption
  <2>3. Ready(c)' /\ Pending(c)'
    BY <1>2, <2>1, <2>2, UnwrittenIsPending DEF IInv, Ready, Quiets
  <2> QED
    BY <2>1, <2>2, <2>3, QuietStep DEF Quiets
<1> QED
  BY <1>1, <1>2, EnsuringQuiets

(* A call begins or ends without a commit.                                 *)
LEMMA StartKeeps ==
    ASSUME IInv, RInv, IInv', NEW c \in Clients, Arrive(c)
    PROVE  RInv' /\ Quiets(c)
<1>1. PICK kind \in Calls, ts \in SUBSET Tables : Start(c, kind, ts)
  BY DEF Arrive
<1>2. Quiets(c) /\ pc'[c] = "tables"
  BY <1>1 DEF IInv, TypeOK, Start, Quiets, Spared
<1> QED
  BY <1>2, RestingStep DEF Quiets, Writing

LEMMA EndKeeps ==
    ASSUME IInv, RInv, IInv', NEW c \in Clients, Leave(c), UNCHANGED <<rows, tables>>
    PROVE  RInv'
<1>1. pc'[c] = "idle" /\ \A d \in Clients \ {c} : Spared(d)
  BY LeaveSpares DEF IInv
<1> QED
  BY <1>1, RestingStep DEF Writing

LEMMA FaultKeeps ==
    ASSUME IInv, RInv, IInv', NEW c \in Clients, Fault(c)
    PROVE  RInv' /\ Quiets(c)
<1>1. CASE pc[c] = "columns"
  <2>1. Goto(c, "indexes") /\ UNCHANGED <<rows, tables, outcome>>
    BY <1>1 DEF Fault
  <2>2. Quiets(c) /\ pc'[c] = "indexes"
    BY <2>1, GotoSpares DEF IInv, Quiets
  <2> QED
    BY <2>2, RestingStep DEF Quiets, Writing
<1>2. CASE pc[c] # "columns"
  BY <1>2, EndKeeps, LeaveQuiets DEF Fault, Ends, IInv
<1> QED
  BY <1>1, <1>2

LEMMA RestartKeeps ==
    ASSUME IInv, RInv, IInv', NEW p \in Procs, Restart(p)
    PROVE  RInv' /\ rows' = rows /\ outcome' = outcome
<1>1. rows' = rows /\ outcome' = outcome /\ \A q \in Procs : q # p => tables'[q] = tables[q]
  BY DEF Restart, IInv, TypeOK
<1>2. ASSUME NEW d \in Clients
      PROVE  Ready(d)' /\ Pending(d)' /\ written'[d] \in {written[d], << >>}
  <2>1. CASE ProcOf[d] = p
    <3>1. pc'[d] = "idle" /\ written'[d] = << >>
      BY <2>1 DEF Restart
    <3> QED
      BY <3>1, RestingIsReady DEF IInv, Writing
  <2>2. CASE ProcOf[d] # p
    <3>1. Spared(d) /\ ProcOf[d] \in Procs
      BY <2>2, PostgresAssumption DEF Restart, Spared
    <3>2. Ready(d) /\ Pending(d)
      BY DEF RInv
    <3> QED
      BY <1>1, <2>2, <3>1, <3>2, SparedIsReady DEF Spared
  <2> QED
    BY <2>1, <2>2
<1>3. ASSUME NEW d \in Clients, NEW e \in Clients, d # e PROVE NoneClaims(d, e)'
  <2>1. NoneClaims(d, e)
    BY <1>3 DEF RInv
  <2>2. DOMAIN << >> = {}
    OBVIOUS
  <2> QED
    BY <1>2, <2>1, <2>2 DEF NoneClaims, Claimed
<1> QED
  BY <1>1, <1>2, <1>3 DEF RInv

LEMMA StutterKeeps ==
    ASSUME RInv, UNCHANGED vars
    PROVE  RInv'
<1>1. /\ rows' = rows /\ mine' = mine /\ written' = written /\ pc' = pc /\ want' = want
      /\ entry' = entry /\ call' = call /\ tables' = tables
  BY DEF vars
<1>2. ASSUME NEW c \in Clients PROVE Ready(c)' /\ Pending(c)'
  <2>1. Ready(c) /\ Pending(c)
    BY DEF RInv
  <2>2. Committed(c)' = Committed(c)
    BY <1>1 DEF Committed
  <2> QED
    BY <1>1, <2>1, <2>2 DEF Ready, Pending
<1>3. \A c, d \in Clients : c # d => NoneClaims(c, d)'
  BY <1>1 DEF RInv, NoneClaims, Claimed
<1> QED
  BY <1>1, <1>2, <1>3 DEF RInv

(* A task that goes on with what it has written.                           *)
LEMMA GoesOn ==
    ASSUME IInv, RInv, IInv', NEW c \in Clients, Quiets(c),
           pc[c] \in {"run", "key", "entries"}, pc'[c] \in {"key", "unique", "entries"},
           mine'[c] = mine[c], written'[c] = written[c], want'[c] = want[c],
           pc'[c] \in {"key", "unique"} =>
                TableOf[entry'[c].key] \in want[c] /\ (call'[c] = "guarded" => Cols # {})
    PROVE  RInv'
<1>1. Ready(c) /\ Pending(c) /\ ProcOf[c] \in Procs
  BY PostgresAssumption DEF RInv
<1>2. Pending(c)'
  BY <1>1, PendingStill DEF IInv, Quiets
<1>3. Ready(c)'
  BY <1>1 DEF Ready, Quiets, Writing
<1> QED
  BY <1>2, <1>3, QuietStep DEF Quiets

LEMMA SubmitsKeeps ==
    ASSUME IInv, RInv, IInv', NEW c \in Clients, NEW k \in Keys, NEW row,
           pc[c] \in {"run", "entries"}, TableOf[k] \in want[c],
           call[c] = "guarded" => Cols # {},
           Submits(c, k, row), UNCHANGED <<rows, tables, outcome>>
    PROVE  RInv' /\ Quiets(c)
<1>1. TypeOK
  BY DEF IInv
<1>2. /\ pc'[c] = "key" /\ entry'[c].key = k /\ mine'[c] = mine[c]
      /\ written'[c] = written[c] /\ want'[c] = want[c] /\ call'[c] = call[c]
  BY <1>1 DEF Submits, TypeOK
<1>3. Quiets(c)
  BY <1>1 DEF Submits, TypeOK, Quiets, Spared
<1> QED
  BY <1>2, <1>3, GoesOn

LEMMA TakeKeyKeeps ==
    ASSUME IInv, RInv, IInv', NEW c \in Clients, TakeKey(c)
    PROVE  RInv'
<1>1. CASE Ends(c, Collision(c))
  BY <1>1, EndKeeps DEF TakeKey, Ends
<1>2. CASE Goto(c, "unique") /\ UNCHANGED <<rows, outcome>>
  <2>1. pc'[c] = "unique" /\ Quiets(c)
    BY <1>2, GotoSpares DEF IInv, TakeKey, Quiets
  <2>2. TableOf[entry[c].key] \in want[c] /\ (call[c] = "guarded" => Cols # {})
    BY DEF RInv, Ready, TakeKey
  <2> QED
    BY <1>2, <2>1, <2>2, GoesOn DEF Goto, TakeKey
<1> QED
  BY <1>1, <1>2 DEF TakeKey

LEMMA BatchBeginKeeps ==
    ASSUME IInv, RInv, IInv', NEW c \in Clients, BatchBegin(c)
    PROVE  RInv' /\ Quiets(c)
<1>1. pc'[c] = "entries" /\ Quiets(c)
  BY GotoSpares DEF IInv, BatchBegin, Quiets
<1> QED
  BY <1>1, GoesOn DEF Goto, BatchBegin

LEMMA DeletesKeep ==
    ASSUME IInv, RInv, IInv', NEW c \in Clients, pc[c] = "run", NEW ks, NEW filters,
           Deletes(c, ks, filters)
    PROVE  RInv' /\ Quiets(c)
<1>1. /\ TypeOK /\ mine[c] = Nothing /\ written[c] = << >>
      /\ want[c] \subseteq tables[ProcOf[c]]
  BY DEF IInv, TypeOK, Writing, RInv, Ready
<1>2. pc'[c] = "rows" /\ Quiets(c)
  BY <1>1 DEF Deletes, TypeOK, Quiets, Spared
<1>3. Ready(c)' /\ Pending(c)' /\ written'[c] = written[c]
  BY <1>1, <1>2 DEF Deletes, Ready, Pending, Nothing
<1> QED
  BY <1>2, <1>3, QuietStep DEF Quiets

LEMMA DeleteRowKeeps ==
    ASSUME IInv, RInv, IInv', NEW c \in Clients, NEW k \in Keys, DeleteRow(c, k)
    PROVE  RInv' /\ Quiets(c)
<1>1. TypeOK /\ Ready(c)
  BY DEF IInv, RInv
<1>2. pc'[c] = "rows" /\ Quiets(c)
  BY <1>1 DEF DeleteRow, TypeOK, Quiets, Spared
<1>3. \A j \in Keys : mine'[c][j] \in {mine[c][j], NoRow}
  BY <1>1 DEF DeleteRow, TypeOK
<1>4. Ready(c)' /\ Pending(c)' /\ written'[c] = written[c]
  BY <1>1, <1>2, <1>3 DEF DeleteRow, Ready, Pending, Writing
<1> QED
  BY <1>2, <1>4, QuietStep DEF Quiets

-----------------------------------------------------------------------------
(* The steps that write rows.                                              *)

(* A task in a statement: its row and its table's indexes, and what it     *)
(* would commit.                                                           *)
LEMMA WriterFacts ==
    ASSUME IInv, RInv, NEW c \in Clients, pc[c] \in {"key", "unique"}
    PROVE  /\ entry[c] \in Entries /\ entry[c].key \in Keys /\ entry[c].row \in Rows
           /\ TableOf[entry[c].key] \in want[c]
           /\ GroupsOf(TableOf[entry[c].key]) \subseteq uniq /\ uniq \subseteq Groups
           /\ \A k \in Keys : Committed(c)[k] \in Rows \cup {NoRow} /\ Seen(c, k) = Committed(c)[k]
<1>1. /\ entry[c] \in Entries /\ uniq \subseteq Groups
      /\ ProcOf[c] \in Procs /\ mine[c] \in [Keys -> Rows \cup {NoRow, Kept}]
  BY PostgresAssumption DEF IInv, TypeOK
<1>2. entry[c].key \in Keys /\ entry[c].row \in Rows
  BY <1>1 DEF Entries
<1>3. TableOf[entry[c].key] \in want[c] /\ want[c] \subseteq tables[ProcOf[c]]
  BY DEF RInv, Ready, Writing
<1>4. GroupsOf(TableOf[entry[c].key]) \subseteq uniq
  BY <1>1, <1>3 DEF IInv, CacheSound
<1>5. \A k \in Keys : Committed(c)[k] \in Rows \cup {NoRow} /\ Seen(c, k) = Committed(c)[k]
  BY <1>1 DEF RInv, Committed, Seen
<1> QED
  BY <1>1, <1>2, <1>3, <1>4, <1>5

(* A UNIQUE index refuses a row exactly when it clashes.                   *)
LEMMA RefusedIsClash ==
    ASSUME IInv, RInv, NEW c \in Clients, pc[c] = "unique"
    PROVE  Refused(c) <=> Clashes(Committed(c), entry[c].key, entry[c].row)
<1> DEFINE key == entry[c].key
           row == entry[c].row
           kv == Committed(c)
<1>1. /\ key \in Keys /\ row \in Rows /\ GroupsOf(TableOf[key]) \subseteq uniq
      /\ uniq \subseteq Groups
      /\ \A k \in Keys : kv[k] \in Rows \cup {NoRow} /\ Seen(c, k) = kv[k]
  BY WriterFacts
<1> HIDE DEF key, row, kv
<1>2. \A j : j \in SameTable(key) <=> j \in Keys /\ j # key /\ TableOf[j] = TableOf[key]
  BY DEF SameTable, KeysOf
<1>3. ASSUME NEW j \in SameTable(key)
      PROVE  Collide(key, row, kv[j])
                <=> /\ kv[j] # NoRow
                    /\ Claims(TableOf[key], row) \cap Claims(TableOf[key], kv[j]) # {}
  <2>1. j \in Keys
    BY <1>2
  <2>2. CASE kv[j] = NoRow
    BY <2>2 DEF Collide
  <2>3. CASE kv[j] # NoRow
    <3>1. kv[j] \in Rows
      BY <1>1, <2>1, <2>3
    <3> QED
      BY <1>1, <2>3, <3>1, CollideIsClaim
  <2> QED
    BY <2>2, <2>3
<1>4. Refused(c) <=> \E j \in SameTable(key) : Collide(key, row, kv[j])
  BY <1>1, <1>2 DEF Refused, key, row
<1>5. Clashes(kv, key, row)
        <=> \E j \in SameTable(key) :
                kv[j] # NoRow /\ Claims(TableOf[key], row) \cap Claims(TableOf[key], kv[j]) # {}
  BY <1>2 DEF Clashes, Present
<1> QED
  BY <1>3, <1>4, <1>5 DEF key, row, kv

(* Who has its values claims nothing that another has written.             *)
LEMMA FreshClaims ==
    ASSUME IInv, RInv, NEW c \in Clients, pc[c] = "unique", WaitsForValues(c) = {},
           NEW d \in Clients \ {c}, NEW i \in DOMAIN written[d]
    PROVE  Claimed(entry[c]) \cap Claimed(written[d][i]) = {}
<1> DEFINE key == entry[c].key
           row == entry[c].row
           k == written[d][i].key
           other == written[d][i].row
<1>1. /\ key \in Keys /\ row \in Rows /\ GroupsOf(TableOf[key]) \subseteq uniq
      /\ uniq \subseteq Groups
  BY WriterFacts
<1>2. k \in Keys /\ other \in Rows
  BY BatchParts DEF IInv, TypeOK
<1>3. mine[d][k] # Kept
  <2>1. pc[d] # "rows" /\ Pending(d)
    BY DEF IInv, Phase, RInv
  <2> QED
    BY <1>2, <2>1 DEF Pending
<1> SUFFICES ASSUME Claims(TableOf[key], row) \cap Claims(TableOf[k], other) # {}
             PROVE  FALSE
  BY DEF Claimed
<1>4. TableOf[k] = TableOf[key]
  BY ClaimsNameTheirTable
<1>5. k # key
  BY <1>1, <1>3 DEF IInv, LocksHold, Exclusive, HoldsKey
<1>6. Collide(k, row, other)
  BY <1>1, <1>2, <1>4, CollideIsClaim
<1>7. HoldsValue(d, k, row) /\ k \in SameTable(key)
  BY <1>2, <1>3, <1>4, <1>5, <1>6 DEF HoldsValue, HoldsKey, SameTable, KeysOf
<1> QED
  BY <1>7 DEF WaitsForValues

(* An entry of a batch.                                                    *)
LEMMA EntersBatchKeeps ==
    ASSUME IInv, RInv, IInv', NEW c \in Clients, pc[c] = "unique", WaitsForValues(c) = {},
           ~ Refused(c), mine' = WithEntry(c), pc' = [pc EXCEPT ![c] = "entries"],
           call[c] = "batch", written' = [written EXCEPT ![c] = Append(@, entry[c])],
           entry' = [entry EXCEPT ![c] = NoEntry],
           UNCHANGED <<rows, tables, call, want, tab, doomed, outcome>>
    PROVE  RInv' /\ Quiets(c)
<1> DEFINE b == written[c]
           e == entry[c]
           n == Len(b)
<1>1. /\ TypeOK /\ b \in Batches /\ n < MaxBatch /\ Ready(c) /\ Pending(c)
      /\ e \in Entries /\ e.key \in Keys /\ e.row \in Rows /\ TableOf[e.key] \in want[c]
  BY WriterFacts DEF IInv, TypeOK, Phase, RInv
<1>2. pc'[c] = "entries" /\ written'[c] = Append(b, e) /\ Quiets(c)
  BY <1>1 DEF TypeOK, WithEntry, Quiets, Spared
<1>3. \A k \in Keys : mine'[c][k] = IF k = e.key THEN e.row ELSE mine[c][k]
  BY <1>1 DEF TypeOK, WithEntry
<1>4. /\ Len(Append(b, e)) = n + 1 /\ n \in Nat
      /\ DOMAIN b = 1..n /\ DOMAIN Append(b, e) = 1..(n + 1)
      /\ \A i \in 1..n : Append(b, e)[i] = b[i]
      /\ Append(b, e)[n + 1] = e
  BY <1>1, EntryAppended
<1>5. \A i : i \in 1..(n + 1) <=> i \in 1..n \/ i = n + 1
  BY <1>4
<1>6. /\ \A k \in Keys : mine[c][k] # Kept <=> \E i \in 1..n : b[i].key = k
      /\ Committed(c) = After(rows, b, n)
      /\ Lands(rows, b)
  BY <1>1, <1>4 DEF Pending
<1>7. ~ Clashes(After(rows, b, n), e.key, e.row)
  BY <1>6, RefusedIsClash
<1>8. Ready(c)'
  <2>1. \A i \in DOMAIN written'[c] : TableOf[written'[c][i].key] \in want[c]
    BY <1>1, <1>2, <1>4, <1>5 DEF Ready
  <2> QED
    BY <1>1, <1>2, <2>1 DEF Ready, Writing
<1> HIDE DEF b, e, n
<1>9. Pending(c)'
  <2>1. ASSUME NEW k \in Keys
        PROVE  mine'[c][k] # Kept <=> \E i \in 1..(n + 1) : Append(b, e)[i].key = k
    <3>1. (\E i \in 1..(n + 1) : Append(b, e)[i].key = k)
            <=> (k = e.key \/ \E i \in 1..n : b[i].key = k)
      BY <1>4, <1>5
    <3> QED
      BY <1>1, <1>3, <1>6, <3>1, RowsAreRows
  <2>2. Committed(c)' = After(rows, Append(b, e), n + 1)
    <3>1. \A k \in Keys : After(rows, Append(b, e), n + 1)[k]
                            = IF k = e.key THEN e.row ELSE Committed(c)[k]
      BY <1>1, <1>6, AfterAppend DEF n
    <3>2. \A k \in Keys : Committed(c)'[k] = IF k = e.key THEN e.row ELSE Committed(c)[k]
      BY <1>1, <1>3, RowsAreRows DEF Committed
    <3>3. Committed(c)' = [k \in Keys |-> Committed(c)'[k]]
      BY DEF Committed
    <3>4. After(rows, Append(b, e), n + 1)
            = [k \in Keys |-> After(rows, Append(b, e), n + 1)[k]]
      BY AfterIsFunction, Zenon
    <3>5. \A k \in Keys : Committed(c)'[k] = After(rows, Append(b, e), n + 1)[k]
      BY <3>1, <3>2
    <3> QED
      BY <3>3, <3>4, <3>5, Zenon
  <2>3. Lands(rows, Append(b, e))
    BY <1>1, <1>6, <1>7, LandsAppend DEF n
  <2>4. Len(written'[c]) = n + 1 /\ DOMAIN written'[c] = 1..(n + 1) /\ rows' = rows
    BY <1>2, <1>4
  <2> QED
    BY <1>2, <2>1, <2>2, <2>3, <2>4 DEF Pending
<1>10. ASSUME NEW d \in Clients, d # c PROVE Ready(d)' /\ Pending(d)' /\ written'[d] = written[d]
  <2>1. Ready(d) /\ Pending(d) /\ ProcOf[d] \in Procs /\ Spared(d)
    BY <1>2, <1>10, PostgresAssumption DEF RInv, Quiets
  <2> QED
    BY <1>10, <2>1, SparedIsReady DEF Spared
<1>11. ASSUME NEW d \in Clients, d # c
       PROVE  NoneClaims(c, d)' /\ NoneClaims(d, c)'
  <2>1. NoneClaims(c, d) /\ NoneClaims(d, c)
    BY <1>11 DEF RInv
  <2>2. \A j \in DOMAIN written[d] : Claimed(e) \cap Claimed(written[d][j]) = {}
    BY <1>11, FreshClaims DEF e
  <2>3. ASSUME NEW i \in DOMAIN written'[c], NEW j \in DOMAIN written'[d]
        PROVE  Claimed(written'[c][i]) \cap Claimed(written'[d][j]) = {}
    <3>1. j \in DOMAIN written[d] /\ written'[d] = written[d]
      BY <1>10, <1>11
    <3>2. CASE i \in 1..n
      <4>1. written'[c][i] = written[c][i] /\ i \in DOMAIN written[c]
        BY <1>2, <1>4, <3>2 DEF b
      <4> QED
        BY <2>1, <3>1, <4>1 DEF NoneClaims
    <3>3. CASE i = n + 1
      BY <1>2, <1>4, <2>2, <3>1, <3>3
    <3> QED
      BY <1>2, <1>4, <1>5, <3>2, <3>3
  <2>4. \A p, q : Claimed(p) \cap Claimed(q) = Claimed(q) \cap Claimed(p)
    OBVIOUS
  <2> QED
    BY <2>3, <2>4 DEF NoneClaims, Claimed
<1>12. ASSUME NEW d \in Clients, NEW f \in Clients, d # f PROVE NoneClaims(d, f)'
  <2>1. CASE d = c \/ f = c
    BY <1>11, <1>12, <2>1
  <2>2. CASE d # c /\ f # c
    BY <1>10, <1>12, <2>2 DEF RInv, NoneClaims, Claimed
  <2> QED
    BY <2>1, <2>2
<1> QED
  BY <1>2, <1>8, <1>9, <1>10, <1>12 DEF RInv

(* A statement outside a batch.                                            *)
LEMMA EntersAloneKeeps ==
    ASSUME IInv, RInv, IInv', NEW c \in Clients, pc[c] = "unique", WaitsForValues(c) = {},
           rows' = [rows EXCEPT ![entry[c].key] = entry[c].row], Leave(c), UNCHANGED tables
    PROVE  RInv'
<1> DEFINE key == entry[c].key
           row == entry[c].row
<1>1. TypeOK /\ key \in Keys /\ row \in Rows /\ rows \in [Keys -> Rows \cup {NoRow}]
  BY WriterFacts DEF IInv, RInv
<1>2. pc'[c] = "idle" /\ \A d \in Clients \ {c} : Spared(d)
  BY <1>1, LeaveSpares
<1>3. /\ rows' \in [Keys -> Rows \cup {NoRow}]
      /\ \A k \in Keys : rows'[k] = IF k = key THEN row ELSE rows[k]
  BY <1>1
<1>4. HoldsKey(c, key)
  BY DEF HoldsKey
<1>5. \A d \in Clients \ {c} : \A i \in DOMAIN written[d] :
        Claims(TableOf[key], row) \cap Claimed(written[d][i]) = {}
  BY FreshClaims DEF Claimed
<1> HIDE DEF key, row
<1> QED
  BY <1>2, <1>3, <1>4, <1>5, WriterStep DEF Writing

LEMMA BatchCommitKeeps ==
    ASSUME IInv, RInv, IInv', NEW c \in Clients, BatchCommit(c)
    PROVE  RInv'
<1>1. TypeOK /\ rows' = Committed(c) /\ pc'[c] = "idle" /\ \A d \in Clients \ {c} : Spared(d)
  BY LeaveSpares DEF IInv, BatchCommit
<1>2. rows' \in [Keys -> Rows \cup {NoRow}]
  BY <1>1 DEF RInv, TypeOK, Committed
<1>3. ASSUME NEW k \in Keys, rows'[k] # rows[k]
      PROVE  /\ HoldsKey(c, k)
             /\ \/ rows'[k] = NoRow
                \/ \A d \in Clients \ {c} : \A i \in DOMAIN written[d] :
                    Claims(TableOf[k], rows'[k]) \cap Claimed(written[d][i]) = {}
  <2>1. mine[c][k] # Kept /\ rows'[k] = mine[c][k]
    BY <1>1, <1>3 DEF Committed
  <2>2. ASSUME mine[c][k] # NoRow, NEW d \in Clients \ {c}, NEW i \in DOMAIN written[d]
        PROVE  Claims(TableOf[k], mine[c][k]) \cap Claimed(written[d][i]) = {}
    <3>1. PICK j \in DOMAIN written[c] : written[c][j] = [key |-> k, row |-> mine[c][k]]
      BY <2>1, <2>2 DEF IInv, LocksHold, MineIsWritten
    <3>2. Claimed(written[c][j]) \cap Claimed(written[d][i]) = {}
      BY <2>2, <3>1 DEF RInv, NoneClaims
    <3> QED
      BY <3>1, <3>2 DEF Claimed
  <2> QED
    BY <2>1, <2>2 DEF HoldsKey
<1> QED
  BY <1>1, <1>2, <1>3, WriterStep DEF BatchCommit, Writing

(* What a delete takes.                                                    *)
LEMMA DeleteCommitTakes ==
    ASSUME IInv, RInv, NEW c \in Clients, DeleteCommit(c)
    PROVE  \A k \in Keys : rows'[k] = IF mine[c][k] = NoRow THEN NoRow ELSE rows[k]
<1>1. \A k \in Keys : mine[c][k] \in {Kept, NoRow}
  BY DEF RInv, Ready, DeleteCommit
<1> QED
  BY <1>1, PostgresAssumption DEF DeleteCommit, Committed

LEMMA DeleteCommitKeeps ==
    ASSUME IInv, RInv, IInv', NEW c \in Clients, DeleteCommit(c)
    PROVE  RInv'
<1>1. TypeOK /\ rows' = Committed(c)
  BY DEF IInv, DeleteCommit
<1>2. rows' \in [Keys -> Rows \cup {NoRow}]
  BY <1>1 DEF RInv, TypeOK, Committed
<1>3. pc'[c] \in {"tables", "idle"} /\ \A d \in Clients \ {c} : Spared(d)
  <2>1. CASE call[c] = "replace"
    BY <1>1, <2>1 DEF DeleteCommit, TypeOK, Spared
  <2>2. CASE call[c] # "replace"
    BY <1>1, <2>2, LeaveSpares DEF DeleteCommit
  <2> QED
    BY <2>1, <2>2
<1>4. \A k \in Keys : rows'[k] # rows[k] => HoldsKey(c, k) /\ rows'[k] = NoRow
  BY DeleteCommitTakes, PostgresAssumption DEF HoldsKey
<1> QED
  BY <1>2, <1>3, <1>4, WriterStep DEF DeleteCommit, Writing

LEMMA TakeValuesKeeps ==
    ASSUME IInv, RInv, IInv', NEW c \in Clients, TakeValues(c)
    PROVE  RInv'
<1>1. CASE Refused(c)
  BY <1>1, EndKeeps DEF TakeValues, Ends
<1>2. CASE ~ Refused(c) /\ call[c] = "batch"
  BY <1>2, EntersBatchKeeps DEF TakeValues, Enters
<1>3. CASE ~ Refused(c) /\ call[c] # "batch"
  BY <1>3, EntersAloneKeeps DEF TakeValues, Enters
<1> QED
  BY <1>1, <1>2, <1>3

LEMMA WriteGuardedKeeps ==
    ASSUME IInv, RInv, IInv', NEW c \in Clients, NEW k \in Keys, NEW row, NEW p,
           NEW col \in Cols, WriteGuarded(c, k, row, p, col)
    PROVE  RInv'
<1>1. CASE Ends(c, "rejected")
  BY <1>1, EndKeeps DEF WriteGuarded, Ends
<1>2. CASE Submits(c, k, row) /\ UNCHANGED <<rows, outcome>>
  BY <1>2, SubmitsKeeps DEF WriteGuarded
<1> QED
  BY <1>1, <1>2 DEF WriteGuarded

LEMMA RunningKeeps ==
    ASSUME IInv, RInv, IInv', NEW c \in Clients, Running(c)
    PROVE  RInv'
<1>1. CASE Read(c)
  BY <1>1, EndKeeps DEF Read
<1>2. CASE DeadlockAborted(c)
  BY <1>2, EndKeeps DEF DeadlockAborted, Ends
<1>3. ASSUME NEW k \in Keys, NEW row \in Rows, Write(c, k, row) \/ BatchEntry(c, k, row)
      PROVE  RInv'
  <2>1. CASE Write(c, k, row)
    BY <2>1, SubmitsKeeps DEF Write
  <2>2. CASE BatchEntry(c, k, row)
    <3>1. call[c] = "batch"
      BY <2>2 DEF IInv, Phase, BatchEntry
    <3> QED
      BY <2>2, <3>1, SubmitsKeeps DEF BatchEntry
  <2> QED
    BY <1>3, <2>1, <2>2
<1>4. ASSUME NEW k \in Keys, Delete(c, k)
      PROVE  RInv'
  BY <1>4, DeletesKeep DEF Delete
<1>5. ASSUME NEW t \in Tables, NEW f \in Filters, DeleteWhere(c, t, f)
      PROVE  RInv'
  BY <1>5, DeletesKeep DEF DeleteWhere
<1> QED
  BY <1>1, <1>2, <1>3, <1>4, <1>5, TakeKeyKeeps, TakeValuesKeeps, BatchBeginKeeps,
     BatchCommitKeeps, DeleteCommitKeeps, WriteGuardedKeeps, DeleteRowKeeps DEF Running

LEMMA NextKeeps ==
    ASSUME IInv, RInv, IInv', [Next]_vars
    PROVE  RInv'
<1>1. ASSUME NEW c \in Clients, Arrive(c) \/ Step(c) \/ Fault(c) \/ Dropped(c)
      PROVE  RInv'
  <2>1. CASE Dropped(c)
    BY <2>1, EndKeeps DEF Dropped
  <2> QED
    BY <1>1, <2>1, StartKeeps, EnsuringKeeps, RunningKeeps, FaultKeeps DEF Step
<1>2. ASSUME NEW p \in Procs, Restart(p)
      PROVE  RInv'
  BY <1>2, RestartKeeps
<1> QED
  BY <1>1, <1>2, StutterKeeps DEF Next

LEMMA InitKeeps ==
    ASSUME Init
    PROVE  RInv
<1>1. rows = [k \in Keys |-> NoRow]
  BY DEF Init
<1>2. ASSUME NEW c \in Clients
      PROVE  pc[c] = "idle" /\ mine[c] = Nothing /\ written[c] = << >>
  BY DEF Init, InitUpgraded, Opened
<1>3. ASSUME NEW c \in Clients PROVE Ready(c)
  BY <1>2 DEF Ready, Writing
<1>4. ASSUME NEW c \in Clients PROVE Pending(c)
  <2>1. \A k \in Keys : mine[c][k] = Kept
    BY <1>2 DEF Nothing
  <2>2. Committed(c) = rows
    BY <1>1, <2>1 DEF Committed
  <2>3. After(rows, << >>, 0) = rows
    <3>1. \A k \in Keys : After(rows, << >>, 0)[k] = rows[k]
      BY AfterMiss
    <3>2. After(rows, << >>, 0) = [k \in Keys |-> After(rows, << >>, 0)[k]]
      BY AfterIsFunction, Zenon
    <3> QED
      BY <1>1, <3>1, <3>2
  <2>4. Lands(rows, << >>)
    BY DEF Lands
  <2> QED
    BY <1>2, <2>1, <2>2, <2>3, <2>4 DEF Pending
<1>5. \A c, d \in Clients : NoneClaims(c, d)
  BY <1>2 DEF NoneClaims
<1> QED
  BY <1>1, <1>3, <1>4, <1>5 DEF RInv

(***************************************************************************)
(* From a new database, the entries a batch has written can still be       *)
(* committed as one, whatever others commit in the meantime.               *)
(***************************************************************************)
THEOREM PostgresBatchesPend == Spec => [](IInv /\ RInv)
<1>1. Init => IInv /\ RInv
  BY InitHolds, InitKeeps DEF Init
<1>2. IInv /\ RInv /\ [Next]_vars => (IInv /\ RInv)'
  BY NextStep, NextKeeps
<1> QED
  BY <1>1, <1>2, PTL DEF Spec

-----------------------------------------------------------------------------
(* Every step is a step of UniqueTable.                                    *)

(* The schema UniqueTable is given is this module's own.                   *)
LEMMA SharedSchema ==
    /\ Abs!Rows = Rows /\ Abs!EqFilters = EqFilters /\ Abs!Batches = Batches
    /\ \A kv, k, row : Abs!Clashes(kv, k, row) = Clashes(kv, k, row)
    /\ \A kv, b, n : Abs!After(kv, b, n) = After(kv, b, n)
    /\ \A kv, b : Abs!Lands(kv, b) = Lands(kv, b)
    /\ \A kv, t, p, col, n : Abs!Blocked(kv, t, p, col, n) = Blocked(kv, t, p, col, n)
<1>1. ASSUME NEW kv, NEW k, NEW row PROVE Abs!Clashes(kv, k, row) = Clashes(kv, k, row)
  <2>1. ASSUME NEW t, NEW r PROVE Abs!Claims(t, r) = Claims(t, r)
    BY DEF Abs!Claims, Abs!GroupsOf, Abs!UniqueKey, Abs!Cell, Claims, GroupsOf, UniqueKey, Cell
  <2> QED
    BY <2>1 DEF Abs!Clashes, Abs!Present, Clashes, Present
<1>2. ASSUME NEW kv, NEW b, NEW n PROVE Abs!After(kv, b, n) = After(kv, b, n)
  BY DEF Abs!After, After
<1>3. ASSUME NEW kv, NEW b PROVE Abs!Lands(kv, b) = Lands(kv, b)
  BY <1>1, <1>2 DEF Abs!Lands, Abs!EntryLands, Lands, EntryLands
<1>4. ASSUME NEW kv, NEW t, NEW p, NEW col, NEW n
      PROVE  Abs!Blocked(kv, t, p, col, n) = Blocked(kv, t, p, col, n)
  BY DEF Abs!Blocked, Abs!Matching, Abs!Matches, Abs!InRange, Abs!KeysOf,
         Blocked, Matching, Matches, InRange, KeysOf
<1>5. Abs!Rows = Rows /\ Abs!EqFilters = EqFilters
  BY DEF Abs!Rows, Abs!EqFilters, Rows, EqFilters
<1>6. Abs!Batches = Batches
  BY <1>5 DEF Abs!Batches, Abs!Entries, Batches, Entries
<1> QED
  BY <1>1, <1>2, <1>3, <1>4, <1>5, <1>6

Refines == Abs!Next \/ UNCHANGED Abs!vars

LEMMA QuietRefines ==
    ASSUME rows' = rows, outcome' \in {outcome, "failed", "spurious"}
    PROVE  Refines
<1>1. CASE outcome' = outcome
  <2>1. Promised' = Promised
    BY <1>1 DEF Promised
  <2> QED
    BY <2>1 DEF Refines, Abs!vars
<1>2. CASE outcome' \in {"failed", "spurious"}
  <2>1. Promised' = "failed"
    BY <1>2 DEF Promised
  <2> QED
    BY <2>1 DEF Refines, Abs!Next, Abs!Fail
<1> QED
  BY <1>1, <1>2

LEMMA RefusalIsPromised ==
    Promised' = IF outcome' = "landed" THEN "ok"
                ELSE IF outcome' = "spurious" THEN "failed" ELSE outcome'
BY DEF Promised

LEMMA NoFilterIsEq == NoFilter \in EqFilters
<1>1. NoFilter \in [{} -> {{v} : v \in Vals}] /\ {} \in SUBSET Cols
  BY DEF NoFilter
<1> QED
  BY <1>1 DEF EqFilters

(* A guarded insert over an existing row, or of a claim that is taken.     *)
LEMMA GuardedRefused ==
    ASSUME NEW k \in Keys, NEW row \in Rows, Cols # {}, rows' = rows, outcome' = "rejected",
           rows[k] # NoRow \/ Clashes(rows, k, row)
    PROVE  Refines
<1>1. PICK col \in Cols : TRUE
  OBVIOUS
<1>2. Promised' = "rejected"
  BY RefusalIsPromised
<1>3. Abs!CreateGuarded(k, row, NoFilter, col)
  BY <1>2, SharedSchema DEF Abs!CreateGuarded
<1> QED
  BY <1>3, NoFilterIsEq, SharedSchema DEF Refines, Abs!Next

LEMMA TakeKeyRefines ==
    ASSUME IInv, RInv, NEW c \in Clients, TakeKey(c)
    PROVE  Refines
<1> DEFINE key == entry[c].key
           row == entry[c].row
<1>1. key \in Keys /\ row \in Rows /\ (call[c] = "guarded" => Cols # {})
  BY WriterFacts DEF TakeKey, RInv, Ready
<1>2. CASE UNCHANGED <<rows, outcome>>
  BY <1>2, QuietRefines
<1>3. CASE rows[key] # NoRow /\ call[c] = "guarded" /\ Ends(c, Collision(c))
  BY <1>1, <1>3, GuardedRefused DEF Ends, Collision
<1>4. CASE rows[key] # NoRow /\ call[c] # "guarded" /\ Ends(c, Collision(c))
  <2>1. rows' = rows /\ Promised' = "conflict"
    BY <1>4, RefusalIsPromised DEF Ends, Collision
  <2>2. Abs!Create(key, row)
    BY <1>4, <2>1 DEF Abs!Create
  <2> QED
    BY <1>1, <2>2, SharedSchema DEF Refines, Abs!Next
<1> QED
  BY <1>2, <1>3, <1>4 DEF TakeKey

(* A task that has written nothing would commit what is there.             *)
LEMMA AloneSeesRows ==
    ASSUME IInv, NEW c \in Clients, pc[c] = "unique", call[c] # "batch"
    PROVE  Committed(c) = rows
<1>1. mine[c] = Nothing /\ rows \in Contents
  BY DEF IInv, Phase, TypeOK
<1> QED
  BY <1>1 DEF Committed, Nothing, Contents

LEMMA RefusedRefines ==
    ASSUME IInv, RInv, NEW c \in Clients, pc[c] = "unique", Refused(c), Ends(c, Collision(c))
    PROVE  Refines
<1> DEFINE key == entry[c].key
           row == entry[c].row
<1>1. /\ key \in Keys /\ row \in Rows /\ entry[c] \in Entries
      /\ (call[c] = "guarded" => Cols # {})
      /\ Clashes(Committed(c), key, row)
  BY WriterFacts, RefusedIsClash DEF RInv, Ready
<1>2. CASE call[c] = "guarded"
  BY <1>1, <1>2, AloneSeesRows, GuardedRefused DEF Ends, Collision
<1>3. CASE call[c] # "guarded"
  <2>1. rows' = rows /\ Promised' = "conflict"
    BY <1>3, RefusalIsPromised DEF Ends, Collision
  <2>2. CASE call[c] = "batch"
    <3> DEFINE b == written[c]
    <3>1. /\ b \in Batches /\ Len(b) < MaxBatch
          /\ Committed(c) = After(rows, b, Len(b)) /\ Lands(rows, b)
      BY <2>2 DEF IInv, TypeOK, Phase, RInv, Pending
    <3> HIDE DEF b
    <3>2. ~ Lands(rows, Append(b, entry[c]))
      BY <1>1, <3>1, LandsAppend
    <3>3. Append(b, entry[c]) \in Batches
      BY <1>1, <3>1, EntryAppended
    <3>4. Abs!PutAll(Append(b, entry[c]))
      BY <2>1, <3>2, SharedSchema DEF Abs!PutAll
    <3> QED
      BY <3>3, <3>4, SharedSchema DEF Refines, Abs!Next
  <2>3. CASE call[c] # "batch"
    <3>1. Abs!Put(key, row)
      BY <1>1, <2>1, <2>3, AloneSeesRows, SharedSchema DEF Abs!Put
    <3> QED
      BY <1>1, <3>1, SharedSchema DEF Refines, Abs!Next
  <2> QED
    BY <2>2, <2>3
<1> QED
  BY <1>2, <1>3

LEMMA TakeValuesRefines ==
    ASSUME IInv, RInv, NEW c \in Clients, TakeValues(c)
    PROVE  Refines
<1> DEFINE key == entry[c].key
           row == entry[c].row
<1>1. CASE Refused(c)
  BY <1>1, RefusedRefines DEF TakeValues
<1>2. CASE ~ Refused(c) /\ call[c] = "batch"
  BY <1>2, QuietRefines DEF TakeValues, Enters
<1>3. CASE ~ Refused(c) /\ call[c] # "batch"
  <2>1. /\ rows' = [rows EXCEPT ![key] = row] /\ outcome' \in {"landed", "ok"}
        /\ pc[c] = "unique"
    BY <1>3 DEF TakeValues, Enters
  <2>2. key \in Keys /\ row \in Rows /\ ~ Clashes(rows, key, row)
    BY <1>3, <2>1, WriterFacts, RefusedIsClash, AloneSeesRows
  <2>3. Promised' = "ok"
    BY <2>1, RefusalIsPromised
  <2>4. Abs!Put(key, row)
    BY <2>1, <2>2, <2>3, SharedSchema DEF Abs!Put
  <2> QED
    BY <2>2, <2>4, SharedSchema DEF Refines, Abs!Next
<1> QED
  BY <1>1, <1>2, <1>3

LEMMA BatchCommitRefines ==
    ASSUME IInv, RInv, NEW c \in Clients, BatchCommit(c)
    PROVE  Refines
<1>1. /\ written[c] \in Batches /\ rows' = After(rows, written[c], Len(written[c]))
      /\ Lands(rows, written[c])
  BY DEF IInv, TypeOK, RInv, Pending, BatchCommit
<1>2. Promised' = "ok"
  BY RefusalIsPromised DEF BatchCommit
<1>3. Abs!PutAll(written[c])
  BY <1>1, <1>2, SharedSchema DEF Abs!PutAll
<1> QED
  BY <1>1, <1>3, SharedSchema DEF Refines, Abs!Next

LEMMA DeleteCommitRefines ==
    ASSUME IInv, RInv, NEW c \in Clients, DeleteCommit(c)
    PROVE  Refines
<1> DEFINE gone == {k \in Keys : mine[c][k] = NoRow}
<1>1. rows' = [k \in Keys |-> rows'[k]]
  BY DEF DeleteCommit, Committed
<1>2. \A k \in Keys : rows'[k] = IF k \in gone THEN NoRow ELSE rows[k]
  BY DeleteCommitTakes
<1>3. rows' = [k \in Keys |-> IF k \in gone THEN NoRow ELSE rows[k]]
  BY <1>1, <1>2
<1>4. Promised' \in {Promised, "ok"}
  BY DEF DeleteCommit, Promised
<1>5. gone \in SUBSET Keys /\ Abs!Remove(gone)
  BY <1>3, <1>4 DEF Abs!Remove
<1> QED
  BY <1>5 DEF Refines, Abs!Next

LEMMA WriteGuardedRefines ==
    ASSUME HighIds = {}, IInv, RInv, NEW c \in Clients, NEW k \in Keys, NEW row \in Rows,
           NEW p \in EqFilters, NEW col \in Cols, WriteGuarded(c, k, row, p, col)
    PROVE  Refines
<1>1. CASE UNCHANGED <<rows, outcome>>
  BY <1>1, QuietRefines
<1>2. CASE ~ UNCHANGED <<rows, outcome>>
  <2>1. /\ rows' = rows /\ outcome' = "rejected"
        /\ \E j \in Selected(TableOf[k], p) : GuardNumber(rows[j][col]) >= NumOf[row[col]]
    BY <1>2 DEF WriteGuarded, Ends
  <2>2. PICK j \in KeysOf(TableOf[k]) :
            /\ rows[j] # NoRow /\ Matches(rows[j], p)
            /\ GuardNumber(rows[j][col]) >= NumOf[row[col]]
    BY <2>1 DEF Selected
  <2>3. rows[j][col] # Missing
    BY <2>2, SchemaAssumption DEF RInv, KeysOf, Rows
  <2>4. Blocked(rows, TableOf[k], p, col, NumOf[row[col]])
    BY <2>2, <2>3 DEF Blocked, Matching, InRange, GuardNumber
  <2>5. Promised' = "rejected"
    BY <2>1, RefusalIsPromised
  <2>6. Abs!CreateGuarded(k, row, p, col)
    BY <2>1, <2>4, <2>5, SharedSchema DEF Abs!CreateGuarded
  <2> QED
    BY <2>6, SharedSchema DEF Refines, Abs!Next
<1> QED
  BY <1>1, <1>2

LEMMA RunningRefines ==
    ASSUME HighIds = {}, IInv, RInv, NEW c \in Clients, Running(c)
    PROVE  Refines
<1>1. CASE Read(c) \/ BatchBegin(c)
  BY <1>1, QuietRefines DEF Read, BatchBegin
<1>2. CASE DeadlockAborted(c)
  BY <1>2, QuietRefines DEF DeadlockAborted, Ends
<1>3. ASSUME NEW k \in Keys, NEW row \in Rows, Write(c, k, row) \/ BatchEntry(c, k, row)
      PROVE  Refines
  BY <1>3, QuietRefines DEF Write, BatchEntry
<1>4. ASSUME NEW k \in Keys, Delete(c, k) \/ DeleteRow(c, k)
      PROVE  Refines
  BY <1>4, QuietRefines DEF Delete, Deletes, DeleteRow
<1>5. ASSUME NEW t \in Tables, NEW f \in Filters, DeleteWhere(c, t, f)
      PROVE  Refines
  BY <1>5, QuietRefines DEF DeleteWhere, Deletes
<1> QED
  BY <1>1, <1>2, <1>3, <1>4, <1>5, TakeKeyRefines, TakeValuesRefines, BatchCommitRefines,
     DeleteCommitRefines, WriteGuardedRefines DEF Running

LEMMA StepRefines ==
    ASSUME HighIds = {}, IInv, RInv, [Next]_vars
    PROVE  Refines
<1>1. ASSUME NEW c \in Clients, Arrive(c) \/ Step(c) \/ Fault(c) \/ Dropped(c)
      PROVE  Refines
  <2>1. CASE Arrive(c) \/ Dropped(c)
    BY <2>1, QuietRefines DEF Arrive, Start, Dropped
  <2>2. CASE Fault(c)
    BY <2>2, QuietRefines DEF Fault, Ends
  <2>3. CASE Ensuring(c)
    BY <2>3, EnsuringQuiets, QuietRefines DEF Quiets
  <2> QED
    BY <1>1, <2>1, <2>2, <2>3, RunningRefines DEF Step
<1>2. ASSUME NEW p \in Procs, Restart(p)
      PROVE  Refines
  BY <1>2, QuietRefines DEF Restart
<1>3. CASE UNCHANGED vars
  BY <1>3, QuietRefines DEF vars
<1> QED
  BY <1>1, <1>2, <1>3 DEF Next

(***************************************************************************)
(* From a new database every behaviour of the Postgres backend is one of   *)
(* UniqueTable: a batch lands whole or not at all, although its entries    *)
(* are checked one at a time against what others commit meanwhile; a write *)
(* is refused only for a claim a row holds.  Ids of the byte 0xff, which   *)
(* another backend's ranges leave out, play no part here.                  *)
(***************************************************************************)
THEOREM PostgresImplementsUniqueTable ==
    ASSUME HighIds = {}
    PROVE  Spec => ImplementsUniqueTable
<1>1. Init => Abs!Init
  <2>1. ASSUME Init PROVE Promised = "none"
    BY <2>1 DEF Init, InitUpgraded, Opened, Promised
  <2> QED
    BY <2>1 DEF Init, Abs!Init
<1>2. IInv /\ RInv /\ [Next]_vars => [Abs!Next]_Abs!vars
  BY StepRefines DEF Refines
<1> QED
  BY <1>1, <1>2, PostgresBatchesPend, PTL DEF Spec, ImplementsUniqueTable, Abs!Spec
=============================================================================
