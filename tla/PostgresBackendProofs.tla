----------------------- MODULE PostgresBackendProofs -----------------------
(***************************************************************************)
(* What holds of PostgresBackend for any processes, tasks, tables, groups  *)
(* and rows, from any database that an older version of the program left.  *)
(***************************************************************************)
EXTENDS PostgresBackend, SchemaProofs

(* TypeOK in two parts: what everybody shares, and the tasks.              *)
SharedTypes ==
    /\ made \subseteq Tables /\ full \subseteq made /\ plain \subseteq full
    /\ uniq \subseteq {g \in Groups : g.table \in full}
    /\ rows \in Contents
    /\ tables \in [Procs -> SUBSET Tables]
    /\ outcome \in Outcomes \cup {"spurious"}

TaskTypes ==
    /\ pc \in [Clients -> {"idle", "tables", "raced", "run"} \cup Creating \cup Writing]
    /\ call \in [Clients -> AllCalls \cup {"none"}]
    /\ want \in [Clients -> SUBSET Tables]
    /\ tab \in [Clients -> Tables \cup {NoTable}]
    /\ entry \in [Clients -> Entries \cup {NoEntry}]
    /\ mine \in [Clients -> [Keys -> Rows \cup {NoRow, Kept}]]
    /\ doomed \in [Clients -> SUBSET Keys]
    /\ filter \in [Clients -> Filters]
    /\ written \in [Clients -> Batches]

TaskFacts(c) ==
    /\ pc[c] = "idle" <=> call[c] = "none"
    /\ entry[c] # NoEntry <=> pc[c] \in {"key", "unique"}
    /\ pc[c] \notin Writing => mine[c] = Nothing /\ written[c] = << >>
    /\ pc[c] # "rows" => doomed[c] = {}
    /\ pc[c] \in Creating => tab[c] \in Tables

LEMMA TypesInParts ==
    TypeOK <=> SharedTypes /\ TaskTypes /\ \A c \in Clients : TaskFacts(c)
BY DEF TypeOK, SharedTypes, TaskTypes, TaskFacts

(* The schema only grows.                                                  *)
Grows == made \subseteq made' /\ full \subseteq full' /\ plain \subseteq plain'
         /\ uniq \subseteq uniq'

(* A task that is not concerned, or only thrown out of its DDL.            *)
Spared(d) ==
    /\ pc'[d] \in {pc[d], "raced"}
    /\ pc'[d] # pc[d] => pc[d] \in Creating
    /\ call'[d] = call[d] /\ want'[d] = want[d] /\ tab'[d] = tab[d]
    /\ entry'[d] = entry[d] /\ mine'[d] = mine[d] /\ doomed'[d] = doomed[d]
    /\ written'[d] = written[d]

-----------------------------------------------------------------------------
(* Constants.                                                              *)

LEMMA NoFilterIsOne == NoFilter \in Filters
BY DEF NoFilter, Filters

LEMMA NothingIsTyped == Nothing \in [Keys -> Rows \cup {NoRow, Kept}]
BY DEF Nothing

LEMMA KeysAreOfTables ==
    ASSUME NEW k \in Keys
    PROVE  TableOf[k] \in Tables /\ k \in KeysOf(TableOf[k])
BY SchemaAssumption DEF KeysOf

LEMMA CommittedIsTyped ==
    ASSUME TypeOK, NEW c \in Clients
    PROVE  Committed(c) \in Contents
BY DEF TypeOK, Contents, Committed, Rows, Stored

-----------------------------------------------------------------------------
(* Tasks that are spared.                                                  *)

LEMMA SparedFacts ==
    ASSUME TypeOK, NEW d \in Clients, Phase(d), Spared(d), Grows, TaskTypes'
    PROVE  TaskFacts(d)' /\ Phase(d)'
<1>1. TaskFacts(d)
  BY TypesInParts
<1>2. CASE pc'[d] = pc[d]
  BY <1>1, <1>2 DEF Spared, TaskFacts, Phase, Grows
<1>3. CASE pc'[d] = "raced" /\ pc[d] \in Creating
  BY <1>1, <1>3 DEF Spared, TaskFacts, Phase, Grows, Creating, Writing
<1> QED
  BY <1>2, <1>3 DEF Spared

-----------------------------------------------------------------------------
(* Locks.                                                                  *)

LEMMA EqualIsSymmetric ==
    ASSUME NEW g, NEW row, NEW other, Equal(g, row, other)
    PROVE  Equal(g, other, row)
BY DEF Equal

(* A step in which nobody takes a lock or writes anything, though some may *)
(* give up what they have.                                                 *)
Calm ==
    /\ rows' = rows /\ uniq' = uniq
    /\ \A d \in Clients : (mine'[d] = mine[d] /\ written'[d] = written[d])
                          \/ mine'[d] = Nothing
    /\ \A d \in Clients, k \in Keys : HoldsKey(d, k)' => HoldsKey(d, k)

LEMMA NothingIsPending ==
    ASSUME NEW c \in Clients, NEW k \in Keys, mine[c] = Nothing
    PROVE  mine[c][k] = Kept /\ Committed(c)[k] = rows[k]
BY DEF Nothing, Committed

LEMMA CalmKeepsLocks ==
    ASSUME TypeOK, LocksHold, TaskTypes', Calm
    PROVE  LocksHold'
<1>1. Exclusive'
  BY DEF LocksHold, Exclusive, Calm
<1>2. Apart(rows, rows)'
  BY DEF LocksHold, Apart, Calm, Differ, Equal, KeysOf
<1>3. ASSUME NEW c \in Clients PROVE Apart(Committed(c), Committed(c))'
  <2>1. CASE mine'[c] = mine[c]
    <3>1. Committed(c)' = Committed(c)
      BY <2>1 DEF Committed, Calm
    <3> QED
      BY <3>1 DEF LocksHold, Apart, Calm, Differ, Equal, KeysOf
  <2>2. CASE mine'[c] = Nothing
    <3>1. Committed(c)' = [k \in Keys |-> rows[k]]
      BY <2>2 DEF Committed, Calm, Nothing
    <3>2. Committed(c)' = rows
      BY <3>1 DEF TypeOK, Contents
    <3> QED
      BY <3>2, <1>2 DEF Calm
  <2> QED
    BY <2>1, <2>2 DEF Calm
<1>4. ASSUME NEW c \in Clients, NEW d \in Clients, c # d PROVE Apart(mine[c], mine[d])'
  <2>1. CASE mine'[c] = mine[c] /\ mine'[d] = mine[d]
    BY <1>4, <2>1 DEF LocksHold, Apart, Calm, Differ, Equal, KeysOf
  <2>2. CASE mine'[c] = Nothing \/ mine'[d] = Nothing
    BY <2>2 DEF Apart, Differ, Nothing, KeysOf
  <2> QED
    BY <2>1, <2>2 DEF Calm
<1>5. ASSUME NEW c \in Clients PROVE MineIsWritten(c)'
  BY DEF LocksHold, Calm, MineIsWritten, Nothing
<1> QED
  BY <1>1, <1>2, <1>3, <1>4, <1>5 DEF LocksHold

(* A task that ends gives up its locks and what it has written.            *)
LEMMA LeaveTypes ==
    ASSUME TypeOK, NEW c \in Clients, Leave(c)
    PROVE  /\ TaskTypes' /\ TaskFacts(c)' /\ Phase(c)'
           /\ \A d \in Clients \ {c} : Spared(d)
           /\ mine' = [mine EXCEPT ![c] = Nothing]
           /\ written' = [written EXCEPT ![c] = << >>]
           /\ \A d \in Clients, k \in Keys : HoldsKey(d, k)' => HoldsKey(d, k)
<1>1. TaskTypes'
  BY NoFilterIsOne, NothingIsTyped, EmptyBatch DEF Leave, TypeOK, TaskTypes
<1>2. /\ pc'[c] = "idle" /\ call'[c] = "none" /\ entry'[c] = NoEntry
      /\ mine'[c] = Nothing /\ doomed'[c] = {} /\ written'[c] = << >>
  BY DEF Leave, TypeOK
<1>3. TaskFacts(c)' /\ Phase(c)'
  BY <1>2 DEF TaskFacts, Phase, Creating
<1>4. ASSUME NEW d \in Clients \ {c} PROVE Spared(d)
  BY DEF Leave, TypeOK, Spared
<1>5. ASSUME NEW d \in Clients, NEW k \in Keys, HoldsKey(d, k)' PROVE HoldsKey(d, k)
  <2>1. CASE d = c
    BY <1>2, <1>5, <2>1 DEF HoldsKey, Nothing
  <2>2. CASE d # c
    BY <1>5, <2>2 DEF HoldsKey, Leave, TypeOK
  <2> QED
    BY <2>1, <2>2
<1> QED
  BY <1>1, <1>3, <1>4, <1>5 DEF Leave

(* Everything but the locks, for a step of c.                              *)
LEMMA StepTypes ==
    ASSUME IInv, NEW c \in Clients, SharedTypes', TaskTypes', Grows,
           TaskFacts(c)', Phase(c)', \A d \in Clients \ {c} : Spared(d),
           tables' = tables
    PROVE  TypeOK' /\ CacheSound' /\ \A d \in Clients : Phase(d)'
<1>1. ASSUME NEW d \in Clients \ {c} PROVE TaskFacts(d)' /\ Phase(d)'
  BY SparedFacts DEF IInv
<1>2. TypeOK'
  BY <1>1, TypesInParts DEF TypeOK, SharedTypes, TaskTypes, TaskFacts
<1>3. CacheSound'
  BY DEF IInv, CacheSound, Grows
<1> QED
  BY <1>1, <1>2, <1>3

(* The end of a call, whether or not it committed.                         *)
LEMMA EndStep ==
    ASSUME IInv, NEW c \in Clients, Leave(c), UNCHANGED <<ddl, rows, tables>>,
           outcome' \in Outcomes \cup {"spurious"}
    PROVE  IInv'
<1>1. TypeOK /\ SharedTypes' /\ Grows
  BY TypesInParts DEF IInv, SharedTypes, Grows, ddl
<1>2. TypeOK' /\ CacheSound' /\ \A d \in Clients : Phase(d)'
  BY <1>1, LeaveTypes, StepTypes
<1>3. Calm
  BY <1>1, LeaveTypes DEF Calm, TypeOK, ddl
<1>4. LocksHold'
  BY <1>1, <1>3, LeaveTypes, CalmKeepsLocks DEF IInv
<1> QED
  BY <1>2, <1>4 DEF IInv

-----------------------------------------------------------------------------
(* Steps that only move c, and may throw rivals out of their DDL.          *)

Advance(c, late, at) ==
    /\ pc' = [d \in Clients |-> IF d \in late THEN "raced" ELSE IF d = c THEN at ELSE pc[d]]
    /\ UNCHANGED <<call, want, tab, entry, mine, doomed, filter, written>>

LEMMA GotoAdvances ==
    ASSUME TypeOK, NEW c \in Clients, NEW at, Goto(c, at)
    PROVE  Advance(c, {}, at)
BY DEF TypeOK, Goto, Advance

LEMMA CreatesAdvances ==
    ASSUME NEW c \in Clients, NEW at, Creates(c, at)
    PROVE  \E late \in SUBSET Rivals(c) : Advance(c, late, at)
BY DEF Creates, Advance

Quietly == {"run", "columns", "indexes", "uniques", "entries"}

LEMMA AdvanceTypes ==
    ASSUME IInv, NEW c \in Clients, NEW late \in SUBSET Rivals(c), NEW at \in Quietly,
           late = {} \/ pc[c] \in Creating, Advance(c, late, at),
           pc[c] \in Creating \cup {"tables", "run"},
           at \in Creating => pc[c] \in Creating,
           at \in {"columns", "indexes"} => tab[c] \in made',
           at = "uniques" => tab[c] \in plain',
           at = "entries" => call[c] = "batch"
    PROVE  /\ TaskTypes' /\ TaskFacts(c)' /\ Phase(c)'
           /\ \A d \in Clients \ {c} : Spared(d)
           /\ mine' = mine /\ written' = written
           /\ \A d \in Clients, k \in Keys : HoldsKey(d, k)' => HoldsKey(d, k)
<1>1. TypeOK /\ TaskFacts(c)
  BY TypesInParts DEF IInv
<1>2. c \notin late /\ late \subseteq Clients /\ \A d \in late : pc[d] = pc[c]
  BY DEF Rivals
<1>3. pc'[c] = at /\ \A d \in Clients \ {c} : pc'[d] = IF d \in late THEN "raced" ELSE pc[d]
  BY <1>2 DEF Advance
<1>4. \A d \in Clients : pc'[d] = "unique" => pc[d] = "unique"
  BY <1>2, <1>3 DEF Quietly
<1>5. TaskTypes'
  BY <1>1, <1>2 DEF Advance, TypeOK, TaskTypes, Quietly, Creating, Writing
<1>6. TaskFacts(c)'
  BY <1>1, <1>3 DEF Advance, TaskFacts, Quietly, Creating, Writing
<1>7. Phase(c)'
  BY <1>3 DEF Advance, Phase, Quietly
<1>8. ASSUME NEW d \in Clients \ {c} PROVE Spared(d)
  <2>1. d \in late => pc[d] \in Creating
    BY <1>2
  <2> QED
    BY <2>1, <1>3 DEF Advance, Spared
<1>9. ASSUME NEW d \in Clients, NEW k \in Keys, HoldsKey(d, k)' PROVE HoldsKey(d, k)
  BY <1>4, <1>9 DEF HoldsKey, Advance
<1> QED
  BY <1>5, <1>6, <1>7, <1>8, <1>9 DEF Advance

(* Such a step, when it adds nothing to the UNIQUE indexes.                *)
LEMMA AdvanceStep ==
    ASSUME IInv, NEW c \in Clients, NEW late \in SUBSET Rivals(c), NEW at \in Quietly,
           late = {} \/ pc[c] \in Creating, Advance(c, late, at),
           pc[c] \in Creating \cup {"tables", "run"},
           at \in Creating => pc[c] \in Creating,
           at \in {"columns", "indexes"} => tab[c] \in made',
           at = "uniques" => tab[c] \in plain',
           at = "entries" => call[c] = "batch",
           SharedTypes', Grows, UNCHANGED <<uniq, rows, tables>>
    PROVE  IInv'
<1>1. TypeOK' /\ CacheSound' /\ \A d \in Clients : Phase(d)'
  BY AdvanceTypes, StepTypes
<1>2. TaskTypes' /\ Calm
  BY AdvanceTypes DEF Calm
<1>3. LocksHold'
  BY <1>2, CalmKeepsLocks DEF IInv
<1> QED
  BY <1>1, <1>3 DEF IInv

LEMMA GotoStep ==
    ASSUME IInv, NEW c \in Clients, NEW at \in Quietly, Goto(c, at),
           pc[c] \in Creating \cup {"tables", "run"},
           at \in Creating => pc[c] \in Creating,
           at \in {"columns", "indexes"} => tab[c] \in made',
           at = "uniques" => tab[c] \in plain',
           at = "entries" => call[c] = "batch",
           SharedTypes', Grows, UNCHANGED <<uniq, rows, tables>>
    PROVE  IInv'
<1>1. Advance(c, {}, at)
  BY GotoAdvances DEF IInv
<1> QED
  BY <1>1, AdvanceStep

-----------------------------------------------------------------------------
(* The DDL.                                                                *)

LEMMA StartStep ==
    ASSUME IInv, NEW c \in Clients, NEW kind \in Calls, NEW ts \in SUBSET Tables,
           Start(c, kind, ts)
    PROVE  IInv'
<1>1. TypeOK /\ TaskFacts(c) /\ SharedTypes' /\ Grows
  BY TypesInParts DEF IInv, SharedTypes, Grows, ddl, Start
<1>2. TaskTypes'
  BY <1>1, PostgresAssumption DEF Start, TypeOK, TaskTypes
<1>3. pc'[c] = "tables" /\ call'[c] = kind /\ kind # "none"
  BY <1>1, PostgresAssumption DEF Start, TypeOK, AllCalls
<1>4. TaskFacts(c)' /\ Phase(c)'
  BY <1>1, <1>3 DEF Start, TaskFacts, Phase, Creating, Writing
<1>5. \A d \in Clients \ {c} : Spared(d)
  BY <1>1 DEF Start, TypeOK, Spared
<1>6. Calm
  <2>1. \A d \in Clients : pc'[d] = "unique" => pc[d] = "unique"
    BY <1>1 DEF Start, TypeOK
  <2> QED
    BY <2>1 DEF Calm, HoldsKey, Start, ddl
<1>7. TypeOK' /\ CacheSound' /\ \A d \in Clients : Phase(d)'
  BY <1>1, <1>2, <1>4, <1>5, StepTypes DEF Start
<1>8. LocksHold'
  BY <1>1, <1>2, <1>6, CalmKeepsLocks DEF IInv
<1> QED
  BY <1>7, <1>8 DEF IInv

LEMMA NextTableStep ==
    ASSUME IInv, NEW c \in Clients, NextTable(c)
    PROVE  IInv'
<1>1. TypeOK /\ TaskFacts(c) /\ SharedTypes' /\ Grows /\ UNCHANGED <<uniq, rows, tables>>
  BY TypesInParts DEF IInv, SharedTypes, Grows, ddl, NextTable
<1>2. CASE Goto(c, "run")
  BY <1>1, <1>2, GotoStep DEF NextTable, Quietly, Creating
<1>3. CASE \E t \in want[c] \ tables[ProcOf[c]] :
            /\ pc' = [pc EXCEPT ![c] = "create"]
            /\ tab' = [tab EXCEPT ![c] = t]
            /\ UNCHANGED <<call, want, entry, mine, doomed, filter, written>>
  <2>1. PICK t \in want[c] :
            /\ pc' = [pc EXCEPT ![c] = "create"]
            /\ tab' = [tab EXCEPT ![c] = t]
            /\ UNCHANGED <<call, want, entry, mine, doomed, filter, written>>
    BY <1>3
  <2>2. t \in Tables
    BY <1>1 DEF TypeOK
  <2>3. TaskTypes'
    BY <1>1, <2>1, <2>2 DEF TypeOK, TaskTypes, Creating
  <2>4. pc'[c] = "create" /\ tab'[c] = t
    BY <1>1, <2>1 DEF TypeOK
  <2>5. TaskFacts(c)' /\ Phase(c)'
    BY <1>1, <2>1, <2>2, <2>4 DEF NextTable, TaskFacts, Phase, Creating, Writing
  <2>6. \A d \in Clients \ {c} : Spared(d)
    BY <1>1, <2>1 DEF TypeOK, Spared
  <2>7. Calm
    <3>1. \A d \in Clients : pc'[d] = "unique" => pc[d] = "unique"
      BY <1>1, <2>1 DEF TypeOK
    <3> QED
      BY <1>1, <2>1, <3>1 DEF Calm, HoldsKey
  <2>8. TypeOK' /\ CacheSound' /\ \A d \in Clients : Phase(d)'
    BY <1>1, <2>3, <2>5, <2>6, StepTypes
  <2>9. LocksHold'
    BY <1>1, <2>3, <2>7, CalmKeepsLocks DEF IInv
  <2> QED
    BY <2>8, <2>9 DEF IInv
<1> QED
  BY <1>2, <1>3 DEF NextTable

LEMMA RacedStep ==
    ASSUME IInv, NEW c \in Clients, Raced(c)
    PROVE  IInv'
<1>1. Leave(c) /\ UNCHANGED <<ddl, rows, tables>> /\ outcome' = Violation(c)
  BY DEF Raced, Ends
<1> QED
  BY <1>1, EndStep DEF Violation, Outcomes

LEMMA CreateTableStep ==
    ASSUME IInv, NEW c \in Clients, CreateTable(c)
    PROVE  IInv'
<1>1. TypeOK /\ tab[c] \in Tables /\ pc[c] \in Creating /\ UNCHANGED <<rows, tables, outcome>>
  BY DEF IInv, TypeOK, CreateTable, Creating
<1>2. CASE tab[c] \in made
  <2>1. Goto(c, "columns") /\ UNCHANGED ddl
    BY <1>2 DEF CreateTable
  <2>2. SharedTypes' /\ Grows
    BY <1>1, <2>1, TypesInParts DEF SharedTypes, Grows, ddl
  <2> QED
    BY <1>1, <1>2, <2>1, <2>2, GotoStep DEF Quietly, Creating, ddl
<1>3. CASE tab[c] \notin made
  <2>1. /\ made' = made \cup {tab[c]} /\ full' = full \cup {tab[c]}
        /\ Creates(c, "columns") /\ UNCHANGED <<plain, uniq>>
    BY <1>3 DEF CreateTable
  <2>2. SharedTypes' /\ Grows
    BY <1>1, <2>1 DEF TypeOK, SharedTypes, Grows
  <2>3. PICK late \in SUBSET Rivals(c) : Advance(c, late, "columns")
    BY <2>1, CreatesAdvances
  <2> QED
    BY <1>1, <2>1, <2>2, <2>3, AdvanceStep DEF Quietly, Creating
<1> QED
  BY <1>2, <1>3

LEMMA AddColumnsStep ==
    ASSUME IInv, NEW c \in Clients, AddColumns(c)
    PROVE  IInv'
<1>1. TypeOK /\ tab[c] \in made /\ pc[c] \in Creating
  BY DEF IInv, TypeOK, Phase, AddColumns, Creating
<1>2. SharedTypes' /\ Grows
  BY <1>1 DEF AddColumns, TypeOK, SharedTypes, Grows
<1> QED
  BY <1>1, <1>2, GotoStep DEF AddColumns, Quietly, Creating

LEMMA CreateIndexesStep ==
    ASSUME IInv, NEW c \in Clients, CreateIndexes(c)
    PROVE  IInv'
<1>1. TypeOK /\ pc[c] \in Creating /\ UNCHANGED <<made, full, uniq, tables>>
  BY DEF IInv, CreateIndexes, Creating
<1>2. CASE Ends(c, "failed") /\ UNCHANGED plain
  BY <1>1, <1>2, EndStep DEF Ends, Outcomes, ddl
<1>3. CASE tab[c] \in plain /\ Goto(c, "uniques") /\ UNCHANGED <<plain, rows, outcome>>
  <2>1. SharedTypes' /\ Grows
    BY <1>1, <1>3 DEF TypeOK, SharedTypes, Grows
  <2> QED
    BY <1>1, <1>3, <2>1, GotoStep DEF Quietly, Creating
<1>4. CASE /\ tab[c] \in full \ plain /\ plain' = plain \cup {tab[c]}
           /\ Creates(c, "uniques") /\ UNCHANGED <<rows, outcome>>
  <2>1. SharedTypes' /\ Grows
    BY <1>1, <1>4 DEF TypeOK, SharedTypes, Grows
  <2>2. PICK late \in SUBSET Rivals(c) : Advance(c, late, "uniques")
    BY <1>4, CreatesAdvances
  <2> QED
    BY <1>1, <1>4, <2>1, <2>2, AdvanceStep DEF Quietly, Creating
<1> QED
  BY <1>2, <1>3, <1>4 DEF CreateIndexes

(* A group that is new finds its table as it was committed: whoever had    *)
(* written it has ended.                                                   *)
LEMMA CreateUniqueStep ==
    ASSUME IInv, NEW c \in Clients, CreateUnique(c)
    PROVE  IInv'
<1>1. /\ TypeOK /\ TaskFacts(c) /\ LocksHold /\ tab[c] \in plain /\ tab[c] \in full
      /\ pc[c] = "uniques" /\ pc[c] \in Creating /\ Quiet(c, tab[c])
      /\ UNCHANGED <<made, full, plain, tables>>
  BY TypesInParts DEF IInv, TypeOK, Phase, CreateUnique, Creating
<1>2. PICK g \in GroupsOf(tab[c]) :
        \/ HasDuplicates(g) /\ Ends(c, Violation(c)) /\ UNCHANGED uniq
        \/ /\ ~ HasDuplicates(g) /\ uniq' = uniq \cup {g}
           /\ Creates(c, "uniques") /\ UNCHANGED <<rows, outcome>>
  BY DEF CreateUnique
<1>3. g \in Groups /\ g.table = tab[c]
  BY DEF GroupsOf
<1>4. CASE Ends(c, Violation(c)) /\ UNCHANGED uniq
  BY <1>1, <1>4, EndStep DEF Ends, Violation, Outcomes, ddl
<1>5. CASE /\ ~ HasDuplicates(g) /\ uniq' = uniq \cup {g}
           /\ Creates(c, "uniques") /\ UNCHANGED <<rows, outcome>>
  <2>1. SharedTypes' /\ Grows
    BY <1>1, <1>3, <1>5 DEF TypeOK, SharedTypes, Grows
  <2>2. PICK late \in SUBSET Rivals(c) : Advance(c, late, "uniques")
    BY <1>5, CreatesAdvances
  <2>3. /\ TaskTypes' /\ TaskFacts(c)' /\ Phase(c)' /\ UNCHANGED <<mine, written>>
        /\ \A d \in Clients \ {c} : Spared(d)
        /\ \A d \in Clients, k \in Keys : HoldsKey(d, k)' => HoldsKey(d, k)
    BY <1>1, <2>2, AdvanceTypes DEF Quietly, Creating
  <2>4. TypeOK' /\ CacheSound' /\ \A d \in Clients : Phase(d)'
    BY <1>1, <2>1, <2>3, StepTypes
  <2>5. \A d \in Clients, k \in KeysOf(g.table) : mine[d][k] = Kept
    <3>1. mine[c] = Nothing
      BY <1>1 DEF TaskFacts, Writing
    <3>2. \A k \in Keys : mine[c][k] = Kept
      BY <3>1 DEF Nothing
    <3> QED
      BY <1>1, <1>3, <3>2 DEF Quiet, Locks, KeysOf
  <2>6. \A d \in Clients, k \in KeysOf(g.table) : Committed(d)[k] = rows[k]
    BY <2>5 DEF Committed, KeysOf
  <2>7. \A k, j \in KeysOf(g.table) : k # j => Differ(g, rows[k], rows[j])
    BY <1>3, <1>5 DEF HasDuplicates, Present, KeysOf, Differ
  <2>8. Exclusive'
    BY <1>1, <2>3 DEF LocksHold, Exclusive
  <2>9. Apart(rows, rows)'
    BY <1>1, <1>5, <2>7 DEF LocksHold, Apart, Differ, Equal, KeysOf
  <2>10. ASSUME NEW d \in Clients PROVE Apart(Committed(d), Committed(d))'
    <3>1. Committed(d)' = Committed(d)
      BY <1>5, <2>3 DEF Committed
    <3>2. Apart(Committed(d), Committed(d))
      BY <1>1 DEF LocksHold
    <3> QED
      BY <1>5, <2>6, <2>7, <3>1, <3>2 DEF Apart, Differ, Equal, KeysOf
  <2>11. ASSUME NEW d \in Clients, NEW e \in Clients, d # e PROVE Apart(mine[d], mine[e])'
    <3>1. Apart(mine[d], mine[e])
      BY <1>1, <2>11 DEF LocksHold
    <3> QED
      BY <1>5, <2>3, <2>5, <3>1 DEF Apart, Differ, Equal, KeysOf
  <2>12. \A d \in Clients : MineIsWritten(d)'
    BY <1>1, <2>3 DEF LocksHold, MineIsWritten
  <2> QED
    BY <2>4, <2>8, <2>9, <2>10, <2>11, <2>12 DEF IInv, LocksHold
<1> QED
  BY <1>2, <1>4, <1>5

(* An index of its name is a group's own.                                  *)
LEMMA NamedIsThere ==
    ASSUME TypeOK, NEW g \in Groups, Named(g)
    PROVE  g \in uniq
<1>1. PICK h \in uniq : IndexName[h] = IndexName[g]
  BY DEF Named
<1>2. h \in Groups
  BY DEF TypeOK
<1> QED
  BY <1>1, <1>2, NamesDiffer

LEMMA EnsuredStep ==
    ASSUME IInv, NEW c \in Clients, Ensured(c)
    PROVE  IInv'
<1>1. /\ TypeOK /\ TaskFacts(c) /\ tab[c] \in plain /\ tab[c] \in full /\ tab[c] \in made
      /\ tab[c] \in Tables /\ UNCHANGED <<ddl, rows, outcome>>
  BY TypesInParts DEF IInv, TypeOK, Phase, Ensured, Creating
<1>2. SharedTypes' /\ Grows
  BY <1>1 DEF Ensured, TypeOK, SharedTypes, Grows, ddl
<1>3. TaskTypes'
  BY <1>1 DEF Ensured, TypeOK, TaskTypes
<1>4. pc'[c] = "tables"
  BY <1>1 DEF Ensured, TypeOK
<1>5. TaskFacts(c)' /\ Phase(c)'
  BY <1>1, <1>4 DEF Ensured, TaskFacts, Phase, Creating, Writing
<1>6. ASSUME NEW d \in Clients \ {c} PROVE TaskFacts(d)' /\ Phase(d)'
  <2>1. Spared(d)
    BY <1>1 DEF Ensured, TypeOK, Spared
  <2> QED
    BY <1>2, <1>3, <2>1, SparedFacts DEF IInv
<1>7. TypeOK'
  BY <1>2, <1>3, <1>5, <1>6, TypesInParts DEF TypeOK, SharedTypes, TaskTypes, TaskFacts
<1>8. CacheSound'
  <2> SUFFICES ASSUME NEW p \in Procs, NEW t \in tables'[p]
               PROVE  t \in made \cap full /\ GroupsOf(t) \subseteq uniq
    BY <1>1 DEF CacheSound, ddl
  <2>1. t \in tables[p] \/ t = tab[c]
    BY <1>1 DEF Ensured, TypeOK
  <2>2. GroupsOf(tab[c]) \subseteq uniq
    BY <1>1, NamedIsThere DEF Ensured, GroupsOf
  <2> QED
    BY <1>1, <2>1, <2>2 DEF IInv, CacheSound
<1>9. Calm
  <2>1. \A d \in Clients : pc'[d] = "unique" => pc[d] = "unique"
    BY <1>1 DEF Ensured, TypeOK
  <2> QED
    BY <2>1 DEF Calm, HoldsKey, Ensured, ddl
<1>10. LocksHold'
  BY <1>1, <1>3, <1>9, CalmKeepsLocks DEF IInv
<1> QED
  BY <1>5, <1>6, <1>7, <1>8, <1>10 DEF IInv

LEMMA EnsuringStep ==
    ASSUME IInv, NEW c \in Clients, Ensuring(c)
    PROVE  IInv'
BY NextTableStep, RacedStep, CreateTableStep, AddColumnsStep, CreateIndexesStep,
   CreateUniqueStep, EnsuredStep DEF Ensuring

-----------------------------------------------------------------------------
(* Writes begin.                                                           *)

LEMMA CalmStep ==
    ASSUME IInv, NEW c \in Clients, TaskTypes', TaskFacts(c)', Phase(c)',
           \A d \in Clients \ {c} : Spared(d), Calm,
           UNCHANGED <<ddl, rows, tables, outcome>>
    PROVE  IInv'
<1>1. TypeOK /\ SharedTypes' /\ Grows
  BY TypesInParts DEF IInv, SharedTypes, Grows, ddl
<1>2. TypeOK' /\ CacheSound' /\ \A d \in Clients : Phase(d)'
  BY <1>1, StepTypes
<1>3. LocksHold'
  BY <1>1, CalmKeepsLocks DEF IInv
<1> QED
  BY <1>2, <1>3 DEF IInv

LEMMA SubmitsStep ==
    ASSUME IInv, NEW c \in Clients, NEW k \in Keys, NEW row \in Rows,
           \/ pc[c] = "run" /\ call[c] # "batch"
           \/ pc[c] = "entries" /\ call[c] = "batch" /\ Len(written[c]) < MaxBatch,
           Submits(c, k, row), UNCHANGED <<ddl, rows, tables, outcome>>
    PROVE  IInv'
<1>1. TypeOK /\ TaskFacts(c)
  BY TypesInParts DEF IInv
<1>2. [key |-> k, row |-> row] \in Entries
  BY DEF Entries
<1>3. TaskTypes'
  BY <1>1, <1>2 DEF Submits, TypeOK, TaskTypes, Writing
<1>4. pc'[c] = "key" /\ entry'[c] # NoEntry
  BY <1>1, <1>2, PostgresAssumption DEF Submits, TypeOK
<1>5. TaskFacts(c)' /\ Phase(c)'
  BY <1>1, <1>4 DEF Submits, TaskFacts, Phase, Creating, Writing
<1>6. \A d \in Clients \ {c} : Spared(d)
  BY <1>1 DEF Submits, TypeOK, Spared
<1>7. Calm
  <2>1. \A d \in Clients : pc'[d] = "unique" => pc[d] = "unique" /\ entry'[d] = entry[d]
    BY <1>1 DEF Submits, TypeOK
  <2> QED
    BY <2>1 DEF Calm, HoldsKey, Submits, ddl
<1> QED
  BY <1>3, <1>5, <1>6, <1>7, CalmStep

LEMMA WriteStep ==
    ASSUME IInv, NEW c \in Clients, NEW k \in Keys, NEW row \in Rows, Write(c, k, row)
    PROVE  IInv'
BY SubmitsStep DEF Write

LEMMA BatchEntryStep ==
    ASSUME IInv, NEW c \in Clients, NEW k \in Keys, NEW row \in Rows, BatchEntry(c, k, row)
    PROVE  IInv'
<1>1. call[c] = "batch"
  BY DEF IInv, Phase, BatchEntry
<1> QED
  BY <1>1, SubmitsStep DEF BatchEntry

LEMMA WriteGuardedStep ==
    ASSUME IInv, NEW c \in Clients, NEW k \in Keys, NEW row \in Rows, NEW p, NEW col,
           WriteGuarded(c, k, row, p, col)
    PROVE  IInv'
<1>1. CASE Ends(c, "rejected")
  BY <1>1, EndStep DEF WriteGuarded, Ends, Outcomes
<1>2. CASE Submits(c, k, row) /\ UNCHANGED <<rows, outcome>>
  BY <1>2, SubmitsStep DEF WriteGuarded
<1> QED
  BY <1>1, <1>2 DEF WriteGuarded

LEMMA BatchBeginStep ==
    ASSUME IInv, NEW c \in Clients, BatchBegin(c)
    PROVE  IInv'
<1>1. SharedTypes' /\ Grows /\ UNCHANGED <<uniq, rows, tables>>
  BY TypesInParts DEF IInv, SharedTypes, Grows, ddl, BatchBegin
<1> QED
  BY <1>1, GotoStep DEF BatchBegin, Quietly, Creating

-----------------------------------------------------------------------------
(* Calls end without a commit, and deletes begin.                          *)

LEMMA ReadStep ==
    ASSUME IInv, NEW c \in Clients, Read(c)
    PROVE  IInv'
BY EndStep DEF Read, IInv, TypeOK

LEMMA DroppedStep ==
    ASSUME IInv, NEW c \in Clients, Dropped(c)
    PROVE  IInv'
BY EndStep DEF Dropped, IInv, TypeOK

LEMMA DeadlockStep ==
    ASSUME IInv, NEW c \in Clients, DeadlockAborted(c)
    PROVE  IInv'
BY EndStep DEF DeadlockAborted, Ends, Outcomes

LEMMA FaultStep ==
    ASSUME IInv, NEW c \in Clients, Fault(c)
    PROVE  IInv'
<1>1. CASE pc[c] = "columns"
  <2>1. Goto(c, "indexes") /\ UNCHANGED <<ddl, rows, tables, outcome>>
    BY <1>1 DEF Fault
  <2>2. SharedTypes' /\ Grows /\ UNCHANGED <<uniq, rows, tables>>
    BY <2>1, TypesInParts DEF IInv, SharedTypes, Grows, ddl
  <2>3. tab[c] \in made
    BY <1>1 DEF IInv, Phase
  <2> QED
    BY <1>1, <2>1, <2>2, <2>3, GotoStep DEF Quietly, Creating, Grows
<1>2. CASE pc[c] # "columns"
  BY <1>2, EndStep DEF Fault, Ends, Outcomes
<1> QED
  BY <1>1, <1>2

LEMMA DeletesStep ==
    ASSUME IInv, NEW c \in Clients, pc[c] = "run", NEW ks \in SUBSET Keys,
           NEW filters \in Filters, Deletes(c, ks, filters)
    PROVE  IInv'
<1>1. TypeOK /\ TaskFacts(c)
  BY TypesInParts DEF IInv
<1>2. TaskTypes'
  BY <1>1 DEF Deletes, TypeOK, TaskTypes, Writing
<1>3. pc'[c] = "rows"
  BY <1>1 DEF Deletes, TypeOK
<1>4. TaskFacts(c)' /\ Phase(c)'
  BY <1>1, <1>3 DEF Deletes, TaskFacts, Phase, Creating, Writing
<1>5. \A d \in Clients \ {c} : Spared(d)
  BY <1>1 DEF Deletes, TypeOK, Spared
<1>6. Calm
  <2>1. \A d \in Clients : pc'[d] = "unique" => pc[d] = "unique"
    BY <1>1 DEF Deletes, TypeOK
  <2> QED
    BY <2>1 DEF Calm, HoldsKey, Deletes, ddl
<1> QED
  BY <1>2, <1>4, <1>5, <1>6, CalmStep DEF Deletes

LEMMA DeleteStep ==
    ASSUME IInv, NEW c \in Clients, NEW k \in Keys, Delete(c, k)
    PROVE  IInv'
<1>1. {k} \in SUBSET Keys
  OBVIOUS
<1> QED
  BY <1>1, NoFilterIsOne, DeletesStep DEF Delete

LEMMA DeleteWhereStep ==
    ASSUME IInv, NEW c \in Clients, NEW t \in Tables, NEW f \in Filters, DeleteWhere(c, t, f)
    PROVE  IInv'
<1>1. KeysOf(t) \in SUBSET Keys
  BY DEF KeysOf
<1> QED
  BY <1>1, DeletesStep DEF DeleteWhere

-----------------------------------------------------------------------------
(* Locks are taken.                                                        *)

LEMMA TakeKeyStep ==
    ASSUME IInv, NEW c \in Clients, TakeKey(c)
    PROVE  IInv'
<1>1. CASE Ends(c, Collision(c))
  BY <1>1, EndStep DEF TakeKey, Ends, Collision, Outcomes
<1>2. CASE Goto(c, "unique") /\ UNCHANGED <<rows, outcome>>
  <2>1. TypeOK /\ TaskFacts(c) /\ LocksHold /\ pc[c] = "key" /\ UNCHANGED <<ddl, tables>>
    BY TypesInParts DEF IInv, TakeKey
  <2>2. SharedTypes' /\ Grows
    BY <1>2, <2>1, TypesInParts DEF SharedTypes, Grows, ddl
  <2>3. TaskTypes'
    BY <1>2, <2>1 DEF Goto, TypeOK, TaskTypes, Writing
  <2>4. pc'[c] = "unique" /\ \A d \in Clients \ {c} : pc'[d] = pc[d]
    BY <1>2, <2>1 DEF Goto, TypeOK
  <2>5. TaskFacts(c)' /\ Phase(c)'
    <3>1. Phase(c)
      BY DEF IInv
    <3> QED
      BY <1>2, <2>1, <2>4, <3>1 DEF Goto, TaskFacts, Phase, Creating, Writing
  <2>6. \A d \in Clients \ {c} : Spared(d)
    BY <1>2, <2>4 DEF Goto, Spared
  <2>7. TypeOK' /\ CacheSound' /\ \A d \in Clients : Phase(d)'
    BY <2>1, <2>2, <2>3, <2>5, <2>6, StepTypes
  <2>8. \A d \in Clients \ {c}, k \in Keys : HoldsKey(d, k)' => HoldsKey(d, k)
    BY <1>2, <2>4 DEF Goto, HoldsKey
  <2>9. \A k \in Keys : HoldsKey(c, k)' => HoldsKey(c, k) \/ k = entry[c].key
    BY <1>2 DEF Goto, HoldsKey
  <2>10. \A d \in Clients \ {c} : ~ HoldsKey(d, entry[c].key)
    BY DEF TakeKey, WaitsForKey
  <2>11. Exclusive'
    <3> SUFFICES ASSUME NEW d \in Clients, NEW e \in Clients, d # e, NEW k \in Keys,
                        HoldsKey(d, k)', HoldsKey(e, k)'
                 PROVE  FALSE
      BY DEF Exclusive
    <3>1. ~ (HoldsKey(d, k) /\ HoldsKey(e, k))
      BY <2>1 DEF LocksHold, Exclusive
    <3> QED
      BY <3>1, <2>8, <2>9, <2>10
  <2>12. UNCHANGED <<rows, uniq, mine>>
    BY <1>2, <2>1 DEF Goto, ddl
  <2>13. \A d \in Clients : Committed(d)' = Committed(d)
    BY <2>12 DEF Committed
  <2>14. Apart(rows, rows)'
    BY <2>1, <2>12 DEF LocksHold, Apart, Differ, Equal, KeysOf
  <2>15. \A d \in Clients : Apart(Committed(d), Committed(d))'
    BY <2>1, <2>12, <2>13 DEF LocksHold, Apart, Differ, Equal, KeysOf
  <2>16. \A d, e \in Clients : d # e => Apart(mine[d], mine[e])'
    BY <2>1, <2>12 DEF LocksHold, Apart, Differ, Equal, KeysOf
  <2>17. \A d \in Clients : MineIsWritten(d)'
    BY <1>2, <2>1 DEF Goto, LocksHold, MineIsWritten
  <2> QED
    BY <2>7, <2>11, <2>14, <2>15, <2>16, <2>17 DEF IInv, LocksHold
<1> QED
  BY <1>1, <1>2 DEF TakeKey

(* A row that is gone agrees with none.                                    *)
LEMMA DeleteRowStep ==
    ASSUME IInv, NEW c \in Clients, NEW k \in Keys, DeleteRow(c, k)
    PROVE  IInv'
<1>1. /\ TypeOK /\ TaskFacts(c) /\ LocksHold /\ pc[c] = "rows"
      /\ UNCHANGED <<ddl, rows, tables, pc, call, want, tab, entry, filter, written, outcome>>
  BY TypesInParts DEF IInv, DeleteRow
<1>2. mine' \in {mine, [mine EXCEPT ![c][k] = NoRow]}
  BY DEF DeleteRow
<1>3. TaskTypes'
  BY <1>1, <1>2 DEF DeleteRow, TypeOK, TaskTypes
<1>4. TaskFacts(c)' /\ Phase(c)'
  <2>1. Phase(c)
    BY DEF IInv
  <2> QED
    BY <1>1, <2>1 DEF TaskFacts, Phase, Creating, Writing
<1>5. \A d \in Clients \ {c} : mine'[d] = mine[d] /\ doomed'[d] = doomed[d]
  BY <1>1, <1>2 DEF DeleteRow, TypeOK
<1>6. \A d \in Clients \ {c} : Spared(d)
  BY <1>1, <1>5 DEF Spared
<1>7. TypeOK' /\ CacheSound' /\ \A d \in Clients : Phase(d)'
  <2>1. SharedTypes' /\ Grows
    BY <1>1, TypesInParts DEF SharedTypes, Grows, ddl
  <2> QED
    BY <1>1, <1>3, <1>4, <1>6, <2>1, StepTypes
<1>8. \A j \in Keys : mine'[c][j] = mine[c][j] \/ (j = k /\ mine'[c][j] = NoRow)
  BY <1>1, <1>2 DEF TypeOK
<1>9. Exclusive'
  <2> SUFFICES ASSUME NEW d \in Clients, NEW e \in Clients, d # e, NEW j \in Keys,
                      HoldsKey(d, j)', HoldsKey(e, j)'
               PROVE  FALSE
    BY DEF Exclusive
  <2>1. ~ (HoldsKey(d, j) /\ HoldsKey(e, j))
    BY <1>1 DEF LocksHold, Exclusive
  <2>2. \A f \in Clients \ {c} : HoldsKey(f, j)' => HoldsKey(f, j)
    BY <1>1, <1>5 DEF HoldsKey
  <2>3. HoldsKey(c, j)' => HoldsKey(c, j) \/ j = k
    BY <1>1, <1>8 DEF HoldsKey
  <2>4. \A f \in Clients \ {c} : ~ HoldsKey(f, k)
    BY DEF DeleteRow, WaitsForKey
  <2> QED
    BY <2>1, <2>2, <2>3, <2>4
<1>10. Apart(rows, rows)'
  BY <1>1 DEF LocksHold, Apart, Differ, Equal, KeysOf, ddl
<1>11. ASSUME NEW d \in Clients PROVE Apart(Committed(d), Committed(d))'
  <2>1. Apart(Committed(d), Committed(d))
    BY <1>1 DEF LocksHold
  <2>2. \A j \in Keys : Committed(d)'[j] \in {Committed(d)[j], NoRow}
    BY <1>1, <1>5, <1>8, PostgresAssumption DEF Committed
  <2> QED
    BY <1>1, <2>1, <2>2 DEF Apart, Differ, Equal, KeysOf, ddl
<1>12. ASSUME NEW d \in Clients, NEW e \in Clients, d # e PROVE Apart(mine[d], mine[e])'
  <2>1. Apart(mine[d], mine[e])
    BY <1>1, <1>12 DEF LocksHold
  <2>2. \A f \in Clients, j \in Keys : mine'[f][j] \in {mine[f][j], NoRow}
    BY <1>5, <1>8
  <2> QED
    BY <1>1, <2>1, <2>2 DEF Apart, Differ, Equal, KeysOf, ddl
<1>13. ASSUME NEW d \in Clients PROVE MineIsWritten(d)'
  <2>1. \A j \in Keys : mine'[d][j] \in {mine[d][j], NoRow}
    BY <1>5, <1>8
  <2> QED
    BY <1>1, <2>1 DEF LocksHold, MineIsWritten
<1> QED
  BY <1>7, <1>9, <1>10, <1>11, <1>12, <1>13 DEF IInv, LocksHold

-----------------------------------------------------------------------------
(* A row is written.                                                       *)

(* Two contents of which every pair differs.                               *)
LEMMA DifferIsSymmetric ==
    ASSUME NEW g, NEW row, NEW other, Differ(g, row, other)
    PROVE  Differ(g, other, row)
BY DEF Differ, Equal

(* Whoever has its values keeps apart from all it will stand beside.       *)
LEMMA ValuesAreFree ==
    ASSUME IInv, NEW c \in Clients, pc[c] = "unique", WaitsForValues(c) = {}, ~ Refused(c),
           NEW g \in uniq, NEW j \in KeysOf(g.table), j # entry[c].key,
           entry[c].key \in KeysOf(g.table)
    PROVE  /\ Differ(g, entry[c].row, Seen(c, j)) /\ Differ(g, Seen(c, j), entry[c].row)
           /\ \A d \in Clients \ {c} : Differ(g, entry[c].row, mine[d][j])
                                       /\ Differ(g, mine[d][j], entry[c].row)
<1>1. j \in SameTable(entry[c].key) /\ g.table = TableOf[entry[c].key]
  BY DEF SameTable, KeysOf
<1>2. Differ(g, entry[c].row, Seen(c, j))
  BY <1>1 DEF Refused, Collide, Differ
<1>3. ASSUME NEW d \in Clients \ {c} PROVE Differ(g, entry[c].row, mine[d][j])
  <2>1. ~ HoldsValue(d, j, entry[c].row)
    BY <1>1 DEF WaitsForValues
  <2>2. CASE mine[d][j] = Kept
    BY <2>2 DEF Differ
  <2>3. CASE mine[d][j] # Kept
    <3>1. j \in Keys /\ g.table = TableOf[j]
      BY DEF KeysOf
    <3>2. CASE mine[d][j] = NoRow
      BY <3>2 DEF Differ
    <3>3. CASE mine[d][j] # NoRow
      <4>1. PICK i \in DOMAIN written[d] : written[d][i] = [key |-> j, row |-> mine[d][j]]
        BY <2>3, <3>1, <3>3 DEF IInv, LocksHold, MineIsWritten
      <4>2. ~ Collide(j, entry[c].row, mine[d][j])
        BY <2>1, <2>3, <4>1 DEF HoldsValue, HoldsKey
      <4> QED
        BY <3>1, <4>2 DEF Collide, Differ
    <3> QED
      BY <3>2, <3>3
  <2> QED
    BY <2>2, <2>3
<1> QED
  BY <1>2, <1>3, DifferIsSymmetric

LEMMA EntryIsTyped ==
    ASSUME TypeOK, NEW c \in Clients, pc[c] = "unique"
    PROVE  entry[c] \in Entries /\ entry[c].key \in Keys /\ entry[c].row \in Rows
<1>1. entry[c] \in Entries
  BY DEF TypeOK
<1> QED
  BY <1>1 DEF Entries

(* An entry of a batch.                                                    *)
LEMMA EntersBatchStep ==
    ASSUME IInv, NEW c \in Clients, pc[c] = "unique", WaitsForValues(c) = {}, ~ Refused(c),
           call[c] = "batch", mine' = WithEntry(c), pc' = [pc EXCEPT ![c] = "entries"],
           written' = [written EXCEPT ![c] = Append(@, entry[c])],
           entry' = [entry EXCEPT ![c] = NoEntry],
           UNCHANGED <<ddl, rows, tables, call, want, tab, doomed, filter, outcome>>
    PROVE  IInv'
<1> DEFINE k == entry[c].key
           row == entry[c].row
<1>1. /\ TypeOK /\ TaskFacts(c) /\ LocksHold /\ k \in Keys /\ row \in Rows
      /\ UNCHANGED <<uniq, rows>>
  BY TypesInParts, EntryIsTyped DEF IInv, ddl
<1>0. /\ written[c] \in Batches /\ Len(written[c]) < MaxBatch /\ entry[c] \in Entries
       /\ written'[c] = Append(written[c], entry[c])
       /\ \A d \in Clients \ {c} : written'[d] = written[d]
  BY <1>1, EntryIsTyped DEF IInv, Phase, TypeOK
<1>2. TaskTypes'
  <2>1. written' \in [Clients -> Batches]
    BY <1>1, <1>0, EntryAppended DEF TypeOK
  <2> QED
    BY <1>1, <2>1 DEF WithEntry, TypeOK, TaskTypes, Writing
<1>3. pc'[c] = "entries" /\ entry'[c] = NoEntry
  BY <1>1 DEF TypeOK
<1>4. TaskFacts(c)' /\ Phase(c)'
  BY <1>1, <1>3 DEF TaskFacts, Phase, Creating, Writing
<1>5. \A d \in Clients \ {c} : pc'[d] = pc[d] /\ entry'[d] = entry[d] /\ mine'[d] = mine[d]
  BY <1>1 DEF WithEntry, TypeOK
<1>6. \A j \in Keys : mine'[c][j] = IF j = k THEN row ELSE mine[c][j]
  BY <1>1 DEF WithEntry, TypeOK
<1>7. TypeOK' /\ CacheSound' /\ \A d \in Clients : Phase(d)'
  <2>1. SharedTypes' /\ Grows
    BY <1>1, TypesInParts DEF SharedTypes, Grows, ddl
  <2>2. \A d \in Clients \ {c} : Spared(d)
    BY <1>5 DEF Spared
  <2> QED
    BY <1>2, <1>4, <2>1, <2>2, StepTypes
<1>8. Exclusive'
  <2>1. \A d \in Clients, j \in Keys : HoldsKey(d, j)' => HoldsKey(d, j)
    BY <1>3, <1>5, <1>6 DEF HoldsKey
  <2> QED
    BY <1>1, <2>1 DEF LocksHold, Exclusive
<1>9. Apart(rows, rows)'
  BY <1>1 DEF LocksHold, Apart, Differ, Equal, KeysOf
<1>10. Apart(Committed(c), Committed(c))'
  <2> SUFFICES ASSUME NEW g \in uniq, NEW i \in KeysOf(g.table), NEW j \in KeysOf(g.table),
                      i # j
               PROVE  Differ(g, Committed(c)'[i], Committed(c)'[j])
    BY <1>1 DEF Apart, Differ, Equal, KeysOf
  <2>1. i \in Keys /\ j \in Keys
    BY DEF KeysOf
  <2>2. \A l \in Keys : Committed(c)'[l] = IF l = k THEN row ELSE Seen(c, l)
    <3>1. row # Kept
      BY <1>1, PostgresAssumption DEF Rows, Stored
    <3> QED
      BY <1>1, <1>6, <3>1 DEF Committed, Seen
  <2>3. CASE i = k
    BY <2>1, <2>2, <2>3, ValuesAreFree
  <2>4. CASE j = k
    BY <2>1, <2>2, <2>4, ValuesAreFree
  <2>5. CASE i # k /\ j # k
    <3>1. Differ(g, Committed(c)[i], Committed(c)[j])
      BY <1>1 DEF LocksHold, Apart
    <3> QED
      BY <2>1, <2>2, <2>5, <3>1 DEF Committed, Seen
  <2> QED
    BY <2>3, <2>4, <2>5
<1>11. ASSUME NEW d \in Clients PROVE Apart(Committed(d), Committed(d))'
  <2>1. CASE d = c
    BY <1>10, <2>1
  <2>2. CASE d # c
    <3>1. Committed(d)' = Committed(d)
      BY <1>1, <1>5, <2>2 DEF Committed
    <3>2. Apart(Committed(d), Committed(d))
      BY <1>1 DEF LocksHold
    <3> QED
      BY <1>1, <3>1, <3>2 DEF Apart, Differ, Equal, KeysOf
  <2> QED
    BY <2>1, <2>2
<1>12. ASSUME NEW d \in Clients, NEW e \in Clients, d # e PROVE Apart(mine[d], mine[e])'
  <2> SUFFICES ASSUME NEW g \in uniq, NEW i \in KeysOf(g.table), NEW j \in KeysOf(g.table),
                      i # j
               PROVE  Differ(g, mine'[d][i], mine'[e][j])
    BY <1>1 DEF Apart, Differ, Equal, KeysOf
  <2>1. i \in Keys /\ j \in Keys
    BY DEF KeysOf
  <2>2. CASE d = c /\ i = k
    BY <1>5, <1>6, <1>12, <2>1, <2>2, ValuesAreFree
  <2>3. CASE e = c /\ j = k
    BY <1>5, <1>6, <1>12, <2>1, <2>3, ValuesAreFree
  <2>4. CASE ~ (d = c /\ i = k) /\ ~ (e = c /\ j = k)
    <3>1. Differ(g, mine[d][i], mine[e][j])
      BY <1>1, <1>12 DEF LocksHold, Apart
    <3> QED
      BY <1>5, <1>6, <2>1, <2>4, <3>1
  <2> QED
    BY <2>2, <2>3, <2>4
<1>13. ASSUME NEW d \in Clients PROVE MineIsWritten(d)'
  <2>1. CASE d = c
    <3> SUFFICES ASSUME NEW j \in Keys, mine'[c][j] \notin {Kept, NoRow}
                 PROVE  \E i \in DOMAIN written'[c] :
                            written'[c][i] = [key |-> j, row |-> mine'[c][j]]
      BY <2>1 DEF MineIsWritten
    <3>1. /\ DOMAIN written[c] \subseteq DOMAIN written'[c]
          /\ \A i \in DOMAIN written[c] : written'[c][i] = written[c][i]
          /\ \E i \in DOMAIN written'[c] : written'[c][i] = entry[c]
      <4>1. /\ DOMAIN written[c] = 1..Len(written[c]) /\ Len(written[c]) \in Nat
            /\ DOMAIN written'[c] = 1..(Len(written[c]) + 1)
            /\ \A i \in 1..Len(written[c]) : written'[c][i] = written[c][i]
            /\ written'[c][Len(written[c]) + 1] = entry[c]
        BY <1>0, EntryAppended
      <4> QED
        BY <4>1
    <3>2. CASE j = k
      <4>1. entry[c] = [key |-> k, row |-> row]
        BY <1>1, EntryIsTyped DEF Entries
      <4> QED
        BY <1>6, <3>1, <3>2, <4>1
    <3>3. CASE j # k
      BY <1>1, <1>6, <3>1, <3>3 DEF LocksHold, MineIsWritten
    <3> QED
      BY <3>2, <3>3
  <2>2. CASE d # c
    BY <1>1, <1>0, <1>5, <2>2 DEF LocksHold, MineIsWritten
  <2> QED
    BY <2>1, <2>2
<1> QED
  BY <1>7, <1>8, <1>9, <1>11, <1>12, <1>13 DEF IInv, LocksHold

(* A statement outside a batch commits its row.                            *)
LEMMA EntersAloneStep ==
    ASSUME IInv, NEW c \in Clients, pc[c] = "unique", WaitsForValues(c) = {}, ~ Refused(c),
           call[c] # "batch", rows' = [rows EXCEPT ![entry[c].key] = entry[c].row], Leave(c),
           outcome' \in {"landed", "ok"}, UNCHANGED <<ddl, tables>>
    PROVE  IInv'
<1> DEFINE k == entry[c].key
           row == entry[c].row
<1>1. /\ TypeOK /\ LocksHold /\ k \in Keys /\ row \in Rows /\ UNCHANGED uniq
      /\ mine[c] = Nothing
  BY TypesInParts, EntryIsTyped DEF IInv, Phase, ddl
<1>2. SharedTypes' /\ Grows
  BY <1>1 DEF TypeOK, SharedTypes, Grows, ddl, Contents, Rows, Stored, Outcomes
<1>3. TypeOK' /\ CacheSound' /\ \A d \in Clients : Phase(d)'
  BY <1>1, <1>2, LeaveTypes, StepTypes
<1>4. /\ \A d \in Clients : mine'[d] = mine[d]
      /\ \A d \in Clients, j \in Keys : HoldsKey(d, j)' => HoldsKey(d, j)
  BY <1>1, LeaveTypes DEF TypeOK
<1>5. \A j \in Keys : rows'[j] = IF j = k THEN row ELSE rows[j]
  BY <1>1 DEF TypeOK, Contents
<1>6. \A j \in Keys : Seen(c, j) = rows[j]
  BY <1>1 DEF Seen, Nothing
<1>7. Exclusive'
  BY <1>1, <1>4 DEF LocksHold, Exclusive
<1>8. Apart(rows, rows)'
  <2> SUFFICES ASSUME NEW g \in uniq, NEW i \in KeysOf(g.table), NEW j \in KeysOf(g.table),
                      i # j
               PROVE  Differ(g, rows'[i], rows'[j])
    BY <1>1 DEF Apart, Differ, Equal, KeysOf
  <2>1. i \in Keys /\ j \in Keys
    BY DEF KeysOf
  <2>2. CASE i = k
    BY <1>5, <1>6, <2>1, <2>2, ValuesAreFree
  <2>3. CASE j = k
    BY <1>5, <1>6, <2>1, <2>3, ValuesAreFree
  <2>4. CASE i # k /\ j # k
    <3>1. Differ(g, rows[i], rows[j])
      BY <1>1 DEF LocksHold, Apart
    <3> QED
      BY <1>5, <2>1, <2>4, <3>1
  <2> QED
    BY <2>2, <2>3, <2>4
<1>9. ASSUME NEW d \in Clients PROVE Apart(Committed(d), Committed(d))'
  <2> SUFFICES ASSUME NEW g \in uniq, NEW i \in KeysOf(g.table), NEW j \in KeysOf(g.table),
                      i # j
               PROVE  Differ(g, Committed(d)'[i], Committed(d)'[j])
    BY <1>1 DEF Apart, Differ, Equal, KeysOf
  <2>1. i \in Keys /\ j \in Keys
    BY DEF KeysOf
  <2>2. mine[d][k] = Kept
    <3>1. CASE d = c
      BY <1>1, <3>1 DEF Nothing
    <3>2. CASE d # c
      BY <1>1, <3>2 DEF LocksHold, Exclusive, HoldsKey
    <3> QED
      BY <3>1, <3>2
  <2>3. \A l \in Keys : Committed(d)'[l] = IF l = k THEN row ELSE Committed(d)[l]
    BY <1>1, <1>4, <1>5, <2>2 DEF Committed
  <2>4. \A l \in Keys : Committed(d)[l] \in {Seen(c, l), mine[d][l]}
                        /\ (d = c => Committed(d)[l] = Seen(c, l))
    BY <1>6 DEF Committed, Seen
  <2>5. CASE i = k
    BY <2>1, <2>3, <2>4, <2>5, ValuesAreFree
  <2>6. CASE j = k
    BY <2>1, <2>3, <2>4, <2>6, ValuesAreFree
  <2>7. CASE i # k /\ j # k
    <3>1. Differ(g, Committed(d)[i], Committed(d)[j])
      BY <1>1 DEF LocksHold, Apart
    <3> QED
      BY <2>1, <2>3, <2>7, <3>1
  <2> QED
    BY <2>5, <2>6, <2>7
<1>10. ASSUME NEW d \in Clients, NEW e \in Clients, d # e PROVE Apart(mine[d], mine[e])'
  BY <1>1, <1>4, <1>10 DEF LocksHold, Apart, Differ, Equal, KeysOf
<1>11. ASSUME NEW d \in Clients PROVE MineIsWritten(d)'
  BY <1>1, <1>4, NothingIsPending DEF Leave, TypeOK, LocksHold, MineIsWritten
<1> QED
  BY <1>3, <1>7, <1>8, <1>9, <1>10, <1>11 DEF IInv, LocksHold

LEMMA TakeValuesStep ==
    ASSUME IInv, NEW c \in Clients, TakeValues(c)
    PROVE  IInv'
<1>1. CASE Refused(c)
  BY <1>1, EndStep DEF TakeValues, Ends, Collision, Outcomes
<1>2. CASE ~ Refused(c) /\ call[c] = "batch"
  BY <1>2, EntersBatchStep DEF TakeValues, Enters
<1>3. CASE ~ Refused(c) /\ call[c] # "batch"
  BY <1>3, EntersAloneStep DEF TakeValues, Enters
<1> QED
  BY <1>1, <1>2, <1>3

-----------------------------------------------------------------------------
(* A transaction commits.                                                  *)

LEMMA CommitKeepsLocks ==
    ASSUME TypeOK, LocksHold, NEW c \in Clients, rows' = Committed(c),
           mine' = [mine EXCEPT ![c] = Nothing], UNCHANGED uniq,
           \A d \in Clients \ {c} : written'[d] = written[d],
           \A d \in Clients, k \in Keys : HoldsKey(d, k)' => HoldsKey(d, k)
    PROVE  LocksHold'
<1>1. Exclusive'
  BY DEF LocksHold, Exclusive
<1>2. Apart(rows, rows)'
  BY DEF LocksHold, Apart, Differ, Equal, KeysOf
<1>3. mine'[c] = Nothing /\ \A d \in Clients \ {c} : mine'[d] = mine[d]
  BY DEF TypeOK
<1>4. ASSUME NEW d \in Clients PROVE Apart(Committed(d), Committed(d))'
  <2> SUFFICES ASSUME NEW g \in uniq, NEW i \in KeysOf(g.table), NEW j \in KeysOf(g.table),
                      i # j
               PROVE  Differ(g, Committed(d)'[i], Committed(d)'[j])
    BY DEF Apart, Differ, Equal, KeysOf
  <2>1. i \in Keys /\ j \in Keys
    BY DEF KeysOf
  <2>2. Differ(g, Committed(c)[i], Committed(c)[j])
    BY DEF LocksHold, Apart
  <2>3. CASE d = c
    <3>1. \A l \in Keys : Committed(d)'[l] = Committed(c)[l]
      BY <1>3, <2>3 DEF Committed, Nothing
    <3> QED
      BY <2>1, <2>2, <3>1
  <2>4. CASE d # c
    <3>1. \A l \in Keys : Committed(d)'[l] = IF mine[d][l] = Kept THEN Committed(c)[l]
                                             ELSE mine[d][l]
      BY <1>3, <2>4 DEF Committed
    <3>2. \A l \in Keys : Committed(c)[l] = IF mine[c][l] = Kept THEN rows[l] ELSE mine[c][l]
      BY DEF Committed
    <3>3. \A l \in Keys : Committed(d)[l] = IF mine[d][l] = Kept THEN rows[l] ELSE mine[d][l]
      BY DEF Committed
    <3>4. /\ Differ(g, Committed(d)[i], Committed(d)[j])
          /\ Differ(g, mine[d][i], mine[c][j]) /\ Differ(g, mine[c][i], mine[d][j])
      BY <2>4 DEF LocksHold, Apart
    <3> QED
      BY <2>1, <2>2, <3>1, <3>2, <3>3, <3>4
  <2> QED
    BY <2>3, <2>4
<1>5. ASSUME NEW d \in Clients, NEW e \in Clients, d # e PROVE Apart(mine[d], mine[e])'
  <2>1. CASE d # c /\ e # c
    BY <1>3, <1>5, <2>1 DEF LocksHold, Apart, Differ, Equal, KeysOf
  <2>2. CASE d = c \/ e = c
    BY <1>3, <2>2 DEF Apart, Differ, Nothing, KeysOf
  <2> QED
    BY <2>1, <2>2
<1>6. ASSUME NEW d \in Clients PROVE MineIsWritten(d)'
  BY <1>3 DEF LocksHold, MineIsWritten, Nothing
<1> QED
  BY <1>1, <1>2, <1>4, <1>5, <1>6 DEF LocksHold

LEMMA CommitStep ==
    ASSUME IInv, NEW c \in Clients, rows' = Committed(c), Leave(c), outcome' = "ok",
           UNCHANGED <<ddl, tables>>
    PROVE  IInv'
<1>1. TypeOK /\ LocksHold /\ Committed(c) \in Contents
  BY CommittedIsTyped DEF IInv
<1>2. SharedTypes' /\ Grows
  BY <1>1 DEF TypeOK, SharedTypes, Grows, ddl, Outcomes
<1>3. TypeOK' /\ CacheSound' /\ \A d \in Clients : Phase(d)'
  BY <1>1, <1>2, LeaveTypes, StepTypes
<1>4. LocksHold'
  BY <1>1, LeaveTypes, CommitKeepsLocks DEF ddl, TypeOK
<1> QED
  BY <1>3, <1>4 DEF IInv

LEMMA BatchCommitStep ==
    ASSUME IInv, NEW c \in Clients, BatchCommit(c)
    PROVE  IInv'
BY CommitStep DEF BatchCommit

LEMMA DeleteCommitStep ==
    ASSUME IInv, NEW c \in Clients, DeleteCommit(c)
    PROVE  IInv'
<1>1. CASE Leave(c) /\ outcome' = "ok"
  BY <1>1, CommitStep DEF DeleteCommit
<1>2. CASE /\ pc' = [pc EXCEPT ![c] = "tables"]
           /\ call' = [call EXCEPT ![c] = "batch"]
           /\ mine' = [mine EXCEPT ![c] = Nothing]
           /\ filter' = [filter EXCEPT ![c] = NoFilter]
           /\ UNCHANGED <<want, tab, entry, doomed, written, outcome>>
  <2>1. /\ TypeOK /\ TaskFacts(c) /\ LocksHold /\ Committed(c) \in Contents
        /\ rows' = Committed(c) /\ UNCHANGED <<ddl, tables>>
        /\ pc[c] = "rows" /\ doomed[c] = {} /\ written[c] = << >>
    BY TypesInParts, CommittedIsTyped DEF IInv, DeleteCommit, Phase
  <2>2. SharedTypes' /\ Grows
    BY <1>2, <2>1 DEF TypeOK, SharedTypes, Grows, ddl
  <2>3. TaskTypes'
    BY <1>2, <2>1, NoFilterIsOne, NothingIsTyped, EmptyBatch DEF TypeOK, TaskTypes, AllCalls
  <2>4. pc'[c] = "tables" /\ call'[c] = "batch" /\ mine'[c] = Nothing
    BY <1>2, <2>1 DEF TypeOK
  <2>5. TaskFacts(c)' /\ Phase(c)'
    BY <1>2, <2>1, <2>4 DEF TaskFacts, Phase, Creating
  <2>6. \A d \in Clients \ {c} : Spared(d)
    BY <1>2, <2>1 DEF TypeOK, Spared
  <2>7. TypeOK' /\ CacheSound' /\ \A d \in Clients : Phase(d)'
    BY <2>1, <2>2, <2>3, <2>5, <2>6, StepTypes
  <2>8. ASSUME NEW d \in Clients, NEW k \in Keys, HoldsKey(d, k)' PROVE HoldsKey(d, k)
    <3>1. CASE d = c
      BY <2>4, <2>8, <3>1 DEF HoldsKey, Nothing
    <3>2. CASE d # c
      BY <1>2, <2>1, <2>8, <3>2 DEF HoldsKey, TypeOK
    <3> QED
      BY <3>1, <3>2
  <2>9. LocksHold'
    BY <1>2, <2>1, <2>8, CommitKeepsLocks DEF ddl
  <2> QED
    BY <2>7, <2>9 DEF IInv
<1> QED
  BY <1>1, <1>2 DEF DeleteCommit

-----------------------------------------------------------------------------
(* A process stops.                                                        *)

LEMMA RestartStep ==
    ASSUME IInv, NEW p \in Procs, Restart(p)
    PROVE  IInv'
<1>1. TypeOK /\ LocksHold /\ UNCHANGED <<ddl, rows, outcome>>
  BY DEF IInv, Restart
<1>2. SharedTypes' /\ Grows
  BY <1>1 DEF Restart, TypeOK, SharedTypes, Grows, ddl
<1>3. TaskTypes'
  BY <1>1, NoFilterIsOne, NothingIsTyped, EmptyBatch DEF Restart, TypeOK, TaskTypes
<1>4. ASSUME NEW d \in Clients, ProcOf[d] # p PROVE Spared(d) /\ pc'[d] = pc[d]
  BY <1>4 DEF Restart, Spared
<1>5. ASSUME NEW d \in Clients, ProcOf[d] = p
      PROVE  /\ pc'[d] = "idle" /\ call'[d] = "none" /\ entry'[d] = NoEntry
             /\ mine'[d] = Nothing /\ doomed'[d] = {} /\ written'[d] = << >>
  BY <1>5 DEF Restart
<1>6. ASSUME NEW d \in Clients PROVE TaskFacts(d)' /\ Phase(d)'
  <2>1. CASE ProcOf[d] # p
    BY <1>1, <1>2, <1>3, <1>4, <2>1, SparedFacts DEF IInv
  <2>2. CASE ProcOf[d] = p
    BY <1>5, <2>2 DEF TaskFacts, Phase, Creating
  <2> QED
    BY <2>1, <2>2
<1>7. TypeOK'
  BY <1>2, <1>3, <1>6, TypesInParts DEF TypeOK, SharedTypes, TaskTypes, TaskFacts
<1>8. CacheSound'
  <2>1. \A q \in Procs : tables'[q] \subseteq tables[q]
    BY <1>1 DEF Restart, TypeOK
  <2> QED
    BY <1>1, <2>1 DEF IInv, CacheSound, ddl
<1>9. Calm
  <2>1. ASSUME NEW d \in Clients
        PROVE  (mine'[d] = mine[d] /\ written'[d] = written[d]) \/ mine'[d] = Nothing
    BY <1>4, <1>5 DEF Spared
  <2>2. ASSUME NEW d \in Clients, NEW k \in Keys, HoldsKey(d, k)' PROVE HoldsKey(d, k)
    <3>1. CASE ProcOf[d] # p
      BY <1>4, <2>2, <3>1 DEF Spared, HoldsKey
    <3>2. CASE ProcOf[d] = p
      BY <1>5, <2>2, <3>2 DEF HoldsKey, Nothing
    <3> QED
      BY <3>1, <3>2
  <2> QED
    BY <1>1, <2>1, <2>2 DEF Calm, ddl
<1>10. LocksHold'
  BY <1>1, <1>3, <1>9, CalmKeepsLocks
<1> QED
  BY <1>6, <1>7, <1>8, <1>10 DEF IInv

-----------------------------------------------------------------------------
(* The invariant.                                                          *)

LEMMA InitHolds ==
    ASSUME InitUpgraded
    PROVE  IInv
<1>1. /\ \A c \in Clients : pc[c] = "idle" /\ mine[c] = Nothing
      /\ \A p \in Procs : tables[p] = {}
  BY DEF InitUpgraded, Opened
<1>2. SharedTypes
  BY DEF InitUpgraded, Opened, SharedTypes, Outcomes
<1>3. TaskTypes
  BY NoFilterIsOne, NothingIsTyped, EmptyBatch DEF InitUpgraded, Opened, TaskTypes
<1>4. \A c \in Clients : TaskFacts(c) /\ Phase(c)
  BY <1>1 DEF InitUpgraded, Opened, TaskFacts, Phase, Creating, Writing
<1>5. TypeOK
  BY <1>2, <1>3, <1>4, TypesInParts
<1>6. CacheSound
  BY <1>1 DEF CacheSound
<1>7. Exclusive
  BY <1>1, NothingIsPending DEF Exclusive, HoldsKey
<1>8. Apart(rows, rows)
  BY DEF InitUpgraded, HasDuplicates, Apart, Differ, Present, KeysOf
<1>9. \A c \in Clients, k \in Keys : mine[c][k] = Kept /\ Committed(c)[k] = rows[k]
  BY <1>1, NothingIsPending
<1>10. \A c \in Clients : Apart(Committed(c), Committed(c))
  BY <1>8, <1>9 DEF Apart, Differ, Equal, KeysOf
<1>11. \A c, d \in Clients : Apart(mine[c], mine[d])
  BY <1>9 DEF Apart, Differ, KeysOf
<1>12. \A c \in Clients : MineIsWritten(c)
  BY <1>9 DEF MineIsWritten
<1> QED
  BY <1>4, <1>5, <1>6, <1>7, <1>8, <1>10, <1>11, <1>12 DEF IInv, LocksHold

LEMMA RunningStep ==
    ASSUME IInv, NEW c \in Clients, Running(c)
    PROVE  IInv'
BY ReadStep, TakeKeyStep, TakeValuesStep, BatchBeginStep, BatchCommitStep, DeleteCommitStep,
   DeadlockStep, WriteStep, BatchEntryStep, WriteGuardedStep, DeleteStep, DeleteRowStep,
   DeleteWhereStep DEF Running

LEMMA StutterStep ==
    ASSUME IInv, UNCHANGED vars
    PROVE  IInv'
<1>1. TypeOK' /\ CacheSound' /\ \A c \in Clients : Phase(c)'
  BY DEF IInv, vars, TypeOK, CacheSound, Phase
<1>2. Calm
  BY DEF vars, Calm, HoldsKey
<1>3. TaskTypes'
  BY <1>1, TypesInParts DEF TypeOK, TaskTypes
<1>4. LocksHold'
  BY <1>2, <1>3, CalmKeepsLocks DEF IInv
<1> QED
  BY <1>1, <1>4 DEF IInv

LEMMA NextStep ==
    ASSUME IInv, [Next]_vars
    PROVE  IInv'
<1>1. CASE \E c \in Clients : Arrive(c) \/ Step(c) \/ Fault(c) \/ Dropped(c)
  <2>1. PICK c \in Clients : Arrive(c) \/ Step(c) \/ Fault(c) \/ Dropped(c)
    BY <1>1
  <2> QED
    BY <2>1, StartStep, EnsuringStep, RunningStep, FaultStep, DroppedStep DEF Arrive, Step
<1>2. CASE \E p \in Procs : Restart(p)
  BY <1>2, RestartStep
<1>3. CASE UNCHANGED vars
  BY <1>3, StutterStep
<1> QED
  BY <1>1, <1>2, <1>3 DEF Next

(***************************************************************************)
(* From any database an older version left, the invariant holds.           *)
(***************************************************************************)
THEOREM PostgresInvariant == SpecUpgraded => []IInv
BY InitHolds, NextStep, PTL DEF SpecUpgraded

(* A new database is one of them.                                          *)
LEMMA NewIsUpgraded == Spec => SpecUpgraded
BY DEF Spec, SpecUpgraded, Init

(***************************************************************************)
(* Every variable keeps its type.                                          *)
(***************************************************************************)
THEOREM PostgresTypes == (Spec => []TypeOK) /\ (SpecUpgraded => []TypeOK)
<1>1. IInv => TypeOK
  BY DEF IInv
<1> QED
  BY <1>1, PostgresInvariant, NewIsUpgraded, PTL

(***************************************************************************)
(* A table that a process remembers has its columns and every UNIQUE       *)
(* index, whoever raced it through the DDL and wherever that stopped.      *)
(***************************************************************************)
THEOREM PostgresCacheSound == (Spec => []CacheSound) /\ (SpecUpgraded => []CacheSound)
<1>1. IInv => CacheSound
  BY DEF IInv
<1> QED
  BY <1>1, PostgresInvariant, NewIsUpgraded, PTL

(***************************************************************************)
(* No two committed rows of a remembered table agree on a group, however   *)
(* many transactions check and write at the same time.                     *)
(***************************************************************************)
THEOREM PostgresUniqueRows ==
    (Spec => []RememberedTablesAreUnique) /\ (SpecUpgraded => []RememberedTablesAreUnique)
<1>1. ASSUME IInv PROVE RememberedTablesAreUnique
  <2> SUFFICES ASSUME NEW p \in Procs, NEW t \in tables[p], NEW g \in GroupsOf(t)
               PROVE  ~ HasDuplicates(g)
    BY DEF RememberedTablesAreUnique
  <2>1. g \in uniq
    BY <1>1 DEF IInv, CacheSound
  <2>2. \A k, j \in KeysOf(g.table) : k # j => Differ(g, rows[k], rows[j])
    BY <1>1, <2>1 DEF IInv, LocksHold, Apart
  <2>3. \A k \in Keys : rows[k] # Kept
    BY <1>1, PostgresAssumption DEF IInv, TypeOK, Contents
  <2> QED
    BY <2>2, <2>3 DEF HasDuplicates, Present, KeysOf, Differ
<1> QED
  BY <1>1, PostgresInvariant, NewIsUpgraded, PTL

-----------------------------------------------------------------------------
(* Deletes.                                                                *)

(* What a delete has taken is still there, and still matches: nobody else  *)
(* may touch it.                                                           *)
TakenRowsMatch ==
    \A c \in Clients : pc[c] = "rows" =>
        \A k \in Keys : mine[c][k] # Kept => rows[k] # NoRow /\ Matches(rows[k], filter[c])

(* A step of another task, or one that starts or ends a delete of d.       *)
Untouched(d) ==
    pc'[d] = "rows" /\ mine'[d] # Nothing =>
        /\ pc[d] = "rows" /\ mine'[d] = mine[d] /\ filter'[d] = filter[d]
        /\ \A k \in Keys : mine[d][k] # Kept => rows'[k] = rows[k]

(* A task that is in its delete stays there unless it takes the step       *)
(* itself, and no other step takes a row.                                  *)
Stays(d) == pc[d] = "rows" /\ pc'[d] # "rows" => rows' = rows

LEMMA LeaveTouchesNothing ==
    ASSUME TypeOK, NEW c \in Clients, Leave(c), rows' = rows
    PROVE  \A d \in Clients : Untouched(d) /\ Stays(d)
BY DEF Leave, TypeOK, Untouched, Stays

LEMMA GotoTouchesNothing ==
    ASSUME TypeOK, NEW c \in Clients, NEW at, at # "rows", Goto(c, at), rows' = rows
    PROVE  \A d \in Clients : Untouched(d) /\ Stays(d)
BY DEF Goto, TypeOK, Untouched, Stays

LEMMA CreatesTouchesNothing ==
    ASSUME TypeOK, NEW c \in Clients, NEW at, at # "rows", Creates(c, at), rows' = rows
    PROVE  \A d \in Clients : Untouched(d) /\ Stays(d)
BY DEF Creates, Untouched, Stays

LEMMA EnsuringTouchesNothing ==
    ASSUME TypeOK, NEW c \in Clients, Ensuring(c)
    PROVE  \A d \in Clients : Untouched(d) /\ Stays(d)
<1>1. CASE NextTable(c)
  BY <1>1, GotoTouchesNothing DEF NextTable, TypeOK, Untouched, Stays
<1>2. CASE Raced(c)
  BY <1>2, LeaveTouchesNothing DEF Raced, Ends
<1>3. CASE CreateTable(c)
  BY <1>3, GotoTouchesNothing, CreatesTouchesNothing DEF CreateTable
<1>4. CASE AddColumns(c)
  BY <1>4, GotoTouchesNothing DEF AddColumns
<1>5. CASE CreateIndexes(c)
  BY <1>5, LeaveTouchesNothing, GotoTouchesNothing, CreatesTouchesNothing
     DEF CreateIndexes, Ends
<1>6. CASE CreateUnique(c)
  BY <1>6, LeaveTouchesNothing, CreatesTouchesNothing DEF CreateUnique, Ends
<1>7. CASE Ensured(c)
  BY <1>7 DEF Ensured, TypeOK, Untouched, Stays
<1> QED
  BY <1>1, <1>2, <1>3, <1>4, <1>5, <1>6, <1>7 DEF Ensuring

LEMMA SubmitsTouchesNothing ==
    ASSUME TypeOK, NEW c \in Clients, NEW k, NEW row, Submits(c, k, row), rows' = rows
    PROVE  \A d \in Clients : Untouched(d) /\ Stays(d)
BY DEF Submits, TypeOK, Untouched, Stays

LEMMA DeletesTouchesNothing ==
    ASSUME TypeOK, NEW c \in Clients, pc[c] = "run", NEW ks, NEW filters, Deletes(c, ks, filters)
    PROVE  \A d \in Clients : Untouched(d) /\ Stays(d)
<1>1. mine[c] = Nothing
  BY DEF TypeOK, Writing
<1> QED
  BY <1>1 DEF Deletes, TypeOK, Untouched, Stays

(* Rows change only where the task that changes them holds the key.        *)
LEMMA WriterTouchesItsOwn ==
    ASSUME IInv, NEW c \in Clients, Leave(c),
           \A k \in Keys : rows'[k] # rows[k] => HoldsKey(c, k)
    PROVE  \A d \in Clients : Untouched(d) /\ (d # c => Stays(d))
<1>1. TypeOK /\ Exclusive
  BY DEF IInv, LocksHold
<1>2. ASSUME NEW d \in Clients, d # c
      PROVE  Untouched(d) /\ Stays(d)
  <2>1. pc'[d] = pc[d] /\ mine'[d] = mine[d] /\ filter'[d] = filter[d]
    BY <1>1, <1>2 DEF Leave, TypeOK
  <2>2. \A k \in Keys : mine[d][k] # Kept => rows'[k] = rows[k]
    BY <1>1, <1>2 DEF Exclusive, HoldsKey
  <2> QED
    BY <2>1, <2>2 DEF Untouched, Stays
<1>3. Untouched(c)
  BY <1>1 DEF Leave, TypeOK, Untouched
<1> QED
  BY <1>2, <1>3

LEMMA RunningTouchesItsOwn ==
    ASSUME IInv, NEW c \in Clients, Running(c)
    PROVE  \/ \A d \in Clients : Untouched(d) /\ Stays(d)
           \/ DeleteCommit(c) /\ \A d \in Clients : Untouched(d) /\ (d # c => Stays(d))
           \/ \E k \in Keys : DeleteRow(c, k)
<1>1. TypeOK
  BY DEF IInv
<1>2. CASE Read(c) \/ DeadlockAborted(c)
  BY <1>1, <1>2, LeaveTouchesNothing DEF Read, DeadlockAborted, Ends
<1>3. CASE TakeKey(c) \/ BatchBegin(c)
  BY <1>1, <1>3, LeaveTouchesNothing, GotoTouchesNothing DEF TakeKey, BatchBegin, Ends
<1>4. CASE TakeValues(c)
  <2>1. CASE Refused(c)
    BY <1>1, <1>4, <2>1, LeaveTouchesNothing DEF TakeValues, Ends
  <2>2. CASE ~ Refused(c) /\ call[c] = "batch"
    BY <1>1, <1>4, <2>2 DEF TakeValues, Enters, WithEntry, TypeOK, Untouched, Stays
  <2>3. CASE ~ Refused(c) /\ call[c] # "batch"
    <3>1. /\ rows' = [rows EXCEPT ![entry[c].key] = entry[c].row] /\ Leave(c)
          /\ pc[c] = "unique"
      BY <1>4, <2>3 DEF TakeValues, Enters
    <3>2. \A k \in Keys : rows'[k] # rows[k] => HoldsKey(c, k)
      BY <1>1, <3>1 DEF TypeOK, Contents, HoldsKey
    <3> QED
      BY <1>1, <3>1, <3>2, WriterTouchesItsOwn DEF Stays
  <2> QED
    BY <2>1, <2>2, <2>3
<1>5. ASSUME rows' = Committed(c) PROVE \A k \in Keys : rows'[k] # rows[k] => HoldsKey(c, k)
  BY <1>5 DEF Committed, HoldsKey
<1>6. CASE BatchCommit(c)
  BY <1>5, <1>6, WriterTouchesItsOwn DEF BatchCommit, Stays
<1>7. CASE DeleteCommit(c)
  <2>1. CASE call[c] = "replace"
    <3>1. \A d \in Clients : d # c =>
            /\ pc'[d] = pc[d] /\ mine'[d] = mine[d] /\ filter'[d] = filter[d]
            /\ \A k \in Keys : mine[d][k] # Kept => rows'[k] = rows[k]
      <4>1. Exclusive /\ \A k \in Keys : rows'[k] # rows[k] => HoldsKey(c, k)
        BY <1>5, <1>7 DEF IInv, LocksHold, DeleteCommit
      <4>2. \A d \in Clients : d # c =>
                pc'[d] = pc[d] /\ mine'[d] = mine[d] /\ filter'[d] = filter[d]
        BY <1>1, <1>7, <2>1 DEF DeleteCommit, TypeOK
      <4> QED
        BY <4>1, <4>2 DEF Exclusive, HoldsKey
    <3>2. pc'[c] = "tables"
      BY <1>1, <1>7, <2>1 DEF DeleteCommit, TypeOK
    <3> QED
      BY <1>7, <3>1, <3>2 DEF Untouched, Stays
  <2>2. CASE call[c] # "replace"
    BY <1>5, <1>7, <2>2, WriterTouchesItsOwn DEF DeleteCommit
  <2> QED
    BY <2>1, <2>2
<1>8. ASSUME NEW k \in Keys, NEW row \in Rows, Write(c, k, row) \/ BatchEntry(c, k, row)
      PROVE  \A d \in Clients : Untouched(d) /\ Stays(d)
  BY <1>1, <1>8, SubmitsTouchesNothing DEF Write, BatchEntry
<1>9. ASSUME NEW k \in Keys, NEW row \in Rows, NEW p \in EqFilters, NEW col \in Cols,
             WriteGuarded(c, k, row, p, col)
      PROVE  \A d \in Clients : Untouched(d) /\ Stays(d)
  BY <1>1, <1>9, SubmitsTouchesNothing, LeaveTouchesNothing DEF WriteGuarded, Ends
<1>10. ASSUME NEW k \in Keys, Delete(c, k)
       PROVE  \A d \in Clients : Untouched(d) /\ Stays(d)
  BY <1>1, <1>10, DeletesTouchesNothing DEF Delete
<1>11. ASSUME NEW t \in Tables, NEW f \in Filters, DeleteWhere(c, t, f)
       PROVE  \A d \in Clients : Untouched(d) /\ Stays(d)
  BY <1>1, <1>11, DeletesTouchesNothing DEF DeleteWhere
<1> QED
  BY <1>2, <1>3, <1>4, <1>6, <1>7, <1>8, <1>9, <1>10, <1>11 DEF Running

LEMMA UntouchedRowsMatch ==
    ASSUME TakenRowsMatch, \A d \in Clients : Untouched(d)
    PROVE  TakenRowsMatch'
<1> SUFFICES ASSUME NEW c \in Clients, pc'[c] = "rows", NEW k \in Keys, mine'[c][k] # Kept
             PROVE  rows'[k] # NoRow /\ Matches(rows'[k], filter'[c])
  BY DEF TakenRowsMatch, Matches
<1>1. mine'[c] # Nothing
  BY DEF Nothing
<1>2. pc[c] = "rows" /\ mine'[c] = mine[c] /\ filter'[c] = filter[c] /\ rows'[k] = rows[k]
  BY <1>1 DEF Untouched
<1> QED
  BY <1>2 DEF TakenRowsMatch

(* The row a delete takes is looked at when its lock is held.              *)
LEMMA DeleteRowTakesMatches ==
    ASSUME IInv, TakenRowsMatch, NEW c \in Clients, NEW k \in Keys, DeleteRow(c, k)
    PROVE  TakenRowsMatch' /\ \A d \in Clients : Stays(d)
<1>1. TypeOK /\ UNCHANGED <<rows, pc, filter>>
  BY DEF IInv, DeleteRow
<1>2. ASSUME NEW d \in Clients, pc[d] = "rows", NEW j \in Keys, mine'[d][j] # Kept
      PROVE  rows[j] # NoRow /\ Matches(rows[j], filter[d])
  <2>1. CASE mine'[d][j] = mine[d][j]
    BY <1>2, <2>1 DEF TakenRowsMatch
  <2>2. CASE mine'[d][j] # mine[d][j]
    <3>1. d = c /\ j = k /\ rows[k] # NoRow /\ Matches(rows[k], filter[c])
      BY <1>1, <2>2 DEF DeleteRow, TypeOK
    <3> QED
      BY <3>1
  <2> QED
    BY <2>1, <2>2
<1> QED
  BY <1>1, <1>2 DEF TakenRowsMatch, Matches, Stays

LEMMA MatchStep ==
    ASSUME IInv, TakenRowsMatch, [Next]_vars
    PROVE  /\ TakenRowsMatch'
           /\ \A d \in Clients : Stays(d) \/ DeleteCommit(d)
<1>1. TypeOK
  BY DEF IInv
<1>2. ASSUME NEW c \in Clients, Arrive(c) \/ Ensuring(c) \/ Fault(c) \/ Dropped(c)
      PROVE  \A d \in Clients : Untouched(d) /\ Stays(d)
  <2>1. CASE Arrive(c)
    BY <1>1, <2>1 DEF Arrive, Start, TypeOK, Untouched, Stays
  <2>2. CASE Ensuring(c)
    BY <1>1, <2>2, EnsuringTouchesNothing
  <2>3. CASE Fault(c)
    BY <1>1, <2>3, LeaveTouchesNothing, GotoTouchesNothing DEF Fault, Ends
  <2>4. CASE Dropped(c)
    BY <1>1, <2>4, LeaveTouchesNothing DEF Dropped
  <2> QED
    BY <1>2, <2>1, <2>2, <2>3, <2>4
<1>3. ASSUME NEW c \in Clients, Running(c)
      PROVE  TakenRowsMatch' /\ \A d \in Clients : Stays(d) \/ DeleteCommit(d)
  BY <1>3, RunningTouchesItsOwn, DeleteRowTakesMatches, UntouchedRowsMatch
<1>4. ASSUME NEW p \in Procs, Restart(p) PROVE \A d \in Clients : Untouched(d) /\ Stays(d)
  BY <1>4 DEF Restart, Untouched, Stays
<1>5. CASE UNCHANGED vars
  BY <1>5 DEF vars, TakenRowsMatch, Matches, Stays
<1> QED
  BY <1>2, <1>3, <1>4, <1>5, UntouchedRowsMatch DEF Next, Step

(***************************************************************************)
(* A delete takes only rows that match its filters when it commits,        *)
(* however many writers changed them after it had chosen them.             *)
(***************************************************************************)
THEOREM PostgresDeletesMatch ==
    (Spec => DeletesOnlyWhatMatches) /\ (SpecUpgraded => DeletesOnlyWhatMatches)
<1> DEFINE Kind == \A c \in Clients : pc[c] = "rows" /\ pc'[c] # "rows" =>
                \A k \in Keys : rows[k] # NoRow /\ rows'[k] = NoRow => Matches(rows[k], filter[c])
<1>1. InitUpgraded => TakenRowsMatch
  BY DEF InitUpgraded, Opened, TakenRowsMatch
<1>2. IInv /\ TakenRowsMatch /\ [Next]_vars => TakenRowsMatch'
  BY MatchStep
<1>3. ASSUME IInv, TakenRowsMatch, [Next]_vars PROVE [Kind]_vars
  <2> SUFFICES ASSUME NEW c \in Clients, pc[c] = "rows", pc'[c] # "rows",
                      NEW k \in Keys, rows[k] # NoRow, rows'[k] = NoRow
               PROVE  Matches(rows[k], filter[c])
    OBVIOUS
  <2>1. rows' = Committed(c)
    BY <1>3, MatchStep DEF Stays, DeleteCommit
  <2>2. mine[c][k] # Kept
    BY <2>1 DEF Committed
  <2> QED
    BY <1>3, <2>2 DEF TakenRowsMatch
<1>4. SpecUpgraded => [][Kind]_vars
  BY <1>1, <1>2, <1>3, PostgresInvariant, PTL DEF SpecUpgraded
<1> QED
  BY <1>4, NewIsUpgraded, PTL DEF DeletesOnlyWhatMatches
=============================================================================
