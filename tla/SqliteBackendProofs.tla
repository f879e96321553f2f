------------------------ MODULE SqliteBackendProofs ------------------------
(***************************************************************************)
(* What holds of SqliteBackend for any number of clients, connections,     *)
(* tables, groups and rows, provided that no two groups share an index     *)
(* name (section 7 of the README says what is lost without it).  On a new  *)
(* database, moreover, it is a UniqueTable: the second half.               *)
(***************************************************************************)
EXTENDS SqliteBackend, SchemaProofs

(* The proviso.                                                            *)
SchemaIsNamed == \A g, h \in Groups : IndexName[g] = IndexName[h] => g = h

-----------------------------------------------------------------------------
(* The inductive invariant.                                                *)

(* e has every table, column and index of d.                               *)
Grows(d, e) == d.made \subseteq e.made /\ d.full \subseteq e.full /\ d.uniq \subseteq e.uniq

(* No two rows agree on the columns of an index that is there.             *)
Honest(d) == \A g \in d.uniq : ~ HasDuplicates(d, g)

Indexed == Honest(db) /\ (writer # Nobody => Honest(work))

(* An open transaction takes nothing of the schema away.                   *)
Ahead == writer # Nobody => Grows(db, work)

Preparing == {"create", "columns", "indexes", "uniques"}
InBody == {"body", "bare"}
AtWork == {"run", "entries"}

(* What a client knows at the point where it is.                           *)
Phase(c) ==
    /\ pc[c] = "idle" <=> call[c] = "none"
    /\ pc[c] \in InBody \cup {"begin"} => call[c] = "transaction"
    /\ pc[c] = "tables" => call[c] # "transaction"
    /\ call[c] = "transaction" /\ pc[c] # "begin" => writer = c
    /\ writer = c => pc[c] = "entries" \/ (call[c] = "transaction" /\ pc[c] # "begin")
    /\ pc[c] \in Preparing =>
            tab[c] \in Tables /\ (call[c] = "transaction" => want[c] = {tab[c]})
    /\ pc[c] \in Preparing \ {"create"} => tab[c] \in Seen(c).made
    /\ pc[c] \in {"indexes", "uniques"} => tab[c] \in Seen(c).full \cup lost
    /\ pc[c] \in AtWork => want[c] \subseteq Seen(c).made \cap (Seen(c).full \cup lost)

IInv ==
    /\ TypeOK
    /\ Indexed
    /\ Ahead
    /\ CacheSound
    /\ \A c \in Clients : Phase(c)

-----------------------------------------------------------------------------
(* Databases.                                                              *)

(* The database a client sees is one, and its indexes hold.                *)
LEMMA SeenIsHonest ==
    ASSUME IInv, NEW c \in Clients
    PROVE  Seen(c) \in Databases /\ Honest(Seen(c)) /\ Grows(Seen(c), Seen(c))
BY SqliteAssumption DEF IInv, TypeOK, Indexed, Seen, Grows

(* Tables, columns and indexes are added one at a time.                    *)
LEMMA SchemaGrows ==
    ASSUME NEW d \in Databases, Honest(d), NEW t \in Tables
    PROVE  /\ WithTable(d, t) \in Databases /\ Honest(WithTable(d, t))
           /\ Grows(d, WithTable(d, t)) /\ t \in WithTable(d, t).made
           /\ WithColumns(d, t) \in Databases /\ Honest(WithColumns(d, t))
           /\ Grows(d, WithColumns(d, t)) /\ t \in WithColumns(d, t).full
<1>1. /\ WithTable(d, t).rows = d.rows /\ WithTable(d, t).uniq = d.uniq
      /\ WithTable(d, t).made = d.made \cup {t} /\ WithTable(d, t).full = d.full \cup {t}
      /\ WithTable(d, t) \in Databases
  BY DEF Databases, WithTable
<1>2. /\ WithColumns(d, t).rows = d.rows /\ WithColumns(d, t).uniq = d.uniq
      /\ WithColumns(d, t).made = d.made /\ WithColumns(d, t).full = d.full \cup {t}
      /\ WithColumns(d, t) \in Databases
  BY DEF Databases, WithColumns
<1> QED
  BY <1>1, <1>2 DEF Honest, Grows, HasDuplicates, Existing, Equal

(* An index can be added over rows that do not collide.                    *)
LEMMA IndexGrows ==
    ASSUME NEW d \in Databases, Honest(d), NEW g \in Groups, ~ HasDuplicates(d, g)
    PROVE  /\ WithIndex(d, g) \in Databases /\ Honest(WithIndex(d, g))
           /\ Grows(d, WithIndex(d, g))
<1>1. /\ WithIndex(d, g).rows = d.rows /\ WithIndex(d, g).uniq = d.uniq \cup {g}
      /\ WithIndex(d, g).made = d.made /\ WithIndex(d, g).full = d.full
      /\ WithIndex(d, g) \in Databases
  BY DEF Databases, WithIndex
<1> QED
  BY <1>1 DEF Honest, Grows, HasDuplicates, Existing

(* A row that no index refuses leaves every index honest.                  *)
LEMMA RowKeepsHonest ==
    ASSUME NEW d \in Databases, Honest(d), NEW k \in Keys, NEW row \in Rows,
           TableOf[k] \in d.full, ~ Refused(d, k, row)
    PROVE  /\ WithRow(d, k, row) \in Databases /\ Honest(WithRow(d, k, row))
           /\ Grows(d, WithRow(d, k, row))
<1> DEFINE e == WithRow(d, k, row)
<1>1. row \in Stored
  BY DEF Rows, Stored
<1>2. e.rows = [d.rows EXCEPT ![k] = row] /\ e.made = d.made /\ e.full = d.full
      /\ e.uniq = d.uniq /\ e = [d EXCEPT !.rows = [d.rows EXCEPT ![k] = row]]
  BY DEF Databases, WithRow
<1>3. e.rows \in Contents
  BY <1>1, <1>2 DEF Databases, Contents
<1>4. e \in Databases /\ Grows(d, e)
  BY <1>2, <1>3 DEF Databases, Grows
<1>5. Honest(e)
  <2> SUFFICES ASSUME NEW g \in d.uniq, HasDuplicates(e, g) PROVE FALSE
    BY <1>2 DEF Honest
  <2>1. PICK i \in Present(e.rows), j \in Present(e.rows) :
            /\ i # j /\ TableOf[i] = g.table /\ TableOf[j] = g.table
            /\ Equal(Existing(d, g), e.rows[i], e.rows[j])
    BY <1>2 DEF HasDuplicates, Existing
  <2>2. i \in Keys /\ j \in Keys
    BY DEF Present
  <2>3. d.rows \in Contents
    BY DEF Databases
  <2>4. CASE i = k
    <3>1. e.rows[i] = row /\ e.rows[j] = d.rows[j] /\ j \in Present(d.rows) \ {k}
      BY <1>2, <2>1, <2>2, <2>3, <2>4 DEF Present, Contents
    <3>2. Equal(g.cols, row, d.rows[j])
      BY <2>1, <2>4, <3>1 DEF Existing
    <3> QED
      BY <2>1, <2>4, <3>1, <3>2 DEF Refused
  <2>5. CASE j = k
    <3>1. e.rows[j] = row /\ e.rows[i] = d.rows[i] /\ i \in Present(d.rows) \ {k}
      BY <1>2, <2>1, <2>2, <2>3, <2>5 DEF Present, Contents
    <3>2. Equal(g.cols, row, d.rows[i])
      BY <2>1, <2>5, <3>1 DEF Equal, Existing
    <3> QED
      BY <2>1, <2>5, <3>1, <3>2 DEF Refused
  <2>6. CASE i # k /\ j # k
    <3>1. e.rows[i] = d.rows[i] /\ e.rows[j] = d.rows[j]
      BY <1>2, <2>2, <2>3, <2>6 DEF Contents
    <3>2. i \in Present(d.rows) /\ j \in Present(d.rows)
      BY <2>1, <2>2, <3>1 DEF Present
    <3> QED
      BY <2>1, <3>1, <3>2 DEF Honest, HasDuplicates
  <2> QED
    BY <2>4, <2>5, <2>6
<1> QED
  BY <1>4, <1>5

(* A delete leaves every index honest.                                     *)
LEMMA DeleteKeepsHonest ==
    ASSUME NEW d \in Databases, Honest(d), NEW ks
    PROVE  /\ WithoutRows(d, ks) \in Databases /\ Honest(WithoutRows(d, ks))
           /\ Grows(d, WithoutRows(d, ks))
<1> DEFINE e == WithoutRows(d, ks)
<1>1. /\ e.rows = [k \in Keys |-> IF k \in ks THEN NoRow ELSE d.rows[k]]
      /\ e.made = d.made /\ e.full = d.full /\ e.uniq = d.uniq
      /\ e = [d EXCEPT !.rows = e.rows]
  BY DEF Databases, WithoutRows
<1>2. e.rows \in Contents
  BY <1>1 DEF Databases, Contents
<1>3. e \in Databases /\ Grows(d, e)
  BY <1>1, <1>2 DEF Databases, Grows
<1>4. \A k \in Present(e.rows) : k \in Present(d.rows) /\ e.rows[k] = d.rows[k]
  BY <1>1 DEF Present
<1>5. Honest(e)
  BY <1>1, <1>4 DEF Honest, HasDuplicates, Existing
<1> QED
  BY <1>3, <1>5

(* What is ready stays ready as the schema grows.                          *)
LEMMA ReadyGrows ==
    ASSUME NEW t, Ready(db, t), Grows(db, db'), lost \subseteq lost'
    PROVE  Ready(db, t)'
BY DEF Grows, Ready

-----------------------------------------------------------------------------
(* One step of one client.                                                 *)

(* The step moves no other client.                                         *)
Alone(c) ==
    \A o \in Clients \ {c} :
        pc'[o] = pc[o] /\ call'[o] = call[o] /\ want'[o] = want[o] /\ tab'[o] = tab[o]

(* It leaves a cache of tables, and no lost ADD COLUMN is forgotten.       *)
Remembers == tables' \subseteq Tables /\ lost' \subseteq Tables /\ lost \subseteq lost'

(* What the control state and the cache look like.                         *)
Control ==
    /\ tables \subseteq Tables /\ lost \subseteq Tables
    /\ pc \in [Clients -> {"idle", "tables", "create", "columns", "indexes", "uniques",
                           "run", "begin", "body", "bare", "entries"}]
    /\ call \in [Clients -> {"none", "read", "write", "replace", "batch", "transaction"}]
    /\ want \in [Clients -> SUBSET Tables]
    /\ tab \in [Clients -> Tables \cup {NoTable}]
    /\ count \in [Clients -> Nat]
    /\ outcome \in Outcomes

(* What a step of c does to the databases: nothing; it puts e in place of  *)
(* what c sees, maybe in a transaction that it opens; or it ends its       *)
(* transaction.                                                            *)
Moves(c, e) ==
    \/ UNCHANGED <<db, work, writer>>
    \/ Store(c, e) /\ writer' = writer /\ writer \in {c, Nobody}
    \/ db' = db /\ work' = e /\ writer' = c /\ writer \in {c, Nobody}
    \/ (Committed(c) \/ Undone(c)) /\ pc'[c] = "idle"

(* No client but c loses anything it sees, and c only with its call.       *)
LEMMA SeenGrows ==
    ASSUME IInv, NEW c \in Clients, NEW e \in Databases, Grows(Seen(c), e), Honest(e),
           Moves(c, e)
    PROVE  /\ db' \in Databases /\ work' \in Databases
           /\ writer' \in Clients \cup {Nobody}
           /\ Indexed' /\ Ahead'
           /\ Grows(db, db')
           /\ \A o \in Clients : Grows(Seen(o), Seen(o)') \/ (o = c /\ pc'[c] = "idle")
           /\ \A o \in Clients \ {c} : writer = o <=> writer' = o
           /\ \A o \in Clients : writer = o /\ writer' = o => db' = db
<1> USE SqliteAssumption DEF IInv, TypeOK, Indexed, Ahead, Seen, Grows
<1>1. NoDatabase \in Databases /\ Honest(NoDatabase)
  <2>1. [k \in Keys |-> NoRow] \in Contents
    BY DEF Contents
  <2> QED
    BY <2>1 DEF NoDatabase, Databases, Honest
<1>2. CASE UNCHANGED <<db, work, writer>>
  BY <1>2
<1>3. CASE Store(c, e) /\ writer' = writer /\ writer \in {c, Nobody}
  <2>1. CASE writer = c
    BY <1>3, <2>1 DEF Store
  <2>2. CASE writer = Nobody
    BY <1>3, <2>2 DEF Store
  <2> QED
    BY <1>3, <2>1, <2>2
<1>4. CASE db' = db /\ work' = e /\ writer' = c /\ writer \in {c, Nobody}
  <2>1. CASE writer = c
    BY <1>4, <2>1
  <2>2. CASE writer = Nobody
    BY <1>4, <2>2
  <2> QED
    BY <1>4, <2>1, <2>2
<1>5. CASE Committed(c) /\ pc'[c] = "idle"
  BY <1>1, <1>2, <1>5 DEF Committed
<1>6. CASE Undone(c) /\ pc'[c] = "idle"
  BY <1>1, <1>2, <1>6 DEF Undone
<1> QED
  BY <1>2, <1>3, <1>4, <1>5, <1>6 DEF Moves

(* A client that is not moved still knows what it knew.                    *)
LEMMA PhaseStays ==
    ASSUME NEW o \in Clients, Phase(o), Grows(Seen(o), Seen(o)'), writer = o <=> writer' = o,
           lost \subseteq lost',
           pc'[o] = pc[o], call'[o] = call[o], want'[o] = want[o], tab'[o] = tab[o]
    PROVE  Phase(o)'
<1>1. /\ Seen(o).made \subseteq Seen(o)'.made
      /\ Seen(o).full \subseteq Seen(o)'.full
  BY DEF Grows
<1> QED
  BY <1>1 DEF Phase

(* So a step is right when the client that takes it is right afterwards    *)
(* and the cache gains no table that is not ready.                         *)
LEMMA StepKeeps ==
    ASSUME IInv, NEW c \in Clients, NEW e \in Databases, Grows(Seen(c), e), Honest(e),
           Moves(c, e), Alone(c), Remembers, Control', Phase(c)',
           \A t \in tables' \ tables : Ready(db, t)'
    PROVE  IInv' /\ \A o \in Clients : writer = o /\ writer' = o => db' = db
<1>1. \A o \in Clients \ {c} : Phase(o)'
  <2> SUFFICES ASSUME NEW o \in Clients \ {c} PROVE Phase(o)'
    OBVIOUS
  <2>1. Phase(o) /\ Grows(Seen(o), Seen(o)') /\ (writer = o <=> writer' = o)
    BY SeenGrows DEF IInv
  <2> QED
    BY <2>1, PhaseStays DEF Alone, Remembers
<1>2. \A o \in Clients : Phase(o)'
  BY <1>1
<1>3. CacheSound'
  BY SeenGrows, ReadyGrows DEF IInv, CacheSound, Remembers
<1>4. TypeOK'
  <2>1. \A o \in Clients : pc'[o] = "idle" <=> call'[o] = "none"
    BY <1>2 DEF Phase
  <2>2. writer' # Nobody => writer' \in Holding'
    BY <1>2, SeenGrows DEF Phase, Holding
  <2> QED
    BY <2>1, <2>2, SeenGrows DEF TypeOK, Control
<1> QED
  BY <1>2, <1>3, <1>4, SeenGrows DEF IInv

-----------------------------------------------------------------------------
(* How a client moves.                                                     *)

(* The invariant afterwards, and nothing committed behind an open          *)
(* transaction's back.                                                     *)
Kept == IInv' /\ \A o \in Clients : writer = o /\ writer' = o => db' = db

(* Most steps touch neither the cache nor that history.                    *)
LEMMA Unforgetting ==
    ASSUME IInv, UNCHANGED <<tables, lost>>
    PROVE  Remembers
BY DEF Remembers, IInv, TypeOK

(* A client whose call ends is right when it has no transaction left.      *)
LEMMA Leaving ==
    ASSUME IInv, NEW c \in Clients, Leave(c), writer' # c,
           outcome' \in Outcomes, Remembers
    PROVE  Alone(c) /\ Control' /\ Phase(c)' /\ pc'[c] = "idle"
<1>1. /\ pc'[c] = "idle" /\ call'[c] = "none" /\ Alone(c)
  BY DEF Leave, Alone, IInv, TypeOK
<1>2. Control'
  BY DEF Leave, Control, Remembers, IInv, TypeOK
<1>3. Phase(c)'
  BY <1>1 DEF Phase, InBody, Preparing, AtWork
<1> QED
  BY <1>1, <1>2, <1>3

(* A client that goes on in its call.                                      *)
LEMMA Staying ==
    ASSUME IInv, NEW c \in Clients,
           NEW at \in {"tables", "create", "columns", "indexes", "uniques",
                       "run", "body", "entries"},
           Stay(c, at), outcome' \in Outcomes, Remembers
    PROVE  /\ Alone(c) /\ Control' /\ pc'[c] = at
           /\ call' = call /\ want' = want /\ tab' = tab
BY DEF Stay, Alone, Control, Remembers, IInv, TypeOK

(* Between its statements, a call without a transaction does not hold the  *)
(* write lock.                                                             *)
LEMMA FreeOfLock ==
    ASSUME IInv, NEW c \in Clients, call[c] # "transaction", pc[c] # "entries"
    PROVE  writer # c /\ Seen(c) = db
BY DEF IInv, Phase, Seen

(* An operation that fails.                                                *)
LEMMA FailsKeeps ==
    ASSUME IInv, NEW c \in Clients, NEW result \in Outcomes, Fails(c, result),
           pc[c] \in Preparing,
           UNCHANGED <<writer, tables, lost>>
    PROVE  Kept
<1>1. Untouched /\ UNCHANGED <<db, work, writer>>
  BY DEF Fails, Untouched
<1>2. Moves(c, Seen(c)) /\ Seen(c)' = Seen(c)
  BY <1>1 DEF Moves, Seen
<1>3. Remembers /\ outcome \in Outcomes
  BY Unforgetting DEF IInv, TypeOK, Outcomes
<1>4. CASE call[c] = "transaction"
  <2>1. Stay(c, "body") /\ outcome' = outcome
    BY <1>4 DEF Fails, Ends
  <2>2. Alone(c) /\ Control' /\ pc'[c] = "body" /\ call' = call
    BY <1>3, <2>1, Staying
  <2>3. Phase(c)'
    BY <1>1, <1>4, <2>2 DEF Phase, IInv, Preparing, InBody, AtWork
  <2> QED
    BY <1>2, <2>2, <2>3, SeenIsHonest, StepKeeps, Unforgetting DEF Kept
<1>5. CASE call[c] # "transaction"
  <2>1. Leave(c) /\ outcome' = result
    BY <1>5 DEF Fails, Ends
  <2>2. writer' # c
    BY <1>5, FreeOfLock DEF Preparing
  <2> QED
    BY <1>2, <1>3, <2>1, <2>2, Leaving, SeenIsHonest, StepKeeps, Unforgetting DEF Kept
<1> QED
  BY <1>4, <1>5

-----------------------------------------------------------------------------
(* ensure_table_in.                                                        *)

LEMMA NextTableKeeps ==
    ASSUME IInv, NEW c \in Clients, NextTable(c)
    PROVE  Kept
<1>1. UNCHANGED <<db, work, writer, tables, lost>> /\ Moves(c, Seen(c))
  BY DEF NextTable, Moves
<1>2. call[c] # "transaction" /\ pc[c] = "tables"
  BY DEF NextTable, IInv, Phase
<1>3. Seen(c) = db /\ Seen(c)' = db /\ writer # c
  BY <1>1, <1>2, FreeOfLock DEF Seen
<1>4. Remembers /\ outcome' \in Outcomes
  BY Unforgetting DEF NextTable, IInv, TypeOK
<1>5. CASE want[c] \subseteq tables /\ Stay(c, "run")
  <2>1. Alone(c) /\ Control' /\ pc'[c] = "run" /\ call' = call /\ want' = want
    BY <1>4, <1>5, Staying
  <2>2. want[c] \subseteq db.made \cap (db.full \cup lost)
    BY <1>5 DEF IInv, CacheSound, Ready
  <2>3. Phase(c)'
    BY <1>1, <1>2, <1>3, <2>1, <2>2 DEF Phase, IInv, Preparing, InBody, AtWork
  <2> QED
    BY <1>1, <2>1, <2>3, SeenIsHonest, StepKeeps, Unforgetting DEF Kept
<1>6. ASSUME NEW t \in want[c] \ tables, pc' = [pc EXCEPT ![c] = "create"],
             tab' = [tab EXCEPT ![c] = t], UNCHANGED <<call, want, count>>
      PROVE  Kept
  <2>1. t \in Tables
    BY <1>6 DEF IInv, TypeOK
  <2>2. Alone(c) /\ Control' /\ pc'[c] = "create" /\ call' = call /\ tab'[c] = t
    <3>1. Alone(c) /\ pc'[c] = "create" /\ call' = call /\ tab'[c] = t
      BY <1>6 DEF Alone, IInv, TypeOK
    <3>2. pc' \in [Clients -> {"idle", "tables", "create", "columns", "indexes", "uniques",
                              "run", "begin", "body", "bare", "entries"}]
      BY <1>6 DEF IInv, TypeOK
    <3>3. tab' \in [Clients -> Tables \cup {NoTable}]
      BY <1>6, <2>1 DEF IInv, TypeOK
    <3>4. UNCHANGED <<tables, lost, call, want, count>>
      BY <1>1, <1>6 DEF NextTable
    <3> QED
      BY <1>4, <3>1, <3>2, <3>3, <3>4 DEF Control, IInv, TypeOK
  <2>3. Phase(c)'
    BY <1>1, <1>2, <1>3, <2>1, <2>2 DEF Phase, IInv, Preparing, InBody, AtWork
  <2> QED
    BY <1>1, <2>2, <2>3, SeenIsHonest, StepKeeps, Unforgetting DEF Kept
<1> QED
  BY <1>5, <1>6 DEF NextTable

(* A statement of the DDL that has put e in place of what c sees.          *)
LEMMA DdlKeeps ==
    ASSUME IInv, NEW c \in Clients, NEW e \in Databases, Grows(Seen(c), e), Honest(e),
           pc[c] \in Preparing, NEW at \in Preparing \ {"create"}, Stay(c, at),
           \/ UNCHANGED <<db, work>> /\ e = Seen(c)
           \/ Writes(c) /\ Store(c, e),
           UNCHANGED <<writer, tables, outcome>>, Remembers,
           tab[c] \in e.made,
           at \in {"indexes", "uniques"} => tab[c] \in e.full \cup lost'
    PROVE  Kept
<1>1. Moves(c, e)
  BY DEF Moves, Writes
<1>2. Seen(c)' = e
  BY DEF Seen, Store
<1>3. Remembers /\ outcome' \in Outcomes
  BY Unforgetting DEF IInv, TypeOK
<1>4. /\ Alone(c) /\ Control' /\ pc'[c] = at
      /\ call' = call /\ want' = want /\ tab' = tab
  BY <1>3, Staying DEF Preparing
<1>5. Phase(c)'
  <2>1. Phase(c)
    BY DEF IInv
  <2>2. at # "idle" /\ at # "tables" /\ at # "begin" /\ at \notin InBody /\ at \notin AtWork
    BY DEF Preparing, InBody, AtWork
  <2>3. pc[c] # "idle" /\ pc[c] # "begin" /\ pc[c] # "entries"
    BY DEF Preparing
  <2> QED
    BY <1>2, <1>4, <2>1, <2>2, <2>3 DEF Phase
<1> QED
  BY <1>1, <1>4, <1>5, StepKeeps, Unforgetting DEF Kept

LEMMA CreateTableKeeps ==
    ASSUME IInv, NEW c \in Clients, CreateTable(c)
    PROVE  Kept
<1>1. pc[c] = "create" /\ pc[c] \in Preparing /\ "columns" \in Preparing \ {"create"}
  BY DEF CreateTable, Preparing
<1>2. tab[c] \in Tables
  BY <1>1 DEF IInv, Phase
<1>3. Stay(c, "columns") /\ UNCHANGED <<writer, tables, outcome>> /\ Remembers
  BY Unforgetting DEF CreateTable
<1>4. CASE tab[c] \in Seen(c).made
  BY <1>1, <1>3, <1>4, SeenIsHonest, DdlKeeps DEF CreateTable, Untouched
<1>5. CASE tab[c] \notin Seen(c).made
  <2> DEFINE e == WithTable(Seen(c), tab[c])
  <2>1. Writes(c) /\ Store(c, e)
    BY <1>5 DEF CreateTable
  <2>2. e \in Databases /\ Honest(e) /\ Grows(Seen(c), e) /\ tab[c] \in e.made
    BY <1>2, SeenIsHonest, SchemaGrows
  <2> HIDE DEF e
  <2> QED
    BY <1>1, <1>3, <2>1, <2>2, DdlKeeps
<1> QED
  BY <1>4, <1>5

LEMMA AddColumnsKeeps ==
    ASSUME IInv, NEW c \in Clients, AddColumns(c)
    PROVE  Kept
<1>1. pc[c] = "columns" /\ pc[c] \in Preparing /\ "indexes" \in Preparing \ {"create"}
  BY DEF AddColumns, Preparing
<1>2. tab[c] \in Tables /\ tab[c] \in Seen(c).made
  BY <1>1 DEF IInv, Phase
<1>3. Stay(c, "indexes") /\ UNCHANGED <<writer, tables, outcome>>
  BY DEF AddColumns
<1>4. CASE tab[c] \in Seen(c).full \/ LockedOut(c)
  <2>1. Untouched /\ Forget(c)
    BY <1>4 DEF AddColumns
  <2>2. Remembers /\ tab[c] \in Seen(c).full \cup lost'
    BY <1>2, <1>3, <2>1 DEF Forget, Remembers, IInv, TypeOK
  <2> QED
    BY <1>1, <1>2, <1>3, <2>1, <2>2, SeenIsHonest, DdlKeeps DEF Untouched
<1>5. CASE ~ (tab[c] \in Seen(c).full \/ LockedOut(c))
  <2> DEFINE e == WithColumns(Seen(c), tab[c])
  <2>1. Writes(c) /\ Store(c, e) /\ lost' = lost
    BY <1>5 DEF AddColumns
  <2>2. e \in Databases /\ Honest(e) /\ Grows(Seen(c), e) /\ tab[c] \in e.made \cap e.full
    BY <1>2, SeenIsHonest, SchemaGrows DEF Grows
  <2>3. Remembers
    BY <1>3, <2>1, Unforgetting
  <2> HIDE DEF e
  <2> QED
    BY <1>1, <1>3, <2>1, <2>2, <2>3, DdlKeeps
<1> QED
  BY <1>4, <1>5

LEMMA CreateIndexesKeeps ==
    ASSUME IInv, NEW c \in Clients, CreateIndexes(c)
    PROVE  Kept
<1>1. /\ pc[c] = "indexes" /\ pc[c] \in Preparing /\ "uniques" \in Preparing \ {"create"}
      /\ UNCHANGED <<db, work, writer, tables, outcome, lost>> /\ Stay(c, "uniques")
  BY DEF CreateIndexes, Preparing
<1>2. tab[c] \in Seen(c).made /\ tab[c] \in Seen(c).full \cup lost'
  BY <1>1 DEF IInv, Phase
<1> QED
  BY <1>1, <1>2, SeenIsHonest, Unforgetting, DdlKeeps

LEMMA CreateUniqueKeeps ==
    ASSUME IInv, NEW c \in Clients, CreateUnique(c)
    PROVE  Kept
<1>1. /\ pc[c] = "uniques" /\ pc[c] \in Preparing /\ "uniques" \in Preparing \ {"create"}
      /\ UNCHANGED <<writer, tables, lost>>
  BY DEF CreateUnique, Preparing
<1>2. tab[c] \in Seen(c).made /\ tab[c] \in Seen(c).full \cup lost'
  BY <1>1 DEF IInv, Phase
<1>3. PICK g \in GroupsOf(tab[c]) :
        /\ Writes(c)
        /\ IF HasDuplicates(Seen(c), g)
             THEN Fails(c, IF call[c] = "batch" THEN "conflict" ELSE "failed")
             ELSE Store(c, WithIndex(Seen(c), g)) /\ Stay(c, "uniques") /\ UNCHANGED outcome
  BY DEF CreateUnique
<1>4. CASE HasDuplicates(Seen(c), g)
  <2> DEFINE result == IF call[c] = "batch" THEN "conflict" ELSE "failed"
  <2>1. result \in Outcomes
    BY DEF Outcomes
  <2>2. Fails(c, result)
    BY <1>3, <1>4
  <2> QED
    BY <1>1, <2>1, <2>2, FailsKeeps
<1>5. CASE ~ HasDuplicates(Seen(c), g)
  <2> DEFINE e == WithIndex(Seen(c), g)
  <2>1. e \in Databases /\ Honest(e) /\ Grows(Seen(c), e)
    BY <1>5, SeenIsHonest, IndexGrows DEF GroupsOf
  <2>2. tab[c] \in e.made /\ tab[c] \in e.full \cup lost'
    BY <1>2, <2>1 DEF Grows
  <2>3. Writes(c) /\ Store(c, e) /\ Stay(c, "uniques") /\ UNCHANGED outcome
    BY <1>3, <1>5
  <2> HIDE DEF e
  <2> QED
    BY <1>1, <2>1, <2>2, <2>3, Unforgetting, DdlKeeps
<1> QED
  BY <1>4, <1>5

LEMMA EnsuredKeeps ==
    ASSUME IInv, SchemaIsNamed, NEW c \in Clients, Ensured(c)
    PROVE  Kept
<1>1. /\ pc[c] = "uniques" /\ UNCHANGED <<db, work, writer, lost>> /\ Moves(c, Seen(c))
      /\ outcome' \in Outcomes /\ Seen(c)' = Seen(c)
  BY DEF Ensured, Moves, IInv, TypeOK, Seen
<1>2. /\ tab[c] \in Seen(c).made /\ tab[c] \in Seen(c).full \cup lost /\ tab[c] \in Tables
      /\ call[c] = "transaction" => want[c] = {tab[c]}
  BY <1>1 DEF IInv, Phase, Preparing
<1>3. CASE call[c] = "transaction"
  <2>1. Stay(c, "run") /\ tables' = tables /\ Remembers
    BY <1>1, <1>3, Unforgetting DEF Ensured
  <2>2. Alone(c) /\ Control' /\ pc'[c] = "run" /\ call' = call /\ want' = want
    BY <1>1, <2>1, Staying
  <2>3. Phase(c)'
    BY <1>1, <1>2, <1>3, <2>2 DEF Phase, IInv, Preparing, InBody, AtWork
  <2> QED
    BY <1>1, <2>1, <2>2, <2>3, SeenIsHonest, StepKeeps, Unforgetting DEF Kept
<1>4. CASE call[c] # "transaction"
  <2>1. Stay(c, "tables") /\ tables' = tables \cup {tab[c]} /\ Remembers
    BY <1>1, <1>2, <1>4 DEF Ensured, Remembers, IInv, TypeOK
  <2>2. Alone(c) /\ Control' /\ pc'[c] = "tables" /\ call' = call /\ want' = want
    BY <1>1, <2>1, Staying
  <2>3. Seen(c) = db /\ writer # c
    BY <1>1, <1>4, FreeOfLock
  <2>4. Phase(c)'
    BY <1>1, <1>4, <2>2, <2>3 DEF Phase, IInv, Preparing, InBody, AtWork
  <2>5. GroupsOf(tab[c]) \subseteq db.uniq
    <3> SUFFICES ASSUME NEW g \in GroupsOf(tab[c]) PROVE g \in db.uniq
      OBVIOUS
    <3>1. PICK h \in db.uniq : IndexName[h] = IndexName[g]
      BY <2>3 DEF Ensured, Named
    <3>2. h \in Groups /\ g \in Groups
      BY DEF GroupsOf, IInv, TypeOK, Databases
    <3> QED
      BY <3>1, <3>2 DEF SchemaIsNamed
  <2>6. \A t \in tables' \ tables : Ready(db, t)'
    <3> SUFFICES ASSUME NEW t \in tables' \ tables PROVE Ready(db, t)'
      OBVIOUS
    <3>1. t = tab[c] /\ db' = db /\ lost' = lost
      BY <2>1 DEF Ensured
    <3>2. Ready(db, tab[c])
      BY <1>2, <2>3, <2>5 DEF Ready
    <3> QED
      BY <3>1, <3>2 DEF Ready
  <2> QED
    BY <1>1, <2>1, <2>2, <2>4, <2>6, SeenIsHonest, StepKeeps DEF Kept
<1> QED
  BY <1>3, <1>4

-----------------------------------------------------------------------------
(* The statements of calls and closures.                                   *)

(* A statement that puts e in place of what c sees, or changes nothing.    *)
LEMMA EndsKeeps ==
    ASSUME IInv, NEW c \in Clients, NEW e \in Databases, Grows(Seen(c), e), Honest(e),
           pc[c] \in {"run", "bare"}, Untouched \/ (Writes(c) /\ Store(c, e)),
           UNCHANGED <<writer, tables, lost>>, NEW result \in Outcomes, Ends(c, result)
    PROVE  Kept
<1>1. Moves(c, e)
  BY DEF Moves, Untouched, Writes
<1>2. Remembers /\ outcome \in Outcomes
  BY Unforgetting DEF IInv, TypeOK
<1>3. CASE call[c] = "transaction"
  <2>1. Stay(c, "body") /\ outcome' = outcome
    BY <1>3 DEF Ends
  <2>2. Alone(c) /\ Control' /\ pc'[c] = "body" /\ call' = call
    BY <1>2, <2>1, Staying
  <2>3. writer = c
    BY <1>3 DEF IInv, Phase
  <2>4. Phase(c)'
    BY <1>3, <2>2, <2>3 DEF Phase, Preparing, InBody, AtWork
  <2> QED
    BY <1>1, <2>2, <2>4, StepKeeps, Unforgetting DEF Kept
<1>4. CASE call[c] # "transaction"
  <2>1. Leave(c) /\ outcome' = result
    BY <1>4 DEF Ends
  <2>2. writer' # c
    BY <1>4, FreeOfLock
  <2> QED
    BY <1>1, <1>2, <2>1, <2>2, Leaving, StepKeeps, Unforgetting DEF Kept
<1> QED
  BY <1>3, <1>4

LEMMA ReadKeeps ==
    ASSUME IInv, NEW c \in Clients, NEW t, Read(c, t)
    PROVE  Kept
<1>1. outcome \in Outcomes
  BY DEF IInv, TypeOK
<1> QED
  BY <1>1, SeenIsHonest, EndsKeeps DEF Read, Statement

(* save, insert and insert_guarded store a row that no index refuses.      *)
LEMMA StoresKeep ==
    ASSUME IInv, NEW c \in Clients, NEW k \in Keys, NEW row \in Rows, pc[c] = "run",
           NEW refusal \in Outcomes, NEW success \in Outcomes,
           \/ Untouched /\ Ends(c, refusal)
           \/ /\ Writes(c) /\ HasColumns(c, TableOf[k]) /\ ~ Refused(Seen(c), k, row)
              /\ Store(c, WithRow(Seen(c), k, row)) /\ Ends(c, success),
           UNCHANGED <<writer, tables, lost>>
    PROVE  Kept
<1>1. CASE Untouched /\ Ends(c, refusal)
  BY <1>1, SeenIsHonest, EndsKeeps
<1>2. CASE /\ Writes(c) /\ HasColumns(c, TableOf[k]) /\ ~ Refused(Seen(c), k, row)
           /\ Store(c, WithRow(Seen(c), k, row)) /\ Ends(c, success)
  <2> DEFINE e == WithRow(Seen(c), k, row)
  <2>1. e \in Databases /\ Honest(e) /\ Grows(Seen(c), e)
    BY <1>2, SeenIsHonest, RowKeepsHonest DEF HasColumns
  <2>2. Store(c, e)
    BY <1>2
  <2> HIDE DEF e
  <2> QED
    BY <1>2, <2>1, <2>2, EndsKeeps
<1> QED
  BY <1>1, <1>2

LEMMA SaveKeeps ==
    ASSUME IInv, NEW c \in Clients, NEW k \in Keys, NEW row \in Rows, Save(c, k, row)
    PROVE  Kept
<1>1. "conflict" \in Outcomes /\ "ok" \in Outcomes
  BY DEF Outcomes
<1> QED
  BY <1>1, StoresKeep DEF Save, Statement

LEMMA InsertKeeps ==
    ASSUME IInv, NEW c \in Clients, NEW k \in Keys, NEW row \in Rows, Insert(c, k, row)
    PROVE  Kept
<1>1. "conflict" \in Outcomes /\ "ok" \in Outcomes
  BY DEF Outcomes
<1> QED
  BY <1>1, StoresKeep DEF Insert, Statement

LEMMA InsertGuardedKeeps ==
    ASSUME IInv, NEW c \in Clients, NEW k \in Keys, NEW row \in Rows, NEW p, NEW col,
           InsertGuarded(c, k, row, p, col)
    PROVE  Kept
<1>1. "rejected" \in Outcomes /\ "landed" \in Outcomes
  BY DEF Outcomes
<1>2. pc[c] = "run" /\ call[c] = "write" /\ UNCHANGED <<writer, tables, lost>>
  BY DEF InsertGuarded, Statement
<1>3. Seen(c) = db
  BY <1>2, FreeOfLock
<1>4. \/ Untouched /\ Ends(c, "rejected")
      \/ /\ Writes(c) /\ HasColumns(c, TableOf[k]) /\ ~ Refused(db, k, row)
         /\ Store(c, WithRow(db, k, row)) /\ Ends(c, "landed")
  BY DEF InsertGuarded
<1> QED
  BY <1>1, <1>2, <1>3, <1>4, StoresKeep

LEMMA WriteFailsKeeps ==
    ASSUME IInv, NEW c \in Clients, NEW t, WriteFails(c, t)
    PROVE  Kept
<1>1. "failed" \in Outcomes
  BY DEF Outcomes
<1> QED
  BY <1>1, SeenIsHonest, EndsKeeps DEF WriteFails, Statement, Fails

(* Deletes.                                                                *)
LEMMA DeletesKeep ==
    ASSUME IInv, NEW c \in Clients, NEW ks, pc[c] \in {"run", "bare"}, Writes(c),
           Store(c, WithoutRows(Seen(c), ks)), Ends(c, "ok"), UNCHANGED <<writer, tables, lost>>
    PROVE  Kept
<1> DEFINE e == WithoutRows(Seen(c), ks)
<1>1. e \in Databases /\ Honest(e) /\ Grows(Seen(c), e)
  BY SeenIsHonest, DeleteKeepsHonest
<1>2. Store(c, e) /\ "ok" \in Outcomes
  BY DEF Outcomes
<1> HIDE DEF e
<1> QED
  BY <1>1, <1>2, EndsKeeps

LEMMA DeleteKeeps ==
    ASSUME IInv, NEW c \in Clients, NEW k \in Keys, Delete(c, k)
    PROVE  Kept
BY DeletesKeep DEF Delete, Statement

LEMMA DeleteWhereKeeps ==
    ASSUME IInv, NEW c \in Clients, NEW t, NEW f, DeleteWhere(c, t, f)
    PROVE  Kept
BY DeletesKeep DEF DeleteWhere, Statement

LEMMA TxDeleteKeeps ==
    ASSUME IInv, NEW c \in Clients, NEW k \in Keys, TxDelete(c, k)
    PROVE  Kept
<1>1. pc[c] = "bare" /\ writer = c /\ UNCHANGED <<writer, tables, lost>>
  BY DEF TxDelete, IInv, Phase, InBody
<1>2. Store(c, WithoutRows(Seen(c), {k})) /\ Ends(c, "ok")
  BY DEF TxDelete
<1>3. c \in Holding
  BY <1>1, SqliteAssumption DEF IInv, TypeOK
<1>4. Writes(c)
  BY <1>1, <1>3 DEF Writes, Runs
<1> QED
  BY <1>1, <1>2, <1>4, DeletesKeep

LEMMA ReplaceDeleteKeeps ==
    ASSUME IInv, NEW c \in Clients, NEW t, NEW f, ReplaceDelete(c, t, f)
    PROVE  Kept
<1> DEFINE e == WithoutRows(db, Selected(db, t, f))
<1>1. /\ pc[c] = "run" /\ call[c] = "replace" /\ Writes(c) /\ UNCHANGED <<writer, tables, lost>>
      /\ Store(c, e) /\ pc' = [pc EXCEPT ![c] = "tables"]
      /\ call' = [call EXCEPT ![c] = "batch"] /\ UNCHANGED <<want, tab, count, outcome>>
  BY DEF ReplaceDelete, Statement
<1>2. Seen(c) = db /\ writer # c
  BY <1>1, FreeOfLock
<1>3. e \in Databases /\ Honest(e) /\ Grows(Seen(c), e)
  BY <1>2, SeenIsHonest, DeleteKeepsHonest
<1> HIDE DEF e
<1>4. Moves(c, e)
  BY <1>1 DEF Moves, Writes
<1>5. Alone(c) /\ Control' /\ pc'[c] = "tables" /\ call'[c] = "batch"
  BY <1>1 DEF Alone, Control, IInv, TypeOK
<1>6. Phase(c)'
  BY <1>1, <1>2, <1>5 DEF Phase, Preparing, InBody, AtWork
<1> QED
  BY <1>1, <1>3, <1>4, <1>5, <1>6, StepKeeps, Unforgetting DEF Kept

-----------------------------------------------------------------------------
(* Batches and transactions.                                               *)

(* A step that ends the transaction, if there is one, and the call.        *)
LEMMA FinishKeeps ==
    ASSUME IInv, NEW c \in Clients, Committed(c) \/ Undone(c), Leave(c),
           outcome' \in Outcomes, UNCHANGED <<tables, lost>>
    PROVE  Kept
<1>1. writer' # c
  BY SqliteAssumption DEF Committed, Undone
<1>2. Remembers
  BY Unforgetting
<1>3. Alone(c) /\ Control' /\ Phase(c)' /\ pc'[c] = "idle"
  BY <1>1, <1>2, Leaving
<1>4. Moves(c, Seen(c))
  BY <1>3 DEF Moves
<1> QED
  BY <1>3, <1>4, SeenIsHonest, StepKeeps, Unforgetting DEF Kept

LEMMA BatchBeginKeeps ==
    ASSUME IInv, NEW c \in Clients, BatchBegin(c)
    PROVE  Kept
<1>1. /\ pc[c] = "run" /\ call[c] = "batch" /\ Stay(c, "entries")
      /\ UNCHANGED <<db, work, writer, tables, outcome, lost>>
  BY DEF BatchBegin
<1>2. Remembers /\ outcome' \in Outcomes
  BY <1>1, Unforgetting DEF IInv, TypeOK
<1>3. /\ Alone(c) /\ Control' /\ pc'[c] = "entries"
      /\ call' = call /\ want' = want
  BY <1>1, <1>2, Staying
<1>4. Moves(c, Seen(c)) /\ Seen(c)' = Seen(c)
  BY <1>1 DEF Moves, Seen
<1>5. Phase(c)'
  BY <1>1, <1>3, <1>4 DEF Phase, IInv, Preparing, InBody, AtWork
<1> QED
  BY <1>1, <1>3, <1>4, <1>5, SeenIsHonest, StepKeeps, Unforgetting DEF Kept

LEMMA BatchEntryKeeps ==
    ASSUME IInv, NEW c \in Clients, NEW k \in Keys, NEW row \in Rows, BatchEntry(c, k, row)
    PROVE  Kept
<1>1. /\ pc[c] = "entries" /\ Writes(c) /\ HasColumns(c, TableOf[k])
      /\ UNCHANGED <<tables, lost>>
  BY DEF BatchEntry
<1>2. CASE Refused(Seen(c), k, row)
  <2>1. Undone(c) /\ Leave(c) /\ outcome' = "conflict" /\ "conflict" \in Outcomes
    BY <1>2 DEF BatchEntry, Outcomes
  <2> QED
    BY <1>1, <2>1, FinishKeeps
<1>3. CASE ~ Refused(Seen(c), k, row)
  <2> DEFINE e == WithRow(Seen(c), k, row)
  <2>1. /\ work' = e /\ writer' = c /\ db' = db
        /\ UNCHANGED <<pc, call, want, tab, outcome>>
        /\ count' = [count EXCEPT ![c] = @ + 1]
    BY <1>3 DEF BatchEntry
  <2>2. e \in Databases /\ Honest(e) /\ Grows(Seen(c), e)
    BY <1>1, <1>3, SeenIsHonest, RowKeepsHonest DEF HasColumns
  <2> HIDE DEF e
  <2>3. Moves(c, e) /\ Seen(c)' = e
    BY <1>1, <2>1 DEF Moves, Writes, Seen
  <2>4. Alone(c) /\ Control'
    BY <1>1, <2>1 DEF Alone, Control, IInv, TypeOK
  <2>5. Phase(c)'
    <3>1. want[c] \subseteq e.made \cap (e.full \cup lost')
      BY <1>1, <2>2 DEF IInv, Phase, AtWork, Grows
    <3>2. Phase(c)
      BY DEF IInv
    <3> QED
      BY <1>1, <2>1, <2>3, <3>1, <3>2 DEF Phase, Preparing, InBody, AtWork
  <2> QED
    BY <1>1, <2>2, <2>3, <2>4, <2>5, StepKeeps, Unforgetting DEF Kept
<1> QED
  BY <1>2, <1>3

LEMMA BeginKeeps ==
    ASSUME IInv, NEW c \in Clients, Begin(c)
    PROVE  Kept
<1>1. /\ pc[c] = "begin" /\ Writes(c) /\ writer' = c /\ work' = db /\ Stay(c, "body")
      /\ UNCHANGED <<db, tables, outcome, lost>>
  BY DEF Begin
<1>2. call[c] = "transaction" /\ writer # c
  BY <1>1 DEF IInv, Phase
<1>3. Remembers /\ outcome' \in Outcomes
  BY <1>1, Unforgetting DEF IInv, TypeOK
<1>4. Alone(c) /\ Control' /\ pc'[c] = "body" /\ call' = call
  BY <1>1, <1>3, Staying
<1>5. Seen(c) = db
  BY <1>2 DEF Seen
<1>6. Moves(c, Seen(c))
  BY <1>1, <1>5 DEF Moves, Writes
<1>7. Phase(c)'
  BY <1>1, <1>2, <1>4 DEF Phase, Preparing, InBody, AtWork
<1> QED
  BY <1>1, <1>4, <1>6, <1>7, SeenIsHonest, StepKeeps, Unforgetting DEF Kept

(* The closure's next operation.                                           *)
LEMMA OperationKeeps ==
    ASSUME IInv, NEW c \in Clients, NEW t \in Tables, NEW at \in {"run", "create", "bare"},
           Operation(c, t, at),
           at = "run" => t \in Seen(c).made \cap (Seen(c).full \cup lost)
    PROVE  Kept
<1>1. /\ pc[c] = "body" /\ UNCHANGED <<db, work, writer, tables, call, outcome, lost>>
      /\ Moves(c, Seen(c)) /\ Seen(c)' = Seen(c)
  BY DEF Operation, Moves, Seen
<1>2. call[c] = "transaction" /\ writer = c
  BY <1>1 DEF IInv, Phase, InBody
<1>3. pc'[c] = at /\ want'[c] = {t} /\ tab'[c] = t /\ Alone(c) /\ Control'
  BY <1>1 DEF Operation, Alone, Control, IInv, TypeOK
<1>4. Phase(c)'
  BY <1>1, <1>2, <1>3 DEF Phase, Preparing, InBody, AtWork
<1> QED
  BY <1>1, <1>3, <1>4, SeenIsHonest, StepKeeps, Unforgetting DEF Kept

LEMMA TxOperationKeeps ==
    ASSUME IInv, NEW c \in Clients, NEW t \in Tables, TxOperation(c, t)
    PROVE  Kept
<1>1. CASE t \in tables
  <2>1. Ready(db, t) /\ pc[c] = "body" /\ Operation(c, t, "run")
    BY <1>1 DEF IInv, CacheSound, TxOperation, Operation
  <2>2. Grows(db, Seen(c))
    BY SqliteAssumption DEF Seen, IInv, TypeOK, Ahead, Grows
  <2>3. t \in Seen(c).made \cap (Seen(c).full \cup lost)
    BY <2>1, <2>2 DEF Ready, Grows
  <2> QED
    BY <2>1, <2>3, OperationKeeps
<1>2. CASE t \notin tables
  <2>1. Operation(c, t, "create")
    BY <1>2 DEF TxOperation
  <2> QED
    BY <2>1, OperationKeeps
<1> QED
  BY <1>1, <1>2

LEMMA TxLoadKeeps ==
    ASSUME IInv, NEW c \in Clients, TxLoad(c)
    PROVE  Kept
<1>1. /\ pc[c] = "bare" /\ call[c] = "transaction" /\ "ok" \in Outcomes
      /\ Untouched /\ Stay(c, "body") /\ UNCHANGED <<writer, tables, outcome, lost>>
  BY DEF TxLoad, IInv, Phase, InBody, Outcomes
<1>2. Ends(c, "ok")
  BY <1>1 DEF Ends
<1> QED
  BY <1>1, <1>2, SeenIsHonest, EndsKeeps

-----------------------------------------------------------------------------
(* Steps that begin and end calls.                                         *)

LEMMA ArriveKeeps ==
    ASSUME IInv, NEW c \in Clients, Arrive(c)
    PROVE  Kept
<1>1. /\ pc[c] = "idle" /\ UNCHANGED <<db, work, writer, tables, outcome, lost>>
      /\ Moves(c, Seen(c)) /\ Seen(c)' = Seen(c)
  BY DEF Arrive, Start, StartTransaction, Moves, Seen
<1>2. call[c] = "none" /\ writer # c
  BY <1>1 DEF IInv, Phase
<1>3. CASE \E kind \in {"read", "write", "replace", "batch"}, ts \in SUBSET Tables :
                Start(c, kind, ts)
  <2>1. PICK kind \in {"read", "write", "replace", "batch"}, ts \in SUBSET Tables :
                Start(c, kind, ts)
    BY <1>3
  <2>2. pc'[c] = "tables" /\ call'[c] = kind /\ Alone(c) /\ Control'
    BY <1>1, <2>1 DEF Start, Alone, Control, IInv, TypeOK
  <2>3. Phase(c)'
    BY <1>1, <1>2, <2>2 DEF Phase, Preparing, InBody, AtWork
  <2> QED
    BY <1>1, <2>2, <2>3, SeenIsHonest, StepKeeps, Unforgetting DEF Kept
<1>4. CASE StartTransaction(c)
  <2>1. pc'[c] = "begin" /\ call'[c] = "transaction" /\ Alone(c) /\ Control'
    BY <1>1, <1>4 DEF StartTransaction, Alone, Control, IInv, TypeOK
  <2>2. Phase(c)'
    BY <1>1, <1>2, <2>1 DEF Phase, Preparing, InBody, AtWork
  <2> QED
    BY <1>1, <2>1, <2>2, SeenIsHonest, StepKeeps, Unforgetting DEF Kept
<1> QED
  BY <1>3, <1>4 DEF Arrive

LEMMA BusyKeeps ==
    ASSUME IInv, NEW c \in Clients, Busy(c)
    PROVE  Kept
<1>1. writer # c /\ UNCHANGED <<db, work, writer, tables, lost>> /\ Leave(c)
  BY DEF Busy, LockedOut
<1>2. Undone(c) /\ outcome' \in Outcomes
  BY <1>1 DEF Undone, Busy, Outcomes
<1> QED
  BY <1>1, <1>2, FinishKeeps

LEMMA StarvedKeeps ==
    ASSUME IInv, NEW c \in Clients, Starved(c)
    PROVE  Kept
<1>1. c \notin Holding /\ UNCHANGED <<db, work, writer, tables>>
  BY DEF Starved, Runs
<1>2. writer # c
  BY <1>1, SqliteAssumption DEF IInv, TypeOK
<1>3. CASE pc[c] = "columns" /\ Stay(c, "indexes") /\ Forget(c) /\ UNCHANGED outcome
  <2>1. pc[c] \in Preparing /\ "indexes" \in Preparing \ {"create"}
    BY <1>3 DEF Preparing
  <2>2. tab[c] \in Seen(c).made /\ tab[c] \in Tables
    BY <1>3 DEF IInv, Phase, Preparing
  <2>3. Remembers /\ tab[c] \in Seen(c).full \cup lost'
    BY <1>1, <1>3, <2>2 DEF Forget, Remembers, IInv, TypeOK
  <2> QED
    BY <1>1, <1>3, <2>1, <2>2, <2>3, SeenIsHonest, DdlKeeps
<1>4. CASE Leave(c) /\ outcome' = "failed" /\ lost' = lost
  <2>1. Undone(c) /\ outcome' \in Outcomes
    BY <1>1, <1>2, <1>4 DEF Undone, Outcomes
  <2> QED
    BY <1>1, <1>4, <2>1, FinishKeeps
<1> QED
  BY <1>3, <1>4 DEF Starved

LEMMA DroppedKeeps ==
    ASSUME IInv, NEW c \in Clients, Dropped(c)
    PROVE  Kept
<1>1. outcome' \in Outcomes
  BY DEF Dropped, IInv, TypeOK
<1> QED
  BY <1>1, FinishKeeps DEF Dropped

(* A client that is in no call knows nothing.                              *)
LEMMA OpenedIsPhased ==
    ASSUME writer = Nobody, NEW c \in Clients, pc[c] = "idle", call[c] = "none"
    PROVE  Phase(c)
BY SqliteAssumption DEF Phase, Preparing, InBody, AtWork

LEMMA NoDatabaseIsHonest == NoDatabase \in Databases /\ Honest(NoDatabase)
<1>1. [k \in Keys |-> NoRow] \in Contents
  BY DEF Contents
<1> QED
  BY <1>1 DEF NoDatabase, Databases, Honest

LEMMA RestartKeeps ==
    ASSUME IInv, Restart
    PROVE  Kept
<1>1. /\ writer' = Nobody /\ tables' = {} /\ lost' = {} /\ work' = NoDatabase /\ db' = db
      /\ \A c \in Clients : pc'[c] = "idle" /\ call'[c] = "none"
  BY DEF Restart
<1>2. \A c \in Clients : Phase(c)'
  BY <1>1, OpenedIsPhased, SqliteAssumption
     DEF Phase, Preparing, InBody, AtWork
<1>3. TypeOK'
  BY <1>1, NoDatabaseIsHonest DEF Restart, IInv, TypeOK
<1>4. Indexed' /\ Ahead' /\ CacheSound'
  BY <1>1 DEF IInv, Indexed, Ahead, CacheSound
<1> QED
  BY <1>1, <1>2, <1>3, <1>4, SqliteAssumption DEF IInv, Kept

-----------------------------------------------------------------------------
(* The invariant.                                                          *)

LEMMA NextKeeps ==
    ASSUME IInv, SchemaIsNamed, Next
    PROVE  Kept
<1>1. ASSUME NEW c \in Clients, Step(c) PROVE Kept
  <2>1. CASE Ensuring(c)
    BY <2>1, NextTableKeeps, CreateTableKeeps, AddColumnsKeeps, CreateIndexesKeeps,
       CreateUniqueKeeps, EnsuredKeeps DEF Ensuring
  <2>2. CASE Running(c)
    BY <2>2, ReadKeeps, WriteFailsKeeps, SaveKeeps, InsertKeeps, BatchEntryKeeps, InsertGuardedKeeps,
       DeleteKeeps, TxDeleteKeeps, DeleteWhereKeeps, ReplaceDeleteKeeps DEF Running
  <2>3. CASE Transacting(c)
    <3>1. ASSUME BatchCommit(c) PROVE Kept
      BY <3>1, FinishKeeps DEF BatchCommit, Outcomes
    <3>2. ASSUME TxCommit(c) PROVE Kept
      BY <3>2, FinishKeeps DEF TxCommit, Outcomes
    <3>3. ASSUME TxRollback(c) PROVE Kept
      BY <3>3, FinishKeeps DEF TxRollback, Outcomes
    <3>4. ASSUME NEW t \in Tables, TxBare(c, t) PROVE Kept
      BY <3>4, OperationKeeps DEF TxBare
    <3>5. ASSUME BatchEntryFails(c) PROVE Kept
      BY <3>5, FinishKeeps DEF BatchEntryFails, Outcomes
    <3> QED
      BY <2>3, <3>1, <3>2, <3>3, <3>4, <3>5, BatchBeginKeeps, BeginKeeps, TxLoadKeeps,
         TxOperationKeeps DEF Transacting
  <2>4. CASE Busy(c)
    BY <2>4, BusyKeeps
  <2> QED
    BY <1>1, <2>1, <2>2, <2>3, <2>4 DEF Step
<1>2. ASSUME NEW c \in Clients, Arrive(c) PROVE Kept
  BY <1>2, ArriveKeeps
<1>3. ASSUME NEW c \in Clients, Dropped(c) PROVE Kept
  BY <1>3, DroppedKeeps
<1>4. ASSUME NEW c \in Clients, Starved(c) PROVE Kept
  BY <1>4, StarvedKeeps
<1> QED
  BY <1>1, <1>2, <1>3, <1>4, RestartKeeps DEF Next

(* A new database is a case of one that an older version made.             *)
LEMMA NewIsUpgraded == Init => InitUpgraded
<1> SUFFICES ASSUME Init PROVE InitUpgraded
  OBVIOUS
<1>1. db = NoDatabase /\ Present(db.rows) = {} /\ db.full = {} /\ db.uniq = {}
  BY DEF Init, NoDatabase, Present
<1> QED
  BY <1>1, NoDatabaseIsHonest DEF Init, InitUpgraded, NoDatabase

LEMMA InitHolds == InitUpgraded => IInv
<1> SUFFICES ASSUME InitUpgraded PROVE IInv
  OBVIOUS
<1>1. /\ writer = Nobody /\ tables = {} /\ lost = {} /\ work = NoDatabase /\ db \in Databases
      /\ db.uniq = {} /\ \A c \in Clients : pc[c] = "idle" /\ call[c] = "none"
  BY DEF InitUpgraded, Opened
<1>2. TypeOK
  BY <1>1, NoDatabaseIsHonest DEF InitUpgraded, Opened, TypeOK, Outcomes
<1>3. Indexed /\ Ahead /\ CacheSound
  BY <1>1 DEF Indexed, Ahead, CacheSound, Honest
<1>4. \A c \in Clients : Phase(c)
  BY <1>1, OpenedIsPhased
<1> QED
  BY <1>2, <1>3, <1>4 DEF IInv

LEMMA StutterKeeps ==
    ASSUME IInv, UNCHANGED vars
    PROVE  Kept
<1>1. \A c \in Clients : Phase(c)'
  BY DEF vars, IInv, Phase, Seen
<1>2. TypeOK' /\ Indexed' /\ Ahead' /\ CacheSound'
  BY DEF vars, IInv, TypeOK, Holding, Indexed, Ahead, CacheSound, Ready
<1> QED
  BY <1>1, <1>2 DEF vars, Kept, IInv

(***************************************************************************)
(* The inductive invariant of the backend, on a database of any earlier    *)
(* version: types, indexes that hold in both views of the database, a      *)
(* transaction that only adds to the schema, a cache that tells the truth, *)
(* and what each client knows where it is.                                 *)
(***************************************************************************)
THEOREM SqliteInvariant ==
    ASSUME SchemaIsNamed
    PROVE  SpecUpgraded => []IInv
<1>1. InitUpgraded => IInv
  BY InitHolds
<1>2. IInv /\ [Next]_vars => IInv'
  BY NextKeeps, StutterKeeps DEF Kept
<1> QED
  BY <1>1, <1>2, PTL DEF SpecUpgraded

(***************************************************************************)
(* Types, for every instance.                                              *)
(***************************************************************************)
THEOREM SqliteTypes ==
    ASSUME SchemaIsNamed
    PROVE  SpecUpgraded => []TypeOK
BY SqliteInvariant, PTL DEF IInv

(***************************************************************************)
(* ensure_table_in never remembers a table whose DDL is not committed with *)
(* all its UNIQUE indexes, and with its columns unless an ADD COLUMN has   *)
(* failed on it, for any interleaving of calls, transactions, lock         *)
(* timeouts, dropped futures and restarts.                                 *)
(***************************************************************************)
THEOREM SqliteCacheSound ==
    ASSUME SchemaIsNamed
    PROVE  SpecUpgraded => []CacheSound
BY SqliteInvariant, PTL DEF IInv

(***************************************************************************)
(* No statement runs before its table is there in what its connection      *)
(* sees, with its columns unless an ADD COLUMN has failed on it.           *)
(***************************************************************************)
THEOREM SqliteFindsTables ==
    ASSUME SchemaIsNamed
    PROVE  SpecUpgraded => []StatementsFindTheirTable
<1>1. IInv => StatementsFindTheirTable
  BY DEF IInv, Phase, AtWork, StatementsFindTheirTable
<1> QED
  BY <1>1, SqliteInvariant, PTL

(***************************************************************************)
(* No two rows of a remembered table collide, whatever an older version    *)
(* had left in the file.                                                   *)
(***************************************************************************)
THEOREM SqliteUniqueRows ==
    ASSUME SchemaIsNamed
    PROVE  SpecUpgraded => []RememberedTablesAreUnique
<1>1. IInv => RememberedTablesAreUnique
  BY DEF IInv, CacheSound, Ready, Indexed, Honest, RememberedTablesAreUnique
<1> QED
  BY <1>1, SqliteInvariant, PTL

(***************************************************************************)
(* What a transaction has read stays true until it commits.                *)
(***************************************************************************)
THEOREM SqliteTransactionsAlone ==
    ASSUME SchemaIsNamed
    PROVE  SpecUpgraded => CommittedUnderATransaction
<1>1. IInv /\ [Next]_vars => [\A c \in Clients : writer = c /\ writer' = c => db' = db]_vars
  BY NextKeeps, StutterKeeps DEF Kept
<1> QED
  BY <1>1, SqliteInvariant, PTL DEF SpecUpgraded, CommittedUnderATransaction

(***************************************************************************)
(* And all of it on a new database.                                        *)
(***************************************************************************)
COROLLARY SqliteNewDatabase ==
    ASSUME SchemaIsNamed
    PROVE  Spec => [](CacheSound /\ StatementsFindTheirTable /\ RememberedTablesAreUnique)
<1>1. Spec => SpecUpgraded
  BY NewIsUpgraded, PTL DEF Spec, SpecUpgraded
<1> QED
  BY <1>1, SqliteCacheSound, SqliteFindsTables, SqliteUniqueRows, PTL

-----------------------------------------------------------------------------
(* On a new database.                                                      *)

Backed(d, t) == GroupsOf(t) \subseteq d.uniq

(* Every row is the running version's, under all its UNIQUE indexes.       *)
AllIndexed(d) == \A k \in Present(d.rows) : d.rows[k] \in Rows /\ Backed(d, TableOf[k])

(* A statement finds the indexes of its table; what a batch has not        *)
(* written, it has not counted.                                            *)
Prepared(c) ==
    /\ pc[c] \in AtWork => \A t \in want[c] : Backed(Seen(c), t)
    /\ call[c] # "transaction" /\ writer # c => count[c] = 0

(* The entries a batch has written land, and are what it would commit.     *)
Pending(c) ==
    pc[c] = "entries" /\ writer = c =>
        \E b \in Batches : /\ Len(b) = count[c]
                           /\ Lands(db.rows, b)
                           /\ work.rows = After(db.rows, b, Len(b))

RInv ==
    /\ AllIndexed(db)
    /\ writer # Nobody => AllIndexed(work)
    /\ \A c \in Clients : Prepared(c) /\ Pending(c)

-----------------------------------------------------------------------------
(* Databases whose rows are all indexed.                                   *)

LEMMA SeenIsIndexed ==
    ASSUME IInv, RInv, NEW c \in Clients
    PROVE  AllIndexed(Seen(c)) /\ Seen(c) \in Databases /\ Honest(Seen(c))
BY SeenIsHonest, SqliteAssumption DEF RInv, Seen

(* A schema that has grown over the same rows.                             *)
LEMMA BackedGrows ==
    ASSUME NEW d, NEW e, Grows(d, e), NEW t, Backed(d, t)
    PROVE  Backed(e, t)
BY DEF Grows, Backed

LEMMA GrownIsIndexed ==
    ASSUME NEW d, NEW e, AllIndexed(d), Grows(d, e), e.rows = d.rows
    PROVE  AllIndexed(e)
BY BackedGrows DEF AllIndexed

(* One more row, in a table that is ready.                                 *)
LEMMA RowIsIndexed ==
    ASSUME NEW d \in Databases, AllIndexed(d), NEW k \in Keys, NEW row \in Rows,
           Backed(d, TableOf[k])
    PROVE  AllIndexed(WithRow(d, k, row))
<1> DEFINE e == WithRow(d, k, row)
<1>1. /\ e.rows = [d.rows EXCEPT ![k] = row] /\ e.made = d.made /\ e.full = d.full
      /\ e.uniq = d.uniq /\ d.rows \in Contents
  BY DEF Databases, WithRow
<1>2. \A t : Backed(d, t) <=> Backed(e, t)
  BY <1>1 DEF Backed
<1>3. \A j \in Keys : e.rows[j] = IF j = k THEN row ELSE d.rows[j]
  BY <1>1 DEF Contents
<1> QED
  BY <1>2, <1>3 DEF AllIndexed, Present

(* Fewer rows.                                                             *)
LEMMA RestIsIndexed ==
    ASSUME NEW d \in Databases, AllIndexed(d), NEW ks
    PROVE  /\ AllIndexed(WithoutRows(d, ks))
           /\ WithoutRows(d, ks).rows = [k \in Keys |-> IF k \in ks THEN NoRow ELSE d.rows[k]]
<1> DEFINE e == WithoutRows(d, ks)
<1>1. /\ e.rows = [k \in Keys |-> IF k \in ks THEN NoRow ELSE d.rows[k]]
      /\ e.made = d.made /\ e.full = d.full /\ e.uniq = d.uniq
  BY DEF Databases, WithoutRows
<1>2. \A t : Backed(d, t) <=> Backed(e, t)
  BY <1>1 DEF Backed
<1> QED
  BY <1>1, <1>2 DEF AllIndexed, Present

(* In a table that is ready an index refuses exactly what clashes.         *)
LEMMA RefusedIsClash ==
    ASSUME NEW d \in Databases, AllIndexed(d), NEW k \in Keys, NEW row \in Rows,
           Backed(d, TableOf[k])
    PROVE  Refused(d, k, row) <=> Clashes(d.rows, k, row)
<1>1. d.uniq \subseteq Groups /\ GroupsOf(TableOf[k]) \subseteq d.uniq
  BY DEF Databases, Backed
<1>2. ASSUME NEW j \in Present(d.rows)
      PROVE  j \in Keys /\ d.rows[j] \in Rows
  BY <1>2 DEF AllIndexed, Present
<1>3. \A g \in GroupsOf(TableOf[k]) : \A other :
        Equal(g.cols, row, other) <=> \A col \in g.cols : row[col] = other[col]
  BY SchemaAssumption DEF GroupsOf, Rows, Equal
<1>4. \A g : g \in d.uniq /\ TableOf[k] = g.table <=> g \in GroupsOf(TableOf[k])
  BY <1>1 DEF GroupsOf
<1>5. Refused(d, k, row)
        <=> \E j \in Present(d.rows) \ {k} : \E g \in GroupsOf(TableOf[k]) :
                TableOf[j] = TableOf[k] /\ Equal(g.cols, row, d.rows[j])
  BY <1>4 DEF Refused, GroupsOf
<1>6. \A j \in Present(d.rows) :
        (\E g \in GroupsOf(TableOf[k]) : Equal(g.cols, row, d.rows[j]))
            <=> Claims(TableOf[k], row) \cap Claims(TableOf[k], d.rows[j]) # {}
  BY <1>2, <1>3, SharedClaim
<1> QED
  BY <1>5, <1>6 DEF Clashes

(* Rows under honest indexes claim nothing twice.                          *)
LEMMA IndexedIsUnique ==
    ASSUME NEW d \in Databases, AllIndexed(d), Honest(d), NEW k \in Present(d.rows)
    PROVE  ~ Clashes(d.rows, k, d.rows[k])
<1>1. k \in Keys /\ d.rows[k] \in Rows /\ Backed(d, TableOf[k])
  BY DEF AllIndexed, Present
<1>2. ~ Refused(d, k, d.rows[k])
  BY DEF Refused, Honest, HasDuplicates, Existing, Equal
<1> QED
  BY <1>1, <1>2, RefusedIsClash

(* A group without its index belongs to a table without rows.              *)
LEMMA UnindexedIsEmpty ==
    ASSUME SchemaIsNamed, NEW d \in Databases, AllIndexed(d), NEW g \in Groups, ~ Named(d, g)
    PROVE  ~ HasDuplicates(d, g)
<1>1. g \notin d.uniq
  BY DEF Named
<1>2. \A k \in Present(d.rows) : TableOf[k] # g.table
  BY <1>1 DEF AllIndexed, Backed, GroupsOf
<1> QED
  BY <1>2 DEF HasDuplicates

-----------------------------------------------------------------------------
(* One step of one client.                                                 *)

(* The step moves no other client, and leaves c prepared.                  *)
Rests(c) ==
    /\ Prepared(c)' /\ Pending(c)'
    /\ \A o \in Clients \ {c} :
        pc'[o] = pc[o] /\ call'[o] = call[o] /\ want'[o] = want[o] /\ count'[o] = count[o]

(* While another holds the write lock, c changes nothing.                  *)
LEMMA LockedOutIsQuiet ==
    ASSUME NEW c \in Clients, NEW e, Moves(c, e), writer \notin {c, Nobody}
    PROVE  UNCHANGED <<db, work, writer>>
BY DEF Moves, Store, Committed, Undone

LEMMA StepKeepsRows ==
    ASSUME IInv, RInv, IInv', NEW c \in Clients, NEW e \in Databases,
           Grows(Seen(c), e), Honest(e), AllIndexed(e), Moves(c, e), Rests(c)
    PROVE  RInv'
<1>1. /\ \A o \in Clients : Grows(Seen(o), Seen(o)') \/ (o = c /\ pc'[c] = "idle")
      /\ \A o \in Clients \ {c} : writer = o <=> writer' = o
  BY SeenGrows
<1>2. AllIndexed(db') /\ (writer' # Nobody => AllIndexed(work'))
  <2>1. CASE UNCHANGED <<db, work, writer>>
    BY <2>1 DEF RInv
  <2>2. CASE Store(c, e) /\ writer' = writer /\ writer \in {c, Nobody}
    BY <2>2 DEF RInv, Store
  <2>3. CASE db' = db /\ work' = e /\ writer' = c /\ writer \in {c, Nobody}
    BY <2>3 DEF RInv
  <2>4. CASE Committed(c) \/ Undone(c)
    BY <2>4, SqliteAssumption DEF RInv, Committed, Undone
  <2> QED
    BY <2>1, <2>2, <2>3, <2>4 DEF Moves
<1>3. ASSUME NEW o \in Clients \ {c}
      PROVE  Prepared(o)' /\ Pending(o)'
  <2>1. /\ pc'[o] = pc[o] /\ call'[o] = call[o] /\ want'[o] = want[o] /\ count'[o] = count[o]
        /\ Prepared(o) /\ Pending(o)
    BY DEF Rests, RInv
  <2>2. Grows(Seen(o), Seen(o)') /\ (writer = o <=> writer' = o)
    BY <1>1
  <2>3. Prepared(o)'
    BY <2>1, <2>2, BackedGrows DEF Prepared
  <2>4. Pending(o)'
    <3> SUFFICES ASSUME pc'[o] = "entries", writer' = o PROVE Pending(o)'
      BY DEF Pending
    <3>1. writer = o /\ writer \notin {c, Nobody}
      BY <2>2, SqliteAssumption
    <3>2. UNCHANGED <<db, work, writer>>
      BY <3>1, LockedOutIsQuiet
    <3> QED
      BY <2>1, <3>2 DEF Pending
  <2> QED
    BY <2>3, <2>4
<1> QED
  BY <1>2, <1>3 DEF RInv, Rests, AllIndexed

(* Most steps touch neither database.                                      *)
LEMMA QuietKeepsRows ==
    ASSUME IInv, RInv, IInv', NEW c \in Clients, UNCHANGED <<db, work, writer>>, Rests(c)
    PROVE  RInv'
BY StepKeepsRows, SeenIsIndexed, SeenIsHonest DEF Moves

(* A call that ends.                                                       *)
LEMMA LeavingRests ==
    ASSUME IInv, RInv, NEW c \in Clients, Leave(c)
    PROVE  Rests(c) /\ pc'[c] = "idle"
BY DEF Leave, Rests, Prepared, Pending, AtWork, IInv, TypeOK

(* A call that goes on, elsewhere than at its statement.                   *)
LEMMA StayingRests ==
    ASSUME IInv, RInv, NEW c \in Clients, writer' = writer,
           NEW at \in {"tables", "create", "columns", "indexes", "uniques", "body"}, Stay(c, at)
    PROVE  Rests(c)
BY DEF Stay, Rests, Prepared, Pending, AtWork, IInv, TypeOK, RInv

LEMMA EndingRests ==
    ASSUME IInv, RInv, NEW c \in Clients, NEW result, Ends(c, result), writer' = writer
    PROVE  Rests(c)
BY LeavingRests, StayingRests DEF Ends

-----------------------------------------------------------------------------
(* ensure_table_in.                                                        *)

LEMMA NextTableKeepsRows ==
    ASSUME IInv, RInv, IInv', NEW c \in Clients, NextTable(c)
    PROVE  RInv'
<1>1. UNCHANGED <<db, work, writer>> /\ pc[c] = "tables" /\ tables' = tables
  BY DEF NextTable
<1>2. call[c] # "transaction" /\ Seen(c) = db /\ writer # c
  BY <1>1, FreeOfLock DEF IInv, Phase
<1>3. CASE want[c] \subseteq tables /\ Stay(c, "run")
  <2>1. \A t \in want[c] : Backed(db, t)
    BY <1>3 DEF IInv, CacheSound, Ready, Backed
  <2>2. Rests(c)
    BY <1>1, <1>2, <1>3, <2>1 DEF Stay, Rests, Prepared, Pending, Seen, RInv, IInv, TypeOK
  <2> QED
    BY <1>1, <2>2, QuietKeepsRows
<1>4. ASSUME NEW t, pc' = [pc EXCEPT ![c] = "create"], UNCHANGED <<call, want, count>>
      PROVE  RInv'
  <2>1. Rests(c)
    BY <1>1, <1>4 DEF Rests, Prepared, Pending, AtWork, RInv, IInv, TypeOK
  <2> QED
    BY <1>1, <2>1, QuietKeepsRows
<1> QED
  BY <1>3, <1>4 DEF NextTable

(* A statement of the DDL that has put e in place of what c sees.          *)
LEMMA DdlKeepsRows ==
    ASSUME IInv, RInv, IInv', NEW c \in Clients, NEW e \in Databases,
           Grows(Seen(c), e), Honest(e), e.rows = Seen(c).rows,
           NEW at \in {"columns", "indexes", "uniques"}, Stay(c, at), Writes(c), Store(c, e),
           writer' = writer
    PROVE  RInv' /\ db'.rows = db.rows
<1>1. AllIndexed(e)
  BY GrownIsIndexed, SeenIsIndexed
<1>2. Moves(c, e) /\ Rests(c)
  BY StayingRests DEF Moves, Writes
<1>3. db'.rows = db.rows
  BY DEF Store, Seen
<1> QED
  BY <1>1, <1>2, <1>3, StepKeepsRows

LEMMA CreateTableKeepsRows ==
    ASSUME IInv, RInv, IInv', NEW c \in Clients, CreateTable(c) \/ AddColumns(c)
    PROVE  RInv' /\ db'.rows = db.rows
<1>1. /\ tab[c] \in Tables /\ writer' = writer
      /\ Seen(c) \in Databases /\ Honest(Seen(c))
  <2>1. pc[c] \in Preparing /\ writer' = writer
    BY DEF CreateTable, AddColumns, Preparing
  <2> QED
    BY <2>1, SeenIsHonest DEF IInv, Phase
<1>2. CASE Untouched /\ (Stay(c, "columns") \/ Stay(c, "indexes"))
  <2>1. Rests(c)
    BY <1>1, <1>2, StayingRests
  <2> QED
    BY <1>1, <1>2, <2>1, QuietKeepsRows DEF Untouched
<1>3. CASE Writes(c) /\ Store(c, WithTable(Seen(c), tab[c])) /\ Stay(c, "columns")
  BY <1>1, <1>3, SchemaGrows, DdlKeepsRows DEF WithTable, Databases
<1>4. CASE Writes(c) /\ Store(c, WithColumns(Seen(c), tab[c])) /\ Stay(c, "indexes")
  BY <1>1, <1>4, SchemaGrows, DdlKeepsRows DEF WithColumns, Databases
<1> QED
  BY <1>2, <1>3, <1>4 DEF CreateTable, AddColumns

LEMMA CreateIndexesKeepsRows ==
    ASSUME IInv, RInv, IInv', NEW c \in Clients, CreateIndexes(c)
    PROVE  RInv'
<1>1. UNCHANGED <<db, work, writer>>
  BY DEF CreateIndexes
<1>2. Rests(c)
  BY StayingRests DEF CreateIndexes
<1> QED
  BY <1>1, <1>2, QuietKeepsRows

LEMMA CreateUniqueKeepsRows ==
    ASSUME SchemaIsNamed, IInv, RInv, IInv', NEW c \in Clients, CreateUnique(c)
    PROVE  RInv' /\ db'.rows = db.rows /\ outcome' = outcome
<1>1. PICK g \in GroupsOf(tab[c]) :
        /\ ~ Named(Seen(c), g) /\ Writes(c)
        /\ ~ HasDuplicates(Seen(c), g) =>
                Store(c, WithIndex(Seen(c), g)) /\ Stay(c, "uniques") /\ UNCHANGED outcome
  BY DEF CreateUnique
<1>2. g \in Groups /\ Seen(c) \in Databases /\ Honest(Seen(c)) /\ AllIndexed(Seen(c))
  BY SeenIsIndexed DEF GroupsOf
<1>3. ~ HasDuplicates(Seen(c), g)
  BY <1>1, <1>2, UnindexedIsEmpty
<1>4. /\ WithIndex(Seen(c), g) \in Databases /\ Honest(WithIndex(Seen(c), g))
      /\ Grows(Seen(c), WithIndex(Seen(c), g))
      /\ WithIndex(Seen(c), g).rows = Seen(c).rows
  BY <1>2, <1>3, IndexGrows DEF WithIndex, Databases
<1>5. writer' = writer
  BY DEF CreateUnique
<1> QED
  BY <1>1, <1>3, <1>4, <1>5, DdlKeepsRows

LEMMA EnsuredKeepsRows ==
    ASSUME SchemaIsNamed, IInv, RInv, IInv', NEW c \in Clients, Ensured(c)
    PROVE  RInv'
<1>1. UNCHANGED <<db, work, writer>> /\ pc[c] = "uniques"
  BY DEF Ensured
<1>2. CASE call[c] = "transaction"
  <2>1. Stay(c, "run") /\ want[c] = {tab[c]} /\ writer = c
    BY <1>1, <1>2 DEF Ensured, IInv, Phase, Preparing
  <2>2. GroupsOf(tab[c]) \subseteq Seen(c).uniq
    <3> SUFFICES ASSUME NEW g \in GroupsOf(tab[c]) PROVE g \in Seen(c).uniq
      OBVIOUS
    <3>1. PICK h \in Seen(c).uniq : IndexName[h] = IndexName[g]
      BY DEF Ensured, Named
    <3>2. h \in Groups /\ g \in Groups
      BY SeenIsIndexed DEF Databases, GroupsOf
    <3> QED
      BY <3>1, <3>2 DEF SchemaIsNamed
  <2>3. Backed(Seen(c), tab[c]) /\ Seen(c)' = Seen(c)
    BY <1>1, <2>1, <2>2 DEF Backed, Seen
  <2>4. Rests(c)
    BY <1>1, <1>2, <2>1, <2>3 DEF Stay, Rests, Prepared, Pending, IInv, TypeOK
  <2> QED
    BY <1>1, <2>4, QuietKeepsRows
<1>3. CASE call[c] # "transaction"
  <2>1. Rests(c)
    BY <1>1, <1>3, StayingRests DEF Ensured
  <2> QED
    BY <1>1, <2>1, QuietKeepsRows
<1> QED
  BY <1>2, <1>3

-----------------------------------------------------------------------------
(* Statements.                                                             *)

(* A statement that writes finds its table ready, and outside a            *)
(* transaction it sees what is committed.                                  *)
LEMMA StatementFinds ==
    ASSUME IInv, RInv, NEW c \in Clients, NEW kinds, NEW t, Statement(c, kinds, t)
    PROVE  /\ Backed(Seen(c), t) /\ writer' = writer /\ pc[c] = "run"
           /\ "transaction" \notin kinds => writer # c /\ Seen(c) = db
<1>1. pc[c] = "run" /\ call[c] \in kinds /\ t \in want[c] /\ writer' = writer
  BY DEF Statement
<1>2. Backed(Seen(c), t)
  BY <1>1 DEF RInv, Prepared, AtWork
<1>3. "transaction" \notin kinds => writer # c /\ Seen(c) = db
  BY <1>1, FreeOfLock
<1> QED
  BY <1>1, <1>2, <1>3

LEMMA StoresKeepsRows ==
    ASSUME IInv, RInv, IInv', NEW c \in Clients, NEW e \in Databases,
           Grows(Seen(c), e), Honest(e), AllIndexed(e), Writes(c), Store(c, e),
           writer' = writer, Rests(c)
    PROVE  RInv'
BY StepKeepsRows DEF Moves, Writes

LEMMA SaveKeepsRows ==
    ASSUME IInv, RInv, IInv', NEW c \in Clients, NEW k \in Keys, NEW row \in Rows,
           Save(c, k, row) \/ Insert(c, k, row)
    PROVE  RInv'
<1>1. /\ Backed(Seen(c), TableOf[k]) /\ writer' = writer /\ Writes(c)
      /\ HasColumns(c, TableOf[k])
  BY StatementFinds DEF Save, Insert
<1>2. Rests(c)
  BY <1>1, EndingRests DEF Save, Insert
<1>3. CASE Untouched
  BY <1>1, <1>2, <1>3, QuietKeepsRows DEF Untouched
<1>4. CASE ~ Refused(Seen(c), k, row) /\ Store(c, WithRow(Seen(c), k, row))
  BY <1>1, <1>2, <1>4, SeenIsIndexed, RowKeepsHonest, RowIsIndexed, StoresKeepsRows
  DEF HasColumns
<1> QED
  BY <1>3, <1>4 DEF Save, Insert

LEMMA InsertGuardedKeepsRows ==
    ASSUME IInv, RInv, IInv', NEW c \in Clients, NEW k \in Keys, NEW row \in Rows,
           NEW p, NEW col, InsertGuarded(c, k, row, p, col)
    PROVE  RInv'
<1>1. /\ Backed(Seen(c), TableOf[k]) /\ writer' = writer /\ Writes(c) /\ Seen(c) = db
      /\ HasColumns(c, TableOf[k])
  BY StatementFinds DEF InsertGuarded
<1>2. Rests(c)
  BY <1>1, EndingRests DEF InsertGuarded
<1>3. CASE Untouched
  BY <1>1, <1>2, <1>3, QuietKeepsRows DEF Untouched
<1>4. CASE ~ Refused(db, k, row) /\ Store(c, WithRow(db, k, row))
  BY <1>1, <1>2, <1>4, SeenIsIndexed, RowKeepsHonest, RowIsIndexed, StoresKeepsRows
  DEF HasColumns
<1> QED
  BY <1>3, <1>4 DEF InsertGuarded

LEMMA DeletesKeepRows ==
    ASSUME IInv, RInv, IInv', NEW c \in Clients, NEW ks, Writes(c),
           Store(c, WithoutRows(Seen(c), ks)), writer' = writer, Rests(c)
    PROVE  RInv'
BY SeenIsIndexed, DeleteKeepsHonest, RestIsIndexed, StoresKeepsRows

LEMMA DeleteKeepsRows ==
    ASSUME IInv, RInv, IInv', NEW c \in Clients,
           \/ \E k \in Keys : Delete(c, k)
           \/ \E t \in Tables, f \in Filters : DeleteWhere(c, t, f)
    PROVE  RInv'
<1>1. /\ writer' = writer /\ Writes(c) /\ Ends(c, "ok")
      /\ \E ks : Store(c, WithoutRows(Seen(c), ks))
  BY DEF Delete, DeleteWhere, Statement
<1> QED
  BY <1>1, EndingRests, DeletesKeepRows

LEMMA TxDeleteKeepsRows ==
    ASSUME IInv, RInv, IInv', NEW c \in Clients, NEW k \in Keys, TxDelete(c, k)
    PROVE  RInv'
<1>1. writer = c /\ writer' = writer /\ Rests(c)
  BY EndingRests DEF TxDelete, IInv, Phase, InBody
<1>2. AllIndexed(WithoutRows(Seen(c), {k})) /\ Moves(c, WithoutRows(Seen(c), {k}))
  BY <1>1, SeenIsIndexed, RestIsIndexed DEF TxDelete, Moves
<1> QED
  BY <1>1, <1>2, SeenIsIndexed, DeleteKeepsHonest, StepKeepsRows

LEMMA ReplaceDeleteKeepsRows ==
    ASSUME IInv, RInv, IInv', NEW c \in Clients, NEW t, NEW f, ReplaceDelete(c, t, f)
    PROVE  RInv'
<1>1. writer' = writer /\ pc[c] = "run" /\ call[c] = "replace" /\ Writes(c)
  BY DEF ReplaceDelete, Statement
<1>2. writer # c /\ Seen(c) = db
  BY <1>1, FreeOfLock
<1>3. Rests(c)
  BY <1>1, <1>2 DEF ReplaceDelete, Rests, Prepared, Pending, AtWork, RInv, IInv, TypeOK
<1> QED
  BY <1>1, <1>2, <1>3, DeletesKeepRows DEF ReplaceDelete

-----------------------------------------------------------------------------
(* Batches.                                                                *)

LEMMA BatchBeginKeepsRows ==
    ASSUME IInv, RInv, IInv', NEW c \in Clients, BatchBegin(c)
    PROVE  RInv'
<1>1. UNCHANGED <<db, work, writer>> /\ pc[c] = "run" /\ call[c] = "batch" /\ Stay(c, "entries")
  BY DEF BatchBegin
<1>2. writer # c
  BY <1>1, FreeOfLock
<1>3. Rests(c)
  BY <1>1, <1>2 DEF Stay, Rests, Prepared, Pending, AtWork, Seen, RInv, IInv, TypeOK
<1> QED
  BY <1>1, <1>3, QuietKeepsRows

(* What a batch has written so far, its first entry still to come          *)
(* included.                                                               *)
LEMMA BatchSoFar ==
    ASSUME IInv, RInv, NEW c \in Clients, pc[c] = "entries"
    PROVE  \E b \in Batches : /\ Len(b) = count[c]
                              /\ Lands(db.rows, b)
                              /\ Seen(c).rows = After(db.rows, b, Len(b))
<1>1. CASE writer = c
  BY <1>1 DEF RInv, Pending, Seen
<1>2. CASE writer # c
  <2>1. count[c] = 0 /\ Seen(c) = db /\ db.rows \in Contents
    <3>1. call[c] # "transaction"
      BY <1>2 DEF IInv, Phase
    <3> QED
      BY <1>2, <3>1 DEF RInv, Prepared, Seen, IInv, TypeOK, Databases
  <2>2. Lands(db.rows, << >>)
    BY DEF Lands
  <2>3. Seen(c).rows = After(db.rows, << >>, Len(<< >>))
    BY <2>1, AfterNone, EmptyBatch
  <2> QED
    BY <2>1, <2>2, <2>3, EmptyBatch
<1> QED
  BY <1>1, <1>2

LEMMA BatchEntryKeepsRows ==
    ASSUME IInv, RInv, IInv', NEW c \in Clients, NEW k \in Keys, NEW row \in Rows,
           BatchEntry(c, k, row)
    PROVE  RInv'
<1> DEFINE d == Seen(c)
           e == WithRow(d, k, row)
<1>1. /\ pc[c] = "entries" /\ count[c] < MaxBatch /\ TableOf[k] \in want[c] /\ Writes(c) /\ HasColumns(c, TableOf[k])
      /\ Backed(d, TableOf[k]) /\ d \in Databases /\ Honest(d) /\ AllIndexed(d)
  BY SeenIsIndexed DEF BatchEntry, RInv, Prepared, AtWork
<1>2. CASE Refused(d, k, row)
  <2>1. Undone(c) /\ Rests(c) /\ pc'[c] = "idle"
    BY <1>2, LeavingRests DEF BatchEntry
  <2> QED
    BY <1>1, <2>1, SeenIsHonest, StepKeepsRows DEF Moves
<1>3. CASE ~ Refused(d, k, row)
  <2>1. /\ work' = e /\ writer' = c /\ db' = db
        /\ count' = [count EXCEPT ![c] = @ + 1]
        /\ UNCHANGED <<pc, call, want>>
    BY <1>3 DEF BatchEntry
  <2>2. e \in Databases /\ Honest(e) /\ Grows(d, e) /\ AllIndexed(e) /\ Moves(c, e)
    BY <1>1, <1>3, <2>1, RowKeepsHonest, RowIsIndexed DEF Moves, Writes, HasColumns
  <2>3. PICK b \in Batches : /\ Len(b) = count[c] /\ Lands(db.rows, b)
                             /\ d.rows = After(db.rows, b, Len(b))
    BY <1>1, BatchSoFar
  <2> DEFINE en == [key |-> k, row |-> row]
             a == Append(b, en)
  <2>4. en \in Entries /\ a \in Batches /\ Len(a) = count[c] + 1
    BY <1>1, <2>3, EntryAppended DEF Entries
  <2>5. Lands(db.rows, a)
    <3>1. ~ Clashes(d.rows, k, row)
      BY <1>1, <1>3, RefusedIsClash
    <3> QED
      BY <1>1, <2>3, <2>4, <3>1, LandsAppend
  <2>6. work'.rows = After(db.rows, a, Len(a))
    <3>1. e.rows = [d.rows EXCEPT ![k] = row] /\ d.rows \in Contents
      BY <1>1 DEF Databases, WithRow
    <3>2. \A j \in Keys : e.rows[j] = IF j = k THEN row ELSE d.rows[j]
      BY <3>1 DEF Contents
    <3>3. \A j \in Keys : After(db.rows, a, Len(b) + 1)[j] = IF j = k THEN row ELSE d.rows[j]
      BY <1>1, <2>3, <2>4, AfterAppend
    <3>4. e.rows = [j \in Keys |-> e.rows[j]]
      BY <3>1 DEF Contents
    <3>5. After(db.rows, a, Len(b) + 1) = [j \in Keys |-> After(db.rows, a, Len(b) + 1)[j]]
      BY AfterIsFunction, Zenon
    <3>6. e.rows = After(db.rows, a, Len(b) + 1)
      <4> HIDE DEF a, e, d
      <4> QED
        BY <3>2, <3>3, <3>4, <3>5
    <3> QED
      BY <2>1, <2>3, <2>4, <3>6
  <2>7. Pending(c)'
    <3>1. count'[c] = count[c] + 1
      BY <2>1 DEF IInv, TypeOK
    <3> HIDE DEF a
    <3> QED
      BY <2>1, <2>4, <2>5, <2>6, <3>1 DEF Pending
  <2>8. Prepared(c)'
    <3>1. Seen(c)' = e
      BY <2>1 DEF Seen
    <3>2. \A t \in want[c] : Backed(d, t)
      BY <1>1 DEF RInv, Prepared, AtWork
    <3> QED
      BY <2>1, <2>2, <3>1, <3>2, BackedGrows DEF Prepared
  <2>9. Rests(c)
    BY <2>1, <2>7, <2>8 DEF Rests, IInv, TypeOK
  <2> QED
    BY <2>2, <2>9, StepKeepsRows
<1> QED
  BY <1>2, <1>3

(* The end of a batch or of a transaction, and a call that is given up.    *)
LEMMA FinishKeepsRows ==
    ASSUME IInv, RInv, IInv', NEW c \in Clients, Committed(c) \/ Undone(c), Leave(c)
    PROVE  RInv'
<1>1. Moves(c, Seen(c)) /\ Rests(c)
  BY LeavingRests DEF Moves
<1> QED
  BY <1>1, SeenIsIndexed, SeenIsHonest, StepKeepsRows

-----------------------------------------------------------------------------
(* Transactions.                                                           *)

LEMMA BeginKeepsRows ==
    ASSUME IInv, RInv, IInv', NEW c \in Clients, Begin(c)
    PROVE  RInv'
<1>1. pc[c] = "begin" /\ writer # c /\ writer \in {c, Nobody} /\ Seen(c) = db
  BY DEF Begin, Writes, IInv, Phase, Seen
<1>2. call[c] = "transaction"
  BY <1>1 DEF IInv, Phase
<1>3. db' = db /\ work' = Seen(c) /\ writer' = c /\ Stay(c, "body")
  BY <1>1 DEF Begin
<1>4. Rests(c)
  BY <1>2, <1>3 DEF Stay, Rests, Prepared, Pending, AtWork, IInv, TypeOK
<1> QED
  BY <1>1, <1>3, <1>4, SeenIsIndexed, SeenIsHonest, StepKeepsRows DEF Moves

LEMMA OperationKeepsRows ==
    ASSUME IInv, RInv, IInv', NEW c \in Clients, NEW t \in Tables,
           TxOperation(c, t) \/ TxBare(c, t)
    PROVE  RInv'
<1>1. PICK at \in {"run", "create", "bare"} :
        Operation(c, t, at) /\ (at = "run" => t \in tables)
  BY DEF TxOperation, TxBare
<1>2. /\ UNCHANGED <<db, work, writer, call>> /\ pc[c] = "body"
      /\ pc'[c] = at /\ want'[c] = {t}
  BY <1>1 DEF Operation, IInv, TypeOK
<1>3. call[c] = "transaction" /\ writer = c
  BY <1>2 DEF IInv, Phase, InBody
<1>4. at = "run" => Backed(Seen(c), t)
  <2> SUFFICES ASSUME at = "run" PROVE Backed(work, t)
    BY <1>3 DEF Seen
  <2>1. Backed(db, t) /\ Grows(db, work)
    BY <1>1, <1>3, SqliteAssumption DEF IInv, CacheSound, Ready, Backed, Ahead
  <2> QED
    BY <2>1, BackedGrows
<1>5. Prepared(c)' /\ Pending(c)'
  BY <1>2, <1>3, <1>4 DEF Prepared, Pending, AtWork, Seen
<1>6. Rests(c)
  BY <1>1, <1>5 DEF Operation, Rests, IInv, TypeOK
<1> QED
  BY <1>2, <1>6, QuietKeepsRows

LEMMA TxLoadKeepsRows ==
    ASSUME IInv, RInv, IInv', NEW c \in Clients, TxLoad(c)
    PROVE  RInv'
<1>1. UNCHANGED <<db, work, writer>> /\ Stay(c, "body")
  BY DEF TxLoad, Untouched
<1> QED
  BY <1>1, StayingRests, QuietKeepsRows

-----------------------------------------------------------------------------
(* Every step.                                                             *)

LEMMA ReadKeepsRows ==
    ASSUME IInv, RInv, IInv', NEW c \in Clients, NEW t, Read(c, t) \/ WriteFails(c, t)
    PROVE  RInv'
<1>1. UNCHANGED <<db, work, writer>> /\ \E result : Ends(c, result)
  BY DEF Read, WriteFails, Fails, Statement, Untouched
<1> QED
  BY <1>1, EndingRests, QuietKeepsRows

LEMMA ArriveKeepsRows ==
    ASSUME IInv, RInv, IInv', NEW c \in Clients, Arrive(c)
    PROVE  RInv'
<1>1. UNCHANGED <<db, work, writer, count>> /\ pc[c] = "idle"
  BY DEF Arrive, Start, StartTransaction
<1>2. writer # c /\ call[c] # "transaction"
  BY <1>1 DEF IInv, Phase
<1>3. Rests(c)
  BY <1>1, <1>2 DEF Arrive, Start, StartTransaction, Rests, Prepared, Pending, AtWork,
                    RInv, IInv, TypeOK
<1> QED
  BY <1>1, <1>3, QuietKeepsRows

LEMMA WaitingKeepsRows ==
    ASSUME IInv, RInv, IInv', NEW c \in Clients, Busy(c) \/ Starved(c)
    PROVE  RInv'
<1>1. UNCHANGED <<db, work, writer>>
  BY DEF Busy, Starved
<1>2. Leave(c) \/ Stay(c, "indexes")
  BY DEF Busy, Starved
<1>3. Rests(c)
  BY <1>1, <1>2, LeavingRests, StayingRests
<1> QED
  BY <1>1, <1>3, QuietKeepsRows

LEMMA RestartKeepsRows ==
    ASSUME RInv, Restart
    PROVE  RInv'
<1>1. db' = db /\ writer' = Nobody
  BY DEF Restart
<1>2. ASSUME NEW c \in Clients
      PROVE  pc'[c] = "idle" /\ count'[c] = 0
  BY DEF Restart
<1>3. ASSUME NEW c \in Clients
      PROVE  Prepared(c)' /\ Pending(c)'
  BY <1>2 DEF Prepared, Pending, AtWork
<1> QED
  BY <1>1, <1>3 DEF RInv, AllIndexed

LEMMA NextKeepsRows ==
    ASSUME SchemaIsNamed, IInv, RInv, IInv', [Next]_vars
    PROVE  RInv'
<1>1. ASSUME NEW c \in Clients, Ensuring(c)
      PROVE  RInv'
  BY <1>1, NextTableKeepsRows, CreateTableKeepsRows, CreateIndexesKeepsRows,
     CreateUniqueKeepsRows, EnsuredKeepsRows DEF Ensuring
<1>2. ASSUME NEW c \in Clients, Running(c)
      PROVE  RInv'
  <2>1. ASSUME NEW k \in Keys, NEW row \in Rows,
               Save(c, k, row) \/ Insert(c, k, row) \/ BatchEntry(c, k, row)
        PROVE  RInv'
    BY <2>1, SaveKeepsRows, BatchEntryKeepsRows
  <2>2. ASSUME NEW t \in Tables, NEW f, Read(c, t) \/ WriteFails(c, t) \/ ReplaceDelete(c, t, f)
        PROVE  RInv'
    BY <2>2, ReadKeepsRows, ReplaceDeleteKeepsRows
  <2> QED
    BY <1>2, <2>1, <2>2, InsertGuardedKeepsRows, DeleteKeepsRows, TxDeleteKeepsRows DEF Running
<1>3. ASSUME NEW c \in Clients, Transacting(c)
      PROVE  RInv'
  <2>1. CASE BatchCommit(c) \/ BatchEntryFails(c) \/ TxCommit(c) \/ TxRollback(c)
    BY <2>1, FinishKeepsRows DEF BatchCommit, BatchEntryFails, TxCommit, TxRollback
  <2> QED
    BY <1>3, <2>1, BatchBeginKeepsRows, BeginKeepsRows, TxLoadKeepsRows, OperationKeepsRows
    DEF Transacting
<1>4. ASSUME NEW c \in Clients, Dropped(c)
      PROVE  RInv'
  BY <1>4, FinishKeepsRows DEF Dropped
<1>5. CASE UNCHANGED vars
  BY <1>5 DEF vars, RInv, AllIndexed, Prepared, Pending, Seen, Backed
<1> QED
  BY <1>1, <1>2, <1>3, <1>4, <1>5, ArriveKeepsRows, WaitingKeepsRows, RestartKeepsRows
  DEF Next, Step

LEMMA InitIsIndexed ==
    ASSUME Init
    PROVE  RInv
<1>1. Present(db.rows) = {} /\ writer = Nobody
  BY DEF Init, NoDatabase, Present, Opened
<1>2. \A c \in Clients : pc[c] = "idle" /\ count[c] = 0
  BY DEF Init, Opened
<1> QED
  BY <1>1, <1>2 DEF RInv, AllIndexed, Prepared, Pending, AtWork

(***************************************************************************)
(* On a new database every row that is stored, or that an open transaction *)
(* would store, lies under all the UNIQUE indexes of its type, and what a  *)
(* batch has written so far is what its entries make of the committed      *)
(* rows: nobody commits beside it.                                         *)
(***************************************************************************)
THEOREM SqliteRowsAreIndexed ==
    ASSUME SchemaIsNamed
    PROVE  Spec => [](IInv /\ RInv)
<1>1. Init => IInv /\ RInv
  BY NewIsUpgraded, InitHolds, InitIsIndexed
<1>2. IInv /\ RInv /\ [Next]_vars => (IInv /\ RInv)'
  BY NextKeeps, StutterKeeps, NextKeepsRows DEF Kept
<1> QED
  BY <1>1, <1>2, PTL DEF Spec

-----------------------------------------------------------------------------
(* Every step is a step of UniqueTable.                                    *)

(* The schema UniqueTable is given is this module's own.                   *)
LEMMA SharedSchema ==
    /\ Abs!Rows = Rows /\ Abs!EqFilters = EqFilters /\ Abs!Batches = Batches
    /\ Abs!Contents = Contents
    /\ \A kv, k, row : Abs!Clashes(kv, k, row) = Clashes(kv, k, row)
    /\ \A kv : Abs!Present(kv) = Present(kv)
    /\ \A kv, b, n : Abs!After(kv, b, n) = After(kv, b, n)
    /\ \A kv, b : Abs!Lands(kv, b) = Lands(kv, b)
    /\ \A kv, t, p, col, n : Abs!Blocked(kv, t, p, col, n) = Blocked(kv, t, p, col, n)
<1>1. \A kv : Abs!Present(kv) = Present(kv)
  BY DEF Abs!Present, Present
<1>2. ASSUME NEW kv, NEW k, NEW row PROVE Abs!Clashes(kv, k, row) = Clashes(kv, k, row)
  <2>1. ASSUME NEW t, NEW r PROVE Abs!Claims(t, r) = Claims(t, r)
    BY DEF Abs!Claims, Abs!GroupsOf, Abs!UniqueKey, Abs!Cell, Claims, GroupsOf, UniqueKey, Cell
  <2> QED
    BY <1>1, <2>1 DEF Abs!Clashes, Clashes
<1>3. ASSUME NEW kv, NEW b, NEW n PROVE Abs!After(kv, b, n) = After(kv, b, n)
  BY DEF Abs!After, After
<1>4. ASSUME NEW kv, NEW b PROVE Abs!Lands(kv, b) = Lands(kv, b)
  BY <1>2, <1>3 DEF Abs!Lands, Abs!EntryLands, Lands, EntryLands
<1>5. ASSUME NEW kv, NEW t, NEW p, NEW col, NEW n
      PROVE  Abs!Blocked(kv, t, p, col, n) = Blocked(kv, t, p, col, n)
  BY DEF Abs!Blocked, Abs!Matching, Abs!Matches, Abs!InRange, Abs!KeysOf,
         Blocked, Matching, Matches, InRange, KeysOf
<1>6. Abs!Rows = Rows /\ Abs!EqFilters = EqFilters /\ Abs!Contents = Contents
  BY DEF Abs!Rows, Abs!EqFilters, Abs!Contents, Abs!Stored, Rows, EqFilters, Contents, Stored
<1>7. Abs!Batches = Batches
  BY <1>6 DEF Abs!Batches, Abs!Entries, Batches, Entries
<1> QED
  BY <1>1, <1>2, <1>3, <1>4, <1>5, <1>6, <1>7

Refines == Abs!Next \/ UNCHANGED Abs!vars

LEMMA QuietRefines ==
    ASSUME db'.rows = db.rows, outcome' \in {outcome, "failed"}
    PROVE  Refines
BY DEF Refines, Abs!vars, Abs!Next, Abs!Fail

(* What a transaction does before its commit nobody sees.                  *)
LEMMA UncommittedRefines ==
    ASSUME IInv, NEW c \in Clients, call[c] = "transaction", pc[c] # "begin",
           NEW e, Untouched \/ Store(c, e), NEW result, Ends(c, result)
    PROVE  Refines
<1>1. db' = db
  BY DEF IInv, Phase, Untouched, Store
<1>2. outcome' = outcome
  BY DEF Ends
<1> QED
  BY <1>1, <1>2, QuietRefines

(* A row that is stored by a single statement.                             *)
LEMMA RowIsStored ==
    ASSUME IInv, NEW c \in Clients, writer # c, NEW k, NEW row,
           Store(c, WithRow(db, k, row))
    PROVE  db'.rows = [db.rows EXCEPT ![k] = row]
BY DEF Store, WithRow, IInv, TypeOK, Databases

LEMMA SaveRefines ==
    ASSUME IInv, RInv, NEW c \in Clients, NEW k \in Keys, NEW row \in Rows,
           Save(c, k, row) \/ Insert(c, k, row)
    PROVE  Refines
<1>1. pc[c] = "run" /\ call[c] \in {"write", "transaction"}
  BY DEF Save, Insert, Statement
<1>2. CASE call[c] = "transaction"
  BY <1>1, <1>2, UncommittedRefines DEF Save, Insert
<1>3. CASE call[c] = "write"
  <2>1. writer # c /\ Seen(c) = db /\ Backed(db, TableOf[k])
    BY <1>1, <1>3, FreeOfLock, StatementFinds DEF Save, Insert
  <2>2. Refused(db, k, row) <=> Clashes(db.rows, k, row)
    BY <2>1, SeenIsIndexed, RefusedIsClash
  <2>3. CASE Save(c, k, row)
    <3>1. Abs!Put(k, row)
      BY <1>3, <2>1, <2>2, <2>3, RowIsStored, SharedSchema
      DEF Save, Ends, Untouched, Abs!Put
    <3> QED
      BY <3>1, SharedSchema DEF Refines, Abs!Next
  <2>4. CASE Insert(c, k, row)
    <3>1. Abs!Create(k, row)
      BY <1>3, <2>1, <2>2, <2>4, RowIsStored, SharedSchema
      DEF Insert, Ends, Untouched, Abs!Create
    <3> QED
      BY <3>1, SharedSchema DEF Refines, Abs!Next
  <2> QED
    BY <2>3, <2>4
<1> QED
  BY <1>1, <1>2, <1>3

LEMMA InsertGuardedRefines ==
    ASSUME HighIds = {}, IInv, RInv, NEW c \in Clients, NEW k \in Keys, NEW row \in Rows,
           NEW p \in EqFilters, NEW col \in Cols, InsertGuarded(c, k, row, p, col)
    PROVE  Refines
<1>1. pc[c] = "run" /\ call[c] = "write" /\ Statement(c, {"write"}, TableOf[k])
  BY DEF InsertGuarded, Statement
<1>2. writer # c /\ Seen(c) = db /\ Backed(db, TableOf[k])
  BY <1>1, FreeOfLock, StatementFinds
<1>3. Refused(db, k, row) <=> Clashes(db.rows, k, row)
  BY <1>2, SeenIsIndexed, RefusedIsClash
<1>4. Blocked(db.rows, TableOf[k], p, col, NumOf[row[col]])
        <=> \E j \in Selected(db, TableOf[k], p) :
                db.rows[j][col] # Missing /\ NumOf[db.rows[j][col]] >= NumOf[row[col]]
  BY DEF Blocked, Matching, Selected, InRange
<1>5. ASSUME Untouched, Ends(c, "rejected"),
             \/ Blocked(db.rows, TableOf[k], p, col, NumOf[row[col]])
             \/ db.rows[k] # NoRow
             \/ Clashes(db.rows, k, row)
      PROVE  Abs!CreateGuarded(k, row, p, col)
  BY <1>1, <1>5, SharedSchema DEF Ends, Untouched, Abs!CreateGuarded
<1>6. ASSUME Store(c, WithRow(db, k, row)), Ends(c, "landed"),
             ~ Blocked(db.rows, TableOf[k], p, col, NumOf[row[col]]),
             ~ Clashes(db.rows, k, row)
      PROVE  Abs!CreateGuarded(k, row, p, col)
  BY <1>1, <1>2, <1>6, RowIsStored, SharedSchema DEF Ends, Abs!CreateGuarded
<1>7. Abs!CreateGuarded(k, row, p, col)
  BY <1>3, <1>4, <1>5, <1>6 DEF InsertGuarded
<1> QED
  BY <1>7, SharedSchema DEF Refines, Abs!Next

(* Rows that a single statement deletes.                                   *)
LEMMA DeletedRefines ==
    ASSUME IInv, RInv, NEW c \in Clients, writer # c, NEW ks \in SUBSET Keys,
           Store(c, WithoutRows(db, ks)), outcome' \in {outcome, "ok"}
    PROVE  Refines
<1>1. db'.rows = [k \in Keys |-> IF k \in ks THEN NoRow ELSE db.rows[k]]
  BY RestIsIndexed DEF Store, RInv, IInv, TypeOK
<1>2. Abs!Remove(ks)
  BY <1>1 DEF Abs!Remove
<1> QED
  BY <1>2 DEF Refines, Abs!Next

LEMMA DeleteRefines ==
    ASSUME IInv, RInv, NEW c \in Clients, NEW kinds, NEW t, Statement(c, kinds, t),
           NEW ks \in SUBSET Keys, Store(c, WithoutRows(Seen(c), ks)), Ends(c, "ok")
    PROVE  Refines
<1>1. pc[c] = "run"
  BY DEF Statement
<1>2. CASE call[c] = "transaction"
  BY <1>1, <1>2, UncommittedRefines
<1>3. CASE call[c] # "transaction"
  BY <1>1, <1>3, FreeOfLock, DeletedRefines DEF Ends
<1> QED
  BY <1>2, <1>3

LEMMA RunningRefines ==
    ASSUME HighIds = {}, IInv, RInv, NEW c \in Clients, Running(c)
    PROVE  Refines
<1>1. ASSUME NEW t, Read(c, t) \/ WriteFails(c, t)
      PROVE  Refines
  BY <1>1, QuietRefines DEF Read, WriteFails, Fails, Ends, Untouched
<1>2. ASSUME NEW k \in Keys, NEW row \in Rows, BatchEntry(c, k, row)
      PROVE  Refines
  <2>1. CASE ~ Refused(Seen(c), k, row)
    BY <1>2, <2>1, QuietRefines DEF BatchEntry
  <2>2. CASE Refused(Seen(c), k, row)
    <3>1. /\ pc[c] = "entries" /\ count[c] < MaxBatch /\ db' = db /\ outcome' = "conflict"
          /\ Backed(Seen(c), TableOf[k])
      BY <1>2, <2>2 DEF BatchEntry, Undone, RInv, Prepared, AtWork
    <3>2. Clashes(Seen(c).rows, k, row)
      BY <2>2, <3>1, SeenIsIndexed, RefusedIsClash
    <3>3. PICK b \in Batches : /\ Len(b) = count[c] /\ Lands(db.rows, b)
                               /\ Seen(c).rows = After(db.rows, b, Len(b))
      BY <3>1, BatchSoFar
    <3> DEFINE en == [key |-> k, row |-> row]
               a == Append(b, en)
    <3>4. en \in Entries /\ a \in Batches
      BY <3>1, <3>3, EntryAppended DEF Entries
    <3>5. ~ Lands(db.rows, a)
      BY <3>1, <3>2, <3>3, <3>4, LandsAppend
    <3> HIDE DEF a
    <3>6. Abs!PutAll(a)
      BY <3>1, <3>5, SharedSchema DEF Abs!PutAll
    <3> QED
      BY <3>4, <3>6, SharedSchema DEF Refines, Abs!Next
  <2> QED
    BY <2>1, <2>2
<1>3. ASSUME NEW k \in Keys, Delete(c, k)
      PROVE  Refines
  BY <1>3, DeleteRefines DEF Delete
<1>4. ASSUME NEW k \in Keys, TxDelete(c, k)
      PROVE  Refines
  BY <1>4, UncommittedRefines DEF TxDelete, IInv, Phase, InBody
<1>5. ASSUME NEW t \in Tables, NEW f, DeleteWhere(c, t, f)
      PROVE  Refines
  <2>1. Selected(Seen(c), t, f) \in SUBSET Keys
    BY DEF Selected, KeysOf
  <2> QED
    BY <1>5, <2>1, DeleteRefines DEF DeleteWhere
<1>6. ASSUME NEW t \in Tables, NEW f, ReplaceDelete(c, t, f)
      PROVE  Refines
  <2>1. writer # c /\ Selected(db, t, f) \in SUBSET Keys
    BY <1>6, StatementFinds DEF ReplaceDelete, Selected, KeysOf
  <2> QED
    BY <1>6, <2>1, DeletedRefines DEF ReplaceDelete
<1> QED
  BY <1>1, <1>2, <1>3, <1>4, <1>5, <1>6, SaveRefines, InsertGuardedRefines DEF Running

LEMMA BatchCommitRefines ==
    ASSUME IInv, RInv, NEW c \in Clients, BatchCommit(c)
    PROVE  Refines
<1>1. pc[c] = "entries" /\ outcome' = "ok" /\ db' = Seen(c)
  BY DEF BatchCommit, Committed, Seen
<1>2. PICK b \in Batches : Lands(db.rows, b) /\ Seen(c).rows = After(db.rows, b, Len(b))
  BY <1>1, BatchSoFar
<1>3. Abs!PutAll(b)
  BY <1>1, <1>2, SharedSchema DEF Abs!PutAll
<1> QED
  BY <1>3, SharedSchema DEF Refines, Abs!Next

LEMMA TxCommitRefines ==
    ASSUME IInv, RInv, NEW c \in Clients, TxCommit(c)
    PROVE  Refines
<1>1. db' = Seen(c) /\ outcome' = "committed"
  BY DEF TxCommit, Committed, Seen
<1>2. Seen(c) \in Databases /\ \A k \in Present(Seen(c).rows) :
            ~ Clashes(Seen(c).rows, k, Seen(c).rows[k])
  BY SeenIsIndexed, IndexedIsUnique
<1>3. Abs!Transact
  BY <1>1, <1>2, SharedSchema DEF Abs!Transact, Databases
<1> QED
  BY <1>3 DEF Refines, Abs!Next

LEMMA StepRefines ==
    ASSUME SchemaIsNamed, HighIds = {}, IInv, RInv, IInv', [Next]_vars
    PROVE  Refines
<1>1. ASSUME NEW c \in Clients, Ensuring(c)
      PROVE  Refines
  <2>1. CASE NextTable(c) \/ Ensured(c)
    BY <2>1, QuietRefines DEF NextTable, Ensured
  <2>2. CASE CreateTable(c) \/ AddColumns(c)
    BY <2>2, CreateTableKeepsRows, QuietRefines DEF CreateTable, AddColumns
  <2>3. CASE CreateIndexes(c)
    BY <2>3, QuietRefines DEF CreateIndexes
  <2>4. CASE CreateUnique(c)
    BY <2>4, CreateUniqueKeepsRows, QuietRefines
  <2> QED
    BY <1>1, <2>1, <2>2, <2>3, <2>4 DEF Ensuring
<1>2. ASSUME NEW c \in Clients, Transacting(c)
      PROVE  Refines
  <2>1. CASE BatchBegin(c) \/ BatchEntryFails(c) \/ Begin(c) \/ TxLoad(c) \/ TxRollback(c)
    BY <2>1, QuietRefines DEF BatchBegin, BatchEntryFails, Begin, TxLoad, TxRollback,
                              Undone, Untouched
  <2>2. ASSUME NEW t \in Tables, TxOperation(c, t) \/ TxBare(c, t)
        PROVE  Refines
    BY <2>2, QuietRefines DEF TxOperation, TxBare, Operation
  <2> QED
    BY <1>2, <2>1, <2>2, BatchCommitRefines, TxCommitRefines DEF Transacting
<1>3. ASSUME NEW c \in Clients, Arrive(c) \/ Busy(c) \/ Starved(c) \/ Dropped(c)
      PROVE  Refines
  BY <1>3, QuietRefines DEF Arrive, Start, StartTransaction, Busy, Starved, Dropped, Undone
<1>4. CASE Restart
  BY <1>4, QuietRefines DEF Restart
<1>5. CASE UNCHANGED vars
  BY <1>5, QuietRefines DEF vars
<1> QED
  BY <1>1, <1>2, <1>3, <1>4, <1>5, RunningRefines DEF Next, Step

(***************************************************************************)
(* From a new database every behaviour of the SQLite backend is one of     *)
(* UniqueTable, for any clients, tables, groups and batches: a batch lands *)
(* whole or not at all, a transaction commits in one step and leaves no    *)
(* collision, nothing else that fails changes a row, and a write is        *)
(* refused only for a claim that another row holds.  Ids of the byte 0xff, *)
(* which another backend's ranges leave out, play no part here.            *)
(***************************************************************************)
THEOREM SqliteImplementsUniqueTable ==
    ASSUME SchemaIsNamed, HighIds = {}
    PROVE  Spec => ImplementsUniqueTable
<1>1. Init => Abs!Init
  BY DEF Init, Opened, NoDatabase, Abs!Init
<1>2. IInv /\ RInv /\ IInv' /\ [Next]_vars => [Abs!Next]_Abs!vars
  BY StepRefines DEF Refines
<1> QED
  BY <1>1, <1>2, SqliteRowsAreIndexed, PTL DEF Spec, ImplementsUniqueTable, Abs!Spec

=============================================================================
