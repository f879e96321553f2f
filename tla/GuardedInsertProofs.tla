------------------------ MODULE GuardedInsertProofs ------------------------
(***************************************************************************)
(* Which backends keep which promise of insert_guarded, for any number of  *)
(* writers, ids, partitions and numbers.                                   *)
(***************************************************************************)
EXTENDS GuardedInsert, TLAPS

Basics == TypeOK /\ ChecksAhead

(* The types, and who checks ahead, whatever is assumed of ids and index.   *)
LEMMA BasicStep ==
    ASSUME Basics, [Next]_vars
    PROVE  Basics'
<1> USE GuardAssumption DEF Basics, TypeOK, ChecksAhead, setting, Snapshot
<1>1. ASSUME NEW w \in Writers, NEW id \in Ids, NEW slot \in Slots,
             InsertGuarded(w, id, slot)
      PROVE  Basics'
  BY <1>1 DEF InsertGuarded, Put
<1>2. ASSUME NEW w \in Writers, NEW id \in Ids, NEW slot \in Slots,
             Check(w, id, slot)
      PROVE  Basics'
  BY <1>2 DEF Check, Requests
<1>3. ASSUME NEW w \in Writers, Apply(w)
      PROVE  Basics'
  <2>1. asked[w].id \in Ids /\ asked[w].slot \in Slots
    BY <1>3 DEF Apply, Requests
  <2> QED
    BY <1>3, <2>1 DEF Apply, Put
<1>4. ASSUME NEW w \in Writers, Abandon(w)
      PROVE  Basics'
  BY <1>4 DEF Abandon
<1>5. CASE UNCHANGED vars
  BY <1>5 DEF vars
<1> QED
  BY <1>1, <1>2, <1>3, <1>4, <1>5 DEF Next

(* The backend, the index and the callers' habit never change.             *)
LEMMA SettingStays ==
    ASSUME [Next]_vars
    PROVE  /\ setting' = setting
           /\ IdsAreSafe' = IdsAreSafe /\ ChecksAreBacked' = ChecksAreBacked
<1>1. setting' = setting
  BY DEF Next, vars, InsertGuarded, Check, Apply, Abandon
<1> QED
  BY <1>1 DEF setting, IdsAreSafe, ChecksAreBacked, Overwrites, Snapshot

(* The rows and replies are touched by an insert alone: it is made by one  *)
(* writer, under an id that is free where it would be overwritten, and of  *)
(* a slot that is above its partition unless the check ran ahead.          *)
Inserts(w, id, slot) ==
    /\ Put(w, id, slot)
    /\ Overwrites /\ IdsAreSafe => rows[id] = NoRow
    /\ Snapshot \/ ~ Blocked(slot)

Declines(w) ==
    /\ rows' = rows
    /\ reply' = reply \/ reply' = [reply EXCEPT ![w] = Nothing]

LEMMA StepInserts ==
    ASSUME Basics, [Next]_vars
    PROVE  \/ \E w \in Writers, id \in Ids, slot \in Slots : Inserts(w, id, slot)
           \/ \E w \in Writers : Declines(w)
           \/ rows' = rows /\ reply' = reply
<1> DEFINE Goal == \/ \E w \in Writers, id \in Ids, slot \in Slots : Inserts(w, id, slot)
                   \/ \E w \in Writers : Declines(w)
                   \/ rows' = rows /\ reply' = reply
<1>1. ASSUME NEW w \in Writers, NEW id \in Ids, NEW slot \in Slots,
             InsertGuarded(w, id, slot)
      PROVE  Goal
  <2>1. CASE Blocked(slot)
    BY <1>1, <2>1 DEF InsertGuarded, Declines
  <2>2. CASE ~ Blocked(slot)
    <3>1. Inserts(w, id, slot)
      BY <1>1, <2>2 DEF InsertGuarded, Calls, Fresh, IdsAreSafe, Inserts
    <3> QED
      BY <3>1
  <2> QED
    BY <2>1, <2>2
<1>2. ASSUME NEW w \in Writers, NEW id \in Ids, NEW slot \in Slots,
             Check(w, id, slot)
      PROVE  Goal
  BY <1>2 DEF Check, Declines
<1>3. ASSUME NEW w \in Writers, Apply(w)
      PROVE  Goal
  <2>1. asked[w] # Nothing /\ Put(w, asked[w].id, asked[w].slot)
    BY <1>3 DEF Apply
  <2>2. asked[w].id \in Ids /\ asked[w].slot \in Slots
    BY <2>1 DEF Basics, TypeOK, Requests
  <2>3. Snapshot /\ ~ Overwrites
    BY <2>1 DEF Basics, ChecksAhead, Snapshot, Overwrites
  <2>4. Inserts(w, asked[w].id, asked[w].slot)
    BY <2>1, <2>3 DEF Inserts
  <2> QED
    BY <2>2, <2>4
<1>4. ASSUME NEW w \in Writers, Abandon(w)
      PROVE  Goal
  BY <1>4 DEF Abandon
<1>5. CASE UNCHANGED vars
  BY <1>5 DEF vars
<1> QED
  BY <1>1, <1>2, <1>3, <1>4, <1>5 DEF Next

(* A slot that is not blocked is in the table under no id.                 *)
LEMMA UnblockedIsNew ==
    ASSUME TypeOK, NEW slot \in Slots, ~ Blocked(slot)
    PROVE  \A other \in Ids : rows[other] # slot
<1>1. slot # NoRow /\ slot.seq \in Int
  BY GuardAssumption DEF Slots
<1> QED
  BY <1>1 DEF Blocked

(* An insert either is refused or fills a free id.                         *)
LEMMA PutFillsFreeId ==
    ASSUME TypeOK, IdsAreSafe, NEW w \in Writers, NEW id \in Ids, NEW slot \in Slots,
           Inserts(w, id, slot)
    PROVE  \/ rows' = rows /\ reply' = [reply EXCEPT ![w] = Nothing]
           \/ /\ rows[id] = NoRow
              /\ ~ IndexRefuses(id, slot)
              /\ rows' = [rows EXCEPT ![id] = slot]
              /\ reply' = [reply EXCEPT ![w] = slot]
  BY DEF Inserts, Put, KeyRefuses

(* A reply that an insert leaves standing is that of before.               *)
LEMMA DeclinedKeeps ==
    ASSUME IInv, NEW w \in Writers, Declines(w), [Next]_vars
    PROVE  (WinnersAreStored /\ OneWinner
             /\ (IdsAreSafe /\ ChecksAreBacked => SlotsDiffer))'
<1>1. \A v \in Writers : reply'[v] # Nothing => reply'[v] = reply[v]
  BY DEF IInv, TypeOK, Declines
<1>2. rows' = rows
  BY DEF Declines
<1> QED
  BY <1>1, <1>2, SettingStays DEF IInv, WinnersAreStored, SlotsDiffer, OneWinner

LEMMA InsertKeeps ==
    ASSUME IInv, NEW w \in Writers, NEW id \in Ids, NEW slot \in Slots,
           Inserts(w, id, slot), [Next]_vars
    PROVE  (WinnersAreStored /\ OneWinner
             /\ (IdsAreSafe /\ ChecksAreBacked => SlotsDiffer))'
<1> USE GuardAssumption DEF IInv, TypeOK
<1>1. CASE ~ IdsAreSafe
  BY <1>1, SettingStays DEF WinnersAreStored, OneWinner
<1>2. CASE rows' = rows /\ reply' = [reply EXCEPT ![w] = Nothing]
  BY <1>2, DeclinedKeeps DEF Declines
<1>3. CASE /\ IdsAreSafe
           /\ rows[id] = NoRow
           /\ ~ IndexRefuses(id, slot)
           /\ rows' = [rows EXCEPT ![id] = slot]
           /\ reply' = [reply EXCEPT ![w] = slot]
  <2>1. IdsAreSafe' /\ ChecksAreBacked' = ChecksAreBacked
    BY <1>3, SettingStays
  <2>2. /\ rows'[id] = slot /\ slot # NoRow /\ slot # Nothing
        /\ \A other \in Ids : other # id => rows'[other] = rows[other]
    BY <1>3
  <2>3. reply'[w] = slot /\ \A v \in Writers : v # w => reply'[v] = reply[v]
    BY <1>3
  <2>4. ASSUME NEW v \in Writers, reply[v] # Nothing
        PROVE  \E other \in Ids : other # id /\ rows[other] = reply[v]
    <3>1. PICK other \in Ids : rows[other] = reply[v]
      BY <1>3, <2>4 DEF WinnersAreStored
    <3>2. reply[v] \in Slots
      BY <2>4
    <3> QED
      BY <1>3, <3>1, <3>2
  <2>5. WinnersAreStored'
    BY <2>2, <2>3, <2>4 DEF WinnersAreStored
  <2>6. ASSUME ChecksAreBacked
        PROVE  \A other \in Ids : other # id => rows[other] # slot
    <3>1. CASE Snapshot
      BY <1>3, <2>6, <3>1 DEF ChecksAreBacked, IndexRefuses
    <3>2. CASE ~ Snapshot
      BY <3>2, UnblockedIsNew DEF Inserts
    <3> QED
      BY <3>1, <3>2
  <2>7. ChecksAreBacked => SlotsDiffer'
    BY <1>3, <2>2, <2>6 DEF SlotsDiffer
  <2>8. ChecksAreBacked => \A v \in Writers : reply[v] # slot
    <3>1. SUFFICES ASSUME ChecksAreBacked, NEW v \in Writers, reply[v] = slot
                   PROVE  FALSE
      OBVIOUS
    <3>2. PICK other \in Ids : other # id /\ rows[other] = slot
      BY <2>2, <2>4, <3>1
    <3> QED
      BY <2>6, <3>1, <3>2
  <2>9. OneWinner'
    <3>1. SUFFICES ASSUME ChecksAreBacked, NEW u \in Writers, NEW v \in Writers,
                          u # v, reply'[u] # Nothing
                   PROVE  reply'[u] # reply'[v]
      BY <2>1 DEF OneWinner
    <3>2. CASE u # w /\ v # w
      BY <1>3, <2>3, <3>1, <3>2 DEF OneWinner
    <3>3. CASE u = w \/ v = w
      BY <2>3, <2>8, <3>1, <3>3
    <3> QED
      BY <3>2, <3>3
  <2> QED
    BY <2>1, <2>5, <2>7, <2>9
<1> QED
  BY <1>1, <1>2, <1>3, PutFillsFreeId

LEMMA InitHolds == Init => IInv
  BY GuardAssumption
     DEF Init, IInv, ChecksAhead, TypeOK, WinnersAreStored, SlotsDiffer, OneWinner

LEMMA StepHolds ==
    ASSUME IInv, [Next]_vars
    PROVE  IInv'
<1>1. Basics /\ Basics'
  BY BasicStep DEF IInv, Basics
<1>2. ASSUME NEW w \in Writers, NEW id \in Ids, NEW slot \in Slots,
             Inserts(w, id, slot)
      PROVE  IInv'
  BY <1>1, <1>2, InsertKeeps DEF IInv, Basics
<1>3. ASSUME NEW w \in Writers, Declines(w)
      PROVE  IInv'
  BY <1>1, <1>3, DeclinedKeeps DEF IInv, Basics
<1>4. CASE rows' = rows /\ reply' = reply
  BY <1>1, <1>4, SettingStays
     DEF IInv, Basics, WinnersAreStored, SlotsDiffer, OneWinner
<1> QED
  BY <1>1, <1>2, <1>3, <1>4, StepInserts

(***************************************************************************)
(* Types, for every instance: a reply is a slot or nothing, and a writer   *)
(* has at most one statement in progress.                                  *)
(***************************************************************************)
THEOREM GuardedTypes == Spec => []TypeOK
<1>1. Init => IInv
  BY InitHolds
<1>2. IInv /\ [Next]_vars => IInv'
  BY StepHolds
<1>3. IInv => TypeOK
  BY DEF IInv
<1> QED
  BY <1>1, <1>2, <1>3, PTL DEF Spec

(***************************************************************************)
(* At most one racer lands: on SQLite always; on redb if callers use fresh *)
(* ids; on Postgres if the type declares the UNIQUE group.                 *)
(***************************************************************************)
THEOREM GuardedOneWinner == Spec => []OneWinner
<1>1. Init => IInv
  BY InitHolds
<1>2. IInv /\ [Next]_vars => IInv'
  BY StepHolds
<1>3. IInv => OneWinner
  BY DEF IInv
<1> QED
  BY <1>1, <1>2, <1>3, PTL DEF Spec

(***************************************************************************)
(* What a caller was told it won stays in the table: by the primary key on *)
(* SQLite and Postgres, by fresh ids on redb.                              *)
(***************************************************************************)
THEOREM GuardedWinnersAreStored == Spec => []WinnersAreStored
<1>1. Init => IInv
  BY InitHolds
<1>2. IInv /\ [Next]_vars => IInv'
  BY StepHolds
<1>3. IInv => WinnersAreStored
  BY DEF IInv
<1> QED
  BY <1>1, <1>2, <1>3, PTL DEF Spec

(***************************************************************************)
(* Numbers are won in order where the check and the insert are one step:   *)
(* on SQLite always, on redb if callers use fresh ids.  What makes it true *)
(* is that the row of an earlier winner is still there to be checked.      *)
(***************************************************************************)
THEOREM GuardedWinsGrow == Spec => WinsGrow
<1> DEFINE Grow == IdsAreSafe /\ ~ Snapshot =>
                     \A v, w \in Writers :
                        (/\ reply'[w] \notin {reply[w], Nothing}
                         /\ reply[v] # Nothing
                         /\ reply[v].part = reply'[w].part)
                            => reply[v].seq < reply'[w].seq
<1>1. Init => IInv
  BY InitHolds
<1>2. IInv /\ [Next]_vars => IInv'
  BY StepHolds
<1>3. ASSUME IInv, [Next]_vars, IdsAreSafe, ~ Snapshot,
             NEW v \in Writers, NEW w \in Writers,
             reply'[w] \notin {reply[w], Nothing},
             reply[v] # Nothing, reply[v].part = reply'[w].part
      PROVE  reply[v].seq < reply'[w].seq
  <2> USE GuardAssumption DEF IInv, TypeOK
  <2>1. ~ \E u \in Writers : Declines(u)
    BY <1>3 DEF Declines
  <2>2. PICK u \in Writers, id \in Ids, slot \in Slots : Inserts(u, id, slot)
    BY <1>3, <2>1, StepInserts DEF Basics
  <2>3. reply' = [reply EXCEPT ![u] = slot]
    BY <1>3, <2>2, PutFillsFreeId
  <2>4. reply'[w] = slot
    BY <1>3, <2>3
  <2>5. PICK other \in Ids : rows[other] = reply[v]
    BY <1>3 DEF WinnersAreStored
  <2>6. reply[v] \in Slots /\ rows[other] # NoRow
    BY <1>3, <2>5
  <2>7. slot.seq \in Int /\ rows[other].seq \in Int
    BY <2>5, <2>6 DEF Slots
  <2>8. ~ Blocked(slot)
    BY <1>3, <2>2 DEF Inserts
  <2> QED
    BY <1>3, <2>4, <2>5, <2>6, <2>7, <2>8 DEF Blocked
<1>4. IInv /\ [Next]_vars => [Grow]_vars
  BY <1>3
<1>5. Spec => [][Grow]_vars
  BY <1>1, <1>2, <1>4, PTL DEF Spec
<1> QED
  BY <1>5 DEF WinsGrow
=============================================================================
