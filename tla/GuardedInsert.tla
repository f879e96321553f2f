--------------------------- MODULE GuardedInsert ---------------------------
(***************************************************************************)
(* Store::insert_guarded on one type, called by several writers at once:   *)
(* the primitive for session generations and log offsets.  A row carries a *)
(* number; it lands only above every row of its partition.                 *)
(*                                                                         *)
(* The three backends run the same check, each with an atomicity and an    *)
(* insert of its own:                                                      *)
(*   redb      one write transaction; the insert overwrites an existing id *)
(*   SQLite    one statement, alone in the file; an existing id refuses it *)
(*   Postgres  one statement under READ COMMITTED: NOT EXISTS looks at the *)
(*             snapshot taken when the statement starts, the insert comes  *)
(*             after the rows other statements have committed meanwhile    *)
(***************************************************************************)
EXTENDS Integers

CONSTANTS
    Writers,        \* callers of insert_guarded
    Ids,            \* row ids
    Parts,          \* values of the partition columns
    Seqs,           \* numbers, the guard's and the row's
    NoRow,          \* no row under this id
    Nothing         \* no statement in progress; no row won

Slots == [part : Parts, seq : Seqs]
Requests == [id : Ids, slot : Slots]

ASSUME GuardAssumption ==
    /\ Seqs \subseteq Int
    /\ NoRow \notin Slots
    /\ Nothing \notin Slots \cup Requests

VARIABLES
    engine,     \* the backend, chosen once
    indexed,    \* the type declares unique(partition, sequence), chosen once
    fresh,      \* callers never insert the same id twice, chosen once
    rows,       \* the committed rows
    asked,      \* what each statement has checked and not yet inserted
    reply       \* the slot each writer's last call won, or Nothing

setting == <<engine, indexed, fresh>>
vars == <<setting, rows, asked, reply>>

(* redb's insert replaces a row with the same id.                          *)
Overwrites == engine = "redb"

(* Postgres' check reads a snapshot of its own.                            *)
Snapshot == engine = "postgres"

TypeOK ==
    /\ engine \in {"redb", "sqlite", "postgres"}
    /\ indexed \in BOOLEAN /\ fresh \in BOOLEAN
    /\ rows \in [Ids -> Slots \cup {NoRow}]
    /\ asked \in [Writers -> Requests \cup {Nothing}]
    /\ reply \in [Writers -> Slots \cup {Nothing}]

-----------------------------------------------------------------------------
(* Faulty variant of Blocked: > for >=.                                    *)
BlockedAbove(slot) ==
    \E id \in Ids : /\ rows[id] # NoRow
                    /\ rows[id].part = slot.part
                    /\ rows[id].seq > slot.seq

(* A row of the partition carries the number or a larger one.              *)
Blocked(slot) ==
    \E id \in Ids : /\ rows[id] # NoRow
                    /\ rows[id].part = slot.part
                    /\ rows[id].seq >= slot.seq

(* Faulty variant of KeyRefuses: an upsert where the insert should be.     *)
KeyNeverRefuses(id) == FALSE

(* The primary key refuses a row of the same id, unless it is overwritten. *)
KeyRefuses(id) == ~ Overwrites /\ rows[id] # NoRow

(* The UNIQUE index refuses a row that another one equals.                 *)
IndexRefuses(id, slot) ==
    indexed /\ \E other \in Ids \ {id} : rows[other] = slot

(* Faulty variant of Put: a refused caller is given what holds the id.     *)
PutTellsHolder(w, id, slot) ==
    IF KeyRefuses(id) \/ IndexRefuses(id, slot)
      THEN rows' = rows /\ reply' = [reply EXCEPT ![w] = rows[id]]
      ELSE /\ rows' = [rows EXCEPT ![id] = slot]
           /\ reply' = [reply EXCEPT ![w] = slot]

(* A refusal of either is Rejected: it reads as having won nothing.        *)
Put(w, id, slot) ==
    IF KeyRefuses(id) \/ IndexRefuses(id, slot)
      THEN rows' = rows /\ reply' = [reply EXCEPT ![w] = Nothing]
      ELSE /\ rows' = [rows EXCEPT ![id] = slot]
           /\ reply' = [reply EXCEPT ![w] = slot]

Fresh(id) ==
    /\ rows[id] = NoRow
    /\ \A w \in Writers : asked[w] # Nothing => asked[w].id # id

(* A caller that starts a call has no statement in progress.               *)
Calls(w, id) == asked[w] = Nothing /\ (fresh => Fresh(id))

-----------------------------------------------------------------------------
(* redb and SQLite: the check and the insert are one step.                 *)
InsertGuarded(w, id, slot) ==
    /\ ~ Snapshot
    /\ Calls(w, id)
    /\ IF Blocked(slot)
         THEN rows' = rows /\ reply' = [reply EXCEPT ![w] = Nothing]
         ELSE Put(w, id, slot)
    /\ UNCHANGED <<setting, asked>>

(* Postgres: NOT EXISTS, on the statement's snapshot.                      *)
Check(w, id, slot) ==
    /\ Snapshot
    /\ Calls(w, id)
    /\ reply' = [reply EXCEPT ![w] = Nothing]
    /\ asked' = IF Blocked(slot) THEN asked
                ELSE [asked EXCEPT ![w] = [id |-> id, slot |-> slot]]
    /\ UNCHANGED <<setting, rows>>

(* Postgres: the insert, on the rows as they are by then.                  *)
Apply(w) ==
    /\ asked[w] # Nothing
    /\ Put(w, asked[w].id, asked[w].slot)
    /\ asked' = [asked EXCEPT ![w] = Nothing]
    /\ UNCHANGED setting

(* Postgres: the connection is lost before the insert.                     *)
Abandon(w) ==
    /\ asked[w] # Nothing
    /\ asked' = [asked EXCEPT ![w] = Nothing]
    /\ UNCHANGED <<setting, rows, reply>>

Init ==
    /\ engine \in {"redb", "sqlite", "postgres"}
    /\ indexed \in BOOLEAN /\ fresh \in BOOLEAN
    /\ rows = [id \in Ids |-> NoRow]
    /\ asked = [w \in Writers |-> Nothing]
    /\ reply = [w \in Writers |-> Nothing]

Next ==
    \/ \E w \in Writers, id \in Ids, slot \in Slots :
            InsertGuarded(w, id, slot) \/ Check(w, id, slot)
    \/ \E w \in Writers : Apply(w) \/ Abandon(w)

Spec == Init /\ [][Next]_vars

-----------------------------------------------------------------------------
(* Properties.                                                             *)

(* A row that has landed cannot be written over: its key refuses it, or    *)
(* callers never reuse an id.                                              *)
IdsAreSafe == Overwrites => fresh

(* Checks that run ahead of their insert are backed by the UNIQUE index.   *)
ChecksAreBacked == Snapshot => indexed

(***************************************************************************)
(* At most one racer lands: no two callers are told that the same number   *)
(* of the same partition is theirs, however far apart their calls were.    *)
(* On redb this takes callers that never reuse an id, on Postgres a type   *)
(* that declares the UNIQUE group.                                         *)
(***************************************************************************)
OneWinner ==
    IdsAreSafe /\ ChecksAreBacked =>
        \A v, w \in Writers : v # w /\ reply[v] # Nothing => reply[v] # reply[w]

(***************************************************************************)
(* What a caller has been told it won is still in the table, whatever the  *)
(* other callers have been told since and under whatever ids they inserted:*)
(* insert_guarded never writes over a row.  On redb this takes callers     *)
(* that never reuse an id.                                                 *)
(***************************************************************************)
WinnersAreStored ==
    IdsAreSafe =>
        \A w \in Writers :
            reply[w] # Nothing => \E id \in Ids : rows[id] = reply[w]

(***************************************************************************)
(* The numbers of a partition are handed out in order: a number won now is *)
(* above every number that a caller has been told is its own, whatever has *)
(* been asked for in between and under whatever ids.                       *)
(***************************************************************************)
WinsGrow ==
    [][IdsAreSafe /\ ~ Snapshot =>
        \A v, w \in Writers :
            (/\ reply'[w] \notin {reply[w], Nothing}
             /\ reply[v] # Nothing
             /\ reply[v].part = reply'[w].part)
                => reply[v].seq < reply'[w].seq]_vars

(***************************************************************************)
(* No stale write lands: a row that appears is above every row that its    *)
(* partition held just before, at least where the same two conditions are  *)
(* met.                                                                    *)
(***************************************************************************)
LandsAbove ==
    [][IdsAreSafe /\ ChecksAreBacked =>
        \A id, other \in Ids :
            (/\ rows'[id] # rows[id]
             /\ rows[other] # NoRow
             /\ rows[other].part = rows'[id].part)
                => rows[other].seq < rows'[id].seq]_vars

(***************************************************************************)
(* What makes them inductive: no slot is in the table twice, and only      *)
(* Postgres checks ahead of its insert.                                    *)
(***************************************************************************)
SlotsDiffer ==
    \A id, other \in Ids : id # other /\ rows[id] # NoRow => rows[id] # rows[other]

ChecksAhead == Snapshot \/ \A w \in Writers : asked[w] = Nothing

IInv ==
    /\ TypeOK
    /\ ChecksAhead
    /\ WinnersAreStored
    /\ IdsAreSafe /\ ChecksAreBacked => SlotsDiffer
    /\ OneWinner
=============================================================================
