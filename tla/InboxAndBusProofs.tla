------------------------- MODULE InboxAndBusProofs -------------------------
(* Theorems about the inbox, and about the event bus that tells the         *)
(* consoles of its items: any number of items, callers and faults; any      *)
(* ring, queues, wires and consoles, and connections and processes that     *)
(* break at any time.                                                       *)
EXTENDS Inbox, EventBus, FiniteSetTheorems, SequenceTheorems, WellFoundedInduction, TLAPS

USE InboxAssumption

(***************************************************************************)
(* The invariant.                                                          *)
(***************************************************************************)

\* A call has a row from its insert on, and no other call has that row.
CallsHaveRows ==
  \A c \in Callers :
    /\ call[c].at \in {"idle", "insert"} <=> call[c].id = 0
    /\ call[c].id <= last
    /\ \A d \in Callers : call[c].id = call[d].id /\ call[c].id # 0 => c = d

\* What has started a turn has been given, and the turn of an item that is not
\* late has its call still waiting for it.
FiredIsGiven ==
  /\ \A c \in Callers : call[c].at = "wait" => call[c].id \in given
  /\ \A i \in Items : turn[i] = "running" /\ i \notin late
                        => \E c \in Callers : call[c].id = i /\ call[c].at = "wait"

\* From the pre-mark to the restore nobody finds the item pending.
HiddenWhileFired ==
  \A c \in Callers :
    call[c].at \in {"fire", "wait"} /\ call[c].id \notin late => ~Pending(call[c].id)

NotItsOwn == reader \in Items \ late => reader \notin listed

IInv == /\ TypeOK /\ CallsHaveRows /\ FiredIsGiven /\ HiddenWhileFired /\ NotItsOwn
        /\ NothingLost /\ PendingIsTold

(***************************************************************************)
(* The operators that the actions are made of.                             *)
(***************************************************************************)

LEMMA IdleType == Idle \in Call /\ Idle.at = "idle" /\ Idle.id = 0
  BY DEF Idle, Call, Priorities

LEMMA StepType ==
  ASSUME TypeOK, NEW c \in Callers, NEW to \in {"mark", "fire", "wait", "restore"}, Step(c, to)
  PROVE  /\ call' \in [Callers -> Call]
         /\ call'[c].at = to /\ \A d \in Callers : call'[d].id = call[d].id
         /\ \A d \in Callers \ {c} : call'[d] = call[d]
  <1>1. [call[c] EXCEPT !.at = to] \in Call /\ [call[c] EXCEPT !.at = to].id = call[c].id
    BY DEF TypeOK, Call
  <1>. QED  BY <1>1 DEF Step, TypeOK, Call

LEMMA ReturnType ==
  ASSUME TypeOK, NEW c \in Callers, Return(c)
  PROVE  /\ call' \in [Callers -> Call]
         /\ call'[c].at = "idle" /\ call'[c].id = 0
         /\ \A d \in Callers \ {c} : call'[d] = call[d]
  BY IdleType DEF Return, TypeOK

LEMMA MarkedRows ==
  ASSUME TypeOK, NEW ids, NEW as \in {"delivered", "dismissed"}, MarkDelivered(ids, as)
  PROVE  /\ rows' \in [1 .. last -> Row]
         /\ \A i \in 1 .. last : /\ i \in ids /\ Pending(i) => rows'[i].state = as
                                 /\ ~(i \in ids /\ Pending(i)) => rows'[i] = rows[i]
  <1>1. \A i \in 1 .. last : /\ [rows[i] EXCEPT !.state = as] \in Row
                             /\ [rows[i] EXCEPT !.state = as].state = as
    BY DEF TypeOK, Row
  <1>. QED  BY <1>1 DEF MarkDelivered, TypeOK

LEMMA RestoredRows ==
  ASSUME TypeOK, NEW i \in 1 .. last, MarkPending(i)
  PROVE  /\ rows' \in [1 .. last -> Row]
         /\ rows'[i].state \in {"pending", "gone"}
         /\ \A j \in 1 .. last \ {i} : rows'[j] = rows[j]
  <1>1. /\ [rows[i] EXCEPT !.state = "pending"] \in Row
        /\ [rows[i] EXCEPT !.state = "pending"].state = "pending"
    BY DEF TypeOK, Row
  <1>. QED  BY <1>1 DEF MarkPending, TypeOK

(***************************************************************************)
(* Each action.                                                            *)
(***************************************************************************)

LEMMA CallerHasItem ==
  ASSUME IInv, NEW c \in Callers, call[c].at \notin {"idle", "insert"}
  PROVE  call[c].id \in 1 .. last /\ call[c].id \in Items /\ Underway(call[c].id)
  <1>1. call[c].id \in 0 .. MaxItems /\ last \in 0 .. MaxItems
    BY DEF IInv, TypeOK, Call
  <1>2. call[c].id # 0 /\ call[c].id <= last
    BY DEF IInv, CallsHaveRows
  <1>. QED  BY <1>1, <1>2 DEF Underway, Items

LEMMA LookInv ==
  ASSUME IInv, NEW c \in Callers, NEW post \in Posts, Look(c, post)
  PROVE  IInv'
  <1>. DEFINE new == [at |-> "insert", priority |-> post.priority, key |-> post.key, id |-> 0]
  <1>1. new \in Call /\ new.at = "insert" /\ new.id = 0
    BY DEF Call, Priorities
  <1>2. /\ call' \in [Callers -> Call] /\ call'[c].at = "insert" /\ call'[c].id = 0
        /\ \A d \in Callers \ {c} : call'[d] = call[d]
    BY <1>1 DEF Look, IInv, TypeOK
  <1>3. call[c].id = 0
    BY DEF Look, IInv, CallsHaveRows
  <1>4. TypeOK'
    BY <1>2 DEF Look, IInv, TypeOK, tables, tool, past
  <1>5. CallsHaveRows'
    BY <1>2 DEF Look, IInv, TypeOK, CallsHaveRows, tables
  <1>6. FiredIsGiven'
    BY <1>2 DEF Look, IInv, FiredIsGiven, past
  <1>7. HiddenWhileFired' /\ NotItsOwn'
    BY <1>2 DEF Look, IInv, HiddenWhileFired, NotItsOwn, Pending, tables, tool, past
  <1>8. \A i \in 1 .. last : Underway(i) => Underway(i)'
    BY <1>2, <1>3 DEF Underway
  <1>9. NothingLost' /\ PendingIsTold'
    BY <1>8 DEF Look, IInv, NothingLost, PendingIsTold, Pending, tables, past
  <1>. QED  BY <1>4, <1>5, <1>6, <1>7, <1>9 DEF IInv

LEMMA InsertInv ==
  ASSUME IInv, NEW c \in Callers, Insert(c)
  PROVE  IInv'
  <1>. DEFINE id == last + 1
              row == [priority |-> call[c].priority, key |-> call[c].key,
                      state |-> "pending", fresh |-> TRUE]
  <1>1. /\ last \in Nat /\ last' = id /\ id \in 1 .. MaxItems /\ id \in 0 .. MaxItems
        /\ id \in Items /\ call[c] \in Call
    BY DEF Insert, IInv, TypeOK, Items
  <1>2. row \in Row
    BY <1>1 DEF Call, Row
  <1>3. /\ rows' \in [1 .. last' -> Row] /\ rows'[id].state = "pending"
        /\ \A i \in 1 .. last : rows'[i] = rows[i]
    BY <1>1, <1>2 DEF Insert, IInv, TypeOK
  <1>4. call[c].id = 0
    BY DEF Insert, IInv, CallsHaveRows
  <1>5. /\ call' \in [Callers -> Call]
        /\ \A d \in Callers \ {c} : call'[d] = call[d]
        /\ \/ call'[c].at = "mark" /\ call'[c].id = id /\ told' = told
           \/ call'[c].at = "idle" /\ call'[c].id = 0 /\ told' = told \cup {id}
    <2>1. CASE call[c].priority = "now"
      <3>1. /\ [call[c] EXCEPT !.at = "mark", !.id = id] \in Call
            /\ [call[c] EXCEPT !.at = "mark", !.id = id].at = "mark"
            /\ [call[c] EXCEPT !.at = "mark", !.id = id].id = id
        BY <1>1 DEF Call
      <3>2. call' = [call EXCEPT ![c] = [call[c] EXCEPT !.at = "mark", !.id = id]] /\ told' = told
        BY <2>1 DEF Insert
      <3>3. call \in [Callers -> Call]
        BY DEF IInv, TypeOK
      <3>. QED  BY <3>1, <3>2, <3>3
    <2>2. CASE call[c].priority # "now"
      BY <2>2, ReturnType DEF Insert, IInv
    <2>. QED  BY <2>1, <2>2
  <1>6. \A d \in Callers : call[d].id <= last /\ call[d].id # id
    <2>. SUFFICES ASSUME NEW d \in Callers PROVE call[d].id <= last /\ call[d].id # id
      OBVIOUS
    <2>1. call[d].id <= last /\ call[d].id \in Nat
      BY DEF IInv, TypeOK, Call, CallsHaveRows
    <2>. QED  BY <2>1, <1>1
  <1>7. TypeOK'
    <2>1. 1 .. last \subseteq 1 .. last' /\ id \in 1 .. last'
      BY <1>1
    <2>2. told' \subseteq 1 .. last' /\ listed' \subseteq 1 .. last' /\ given' \subseteq 1 .. last'
          /\ late' \subseteq 1 .. last' /\ lost' \subseteq 1 .. last'
      BY <1>5, <2>1 DEF Insert, IInv, TypeOK, tool
    <2>3. UNCHANGED <<recent, turn, reader, faults>>
      BY DEF Insert, tool
    <2>4. /\ recent \in 0 .. MaxFires /\ turn \in [Items -> {"none", "running", "over"}]
          /\ reader \in Items \cup {Chat, Nobody} /\ faults \in 0 .. MaxFaults
      BY DEF IInv, TypeOK
    <2>. HIDE DEF id
    <2>. QED  BY <1>1, <1>3, <1>5, <2>2, <2>3, <2>4 DEF TypeOK
  <1>8. CallsHaveRows'
    <2>1. \A d \in Callers : call'[d].id <= last'
      <3>. SUFFICES ASSUME NEW d \in Callers PROVE call'[d].id <= last'
        OBVIOUS
      <3>1. call[d].id \in Nat
        BY DEF IInv, TypeOK, Call
      <3>. QED  BY <1>1, <1>5, <1>6, <3>1
    <2>2. \A d \in Callers : call'[d].at \in {"idle", "insert"} <=> call'[d].id = 0
      BY <1>1, <1>5 DEF IInv, CallsHaveRows
    <2>3. \A d, e \in Callers : call'[d].id = call'[e].id /\ call'[d].id # 0 => d = e
      BY <1>5, <1>6 DEF IInv, CallsHaveRows
    <2>. QED  BY <2>1, <2>2, <2>3 DEF CallsHaveRows
  <1>9. FiredIsGiven'
    BY <1>4, <1>5 DEF Insert, IInv, FiredIsGiven, Items
  <1>10. HiddenWhileFired'
    <2>. SUFFICES ASSUME NEW d \in Callers, call'[d].at \in {"fire", "wait"},
                         call'[d].id \notin late'
                  PROVE  rows'[call'[d].id].state # "pending"
      BY DEF HiddenWhileFired, Pending
    <2>1. d # c /\ call'[d] = call[d]
      BY <1>5
    <2>2. ~Pending(call[d].id) /\ call[d].id \in 1 .. last
      BY <2>1, CallerHasItem DEF Insert, IInv, HiddenWhileFired
    <2>. QED  BY <1>3, <2>1, <2>2 DEF Pending
  <1>11. NotItsOwn'
    BY DEF Insert, IInv, NotItsOwn, tool
  <1>12. \A i \in 1 .. last : Underway(i) => \E d \in Callers : call'[d].id = i
    BY <1>4, <1>5 DEF Underway
  <1>13. id \in told' \/ \E d \in Callers : call'[d].id = id
    BY <1>5
  <1>14. ASSUME NEW i \in 1 .. last'
         PROVE  i = id \/ i \in 1 .. last
    BY <1>1
  <1>15. NothingLost'
    BY <1>3, <1>12, <1>14 DEF Insert, IInv, NothingLost, Underway
  <1>16. PendingIsTold'
    BY <1>3, <1>5, <1>12, <1>13, <1>14 DEF Insert, IInv, PendingIsTold, Pending, Underway
  <1>. QED  BY <1>7, <1>8, <1>9, <1>10, <1>11, <1>15, <1>16 DEF IInv

LEMMA MarkInv ==
  ASSUME IInv, NEW c \in Callers, Mark(c)
  PROVE  IInv'
  <1>1. /\ call' \in [Callers -> Call] /\ call'[c].at = "fire"
        /\ \A d \in Callers : call'[d].id = call[d].id
        /\ \A d \in Callers \ {c} : call'[d] = call[d]
    BY StepType DEF Mark, IInv
  <1>2. call[c].id \in 1 .. last /\ Underway(call[c].id) /\ call[c].at = "mark"
    BY CallerHasItem DEF Mark
  <1>3. /\ rows' \in [1 .. last -> Row]
        /\ \A i \in 1 .. last \ {call[c].id} : rows'[i] = rows[i]
        /\ \A i \in 1 .. last : rows'[i].state = "pending" => rows[i].state = "pending"
        /\ rows'[call[c].id].state # "pending" \/ call[c].id \in late'
        /\ faults' \in 0 .. MaxFaults /\ late \subseteq late' /\ late' \subseteq 1 .. last
    <2>1. CASE PreMark(call[c].id) /\ UNCHANGED <<late, faults>>
      <3>. DEFINE id == call[c].id
      <3>1. /\ rows' \in [1 .. last -> Row]
            /\ \A i \in 1 .. last :
                 /\ i \in {id} /\ Pending(i) => rows'[i].state = "delivered"
                 /\ ~(i \in {id} /\ Pending(i)) => rows'[i] = rows[i]
        <4>1. MarkDelivered({id}, "delivered") /\ TypeOK
          BY <2>1 DEF PreMark, IInv
        <4>. QED  BY <4>1, MarkedRows
      <3>2. late \subseteq 1 .. last /\ faults \in 0 .. MaxFaults
        BY DEF IInv, TypeOK
      <3>. QED  BY <1>2, <2>1, <3>1, <3>2 DEF Pending
    <2>2. CASE Fault("locked") /\ late' = late \cup {call[c].id} /\ UNCHANGED rows
      <3>1. /\ rows \in [1 .. last -> Row] /\ late \subseteq 1 .. last
            /\ faults \in 0 .. MaxFaults
        BY DEF IInv, TypeOK
      <3>2. faults' \in 0 .. MaxFaults
        BY <2>2, <3>1 DEF Fault
      <3>. QED  BY <1>2, <2>2, <3>1, <3>2
    <2>. QED  BY <2>1, <2>2 DEF Mark
  <1>4. TypeOK'
    BY <1>1, <1>3 DEF Mark, IInv, TypeOK, tool
  <1>5. CallsHaveRows'
    BY <1>1, <1>2 DEF Mark, IInv, CallsHaveRows
  <1>6. FiredIsGiven'
    BY <1>1, <1>2, <1>3 DEF Mark, IInv, FiredIsGiven
  <1>7. HiddenWhileFired'
    <2>. SUFFICES ASSUME NEW d \in Callers, call'[d].at \in {"fire", "wait"},
                         call'[d].id \notin late'
                  PROVE  rows'[call'[d].id].state # "pending"
      BY DEF HiddenWhileFired, Pending
    <2>1. CASE d = c
      BY <1>1, <1>3, <2>1
    <2>2. CASE d # c
      <3>1. call'[d] = call[d] /\ call[d].id \in 1 .. last
        BY <1>1, <2>2, CallerHasItem
      <3>2. rows[call[d].id].state # "pending"
        BY <1>3, <3>1 DEF IInv, HiddenWhileFired, Pending
      <3>. QED  BY <1>3, <3>1, <3>2
    <2>. QED  BY <2>1, <2>2
  <1>8. NotItsOwn'
    BY <1>3 DEF Mark, IInv, NotItsOwn, tool
  <1>9. \A i \in 1 .. last : Underway(i) => \E d \in Callers : call'[d].id = i
    BY <1>1 DEF Underway
  <1>10. NothingLost' /\ PendingIsTold'
    BY <1>2, <1>3, <1>9 DEF Mark, IInv, NothingLost, PendingIsTold, Pending, Underway
  <1>. QED  BY <1>4, <1>5, <1>6, <1>7, <1>8, <1>10 DEF IInv

\* The steps that leave the table alone and only move the call and its turn.
LEMMA StepInv ==
  ASSUME IInv, NEW c \in Callers, NEW to \in {"wait", "restore"}, Step(c, to),
         call[c].at \in {"fire", "wait"}, UNCHANGED <<tables, tool, told, lost>>,
         recent' \in 0 .. MaxFires, faults' \in 0 .. MaxFaults,
         turn' \in [Items -> {"none", "running", "over"}],
         given \subseteq given', given' \subseteq 1 .. last,
         late \subseteq late', late' \subseteq 1 .. last,
         to = "wait" => call[c].id \in given' /\ call[c].at = "fire",
         \A i \in Items : turn'[i] = "running" => turn[i] = "running" \/ (i = call[c].id /\ to = "wait"),
         to = "restore" => call[c].at = "fire" \/ call[c].id \in late'
  PROVE  IInv'
  <1>1. /\ call' \in [Callers -> Call] /\ call'[c].at = to
        /\ \A d \in Callers : call'[d].id = call[d].id
        /\ \A d \in Callers \ {c} : call'[d] = call[d]
    BY StepType DEF IInv
  <1>2. call[c].id \in 1 .. last
    BY CallerHasItem
  <1>3. rows' = rows /\ last' = last /\ reader' = reader /\ listed' = listed
    BY DEF tables, tool
  <1>4. TypeOK'
    BY <1>1, <1>3 DEF IInv, TypeOK
  <1>5. CallsHaveRows'
    BY <1>1, <1>2, <1>3 DEF IInv, CallsHaveRows
  <1>6. FiredIsGiven'
    <2>1. ASSUME NEW d \in Callers, call'[d].at = "wait"
          PROVE  call'[d].id \in given'
      <3>1. CASE d = c
        BY <1>1, <2>1, <3>1
      <3>2. CASE d # c
        <4>1. call'[d] = call[d]
          BY <1>1, <3>2
        <4>2. call[d].id \in given
          BY <2>1, <4>1 DEF IInv, FiredIsGiven
        <4>. QED  BY <4>1, <4>2
      <3>. QED  BY <3>1, <3>2
    <2>2. ASSUME NEW i \in Items, turn'[i] = "running", i \notin late'
          PROVE  \E d \in Callers : call'[d].id = i /\ call'[d].at = "wait"
      <3>1. CASE i = call[c].id /\ to = "wait"
        BY <1>1, <3>1
      <3>2. CASE turn[i] = "running" /\ ~(i = call[c].id /\ to = "wait")
        <4>1. i \notin late /\ FiredIsGiven
          BY <2>2 DEF IInv
        <4>3. PICK d \in Callers : call[d].id = i /\ call[d].at = "wait"
          BY <3>2, <4>1 DEF FiredIsGiven
        <4>2. CASE d = c
          BY <2>2, <3>2, <4>3, <4>2
        <4>. QED  BY <1>1, <4>3, <4>2
      <3>. QED  BY <2>2, <3>1, <3>2
    <2>. QED  BY <2>1, <2>2 DEF FiredIsGiven
  <1>7. HiddenWhileFired'
    <2>. SUFFICES ASSUME NEW d \in Callers, call'[d].at \in {"fire", "wait"},
                         call'[d].id \notin late'
                  PROVE  rows[call[d].id].state # "pending"
      BY <1>1, <1>3 DEF HiddenWhileFired, Pending
    <2>1. call[d].at \in {"fire", "wait"} /\ call[d].id \notin late
      BY <1>1
    <2>. QED  BY <2>1 DEF IInv, HiddenWhileFired, Pending
  <1>8. NotItsOwn'
    BY <1>3 DEF IInv, NotItsOwn
  <1>9. \A i \in 1 .. last : Underway(i) => \E d \in Callers : call'[d].id = i
    BY <1>1 DEF Underway
  <1>10. NothingLost' /\ PendingIsTold'
    BY <1>3, <1>9 DEF IInv, NothingLost, PendingIsTold, Pending, Underway
  <1>. QED  BY <1>4, <1>5, <1>6, <1>7, <1>8, <1>10 DEF IInv

LEMMA PostInv ==
  ASSUME IInv, NEW c \in Callers, Suppressed(c) \/ Fire(c) \/ GiveUp(c)
  PROVE  IInv'
  <1>. USE DEF IInv
  <1>1. CASE Suppressed(c)
    BY <1>1, StepInv DEF Suppressed, TypeOK, past
  <1>2. CASE Fire(c)
    <2>1. call[c].at = "fire" /\ call[c].id \in 1 .. last /\ call[c].id \in Items
      BY <1>2, CallerHasItem DEF Fire
    <2>2. recent' \in 0 .. MaxFires
      BY <1>2 DEF Fire, Allows, TypeOK
    <2>3. CASE Step(c, "wait")
               /\ turn' = [turn EXCEPT ![call[c].id] = "running"]
               /\ given' = given \cup {call[c].id} /\ UNCHANGED faults
      <3>1. /\ turn' \in [Items -> {"none", "running", "over"}]
            /\ \A i \in Items : turn'[i] = "running" => turn[i] = "running" \/ i = call[c].id
        BY <2>1, <2>3 DEF TypeOK
      <3>2. given' \subseteq 1 .. last /\ faults' \in 0 .. MaxFaults
        BY <2>1, <2>3 DEF TypeOK
      <3>. QED  BY <1>2, <2>1, <2>2, <2>3, <3>1, <3>2, StepInv DEF Fire, TypeOK
    <2>4. CASE Fault("refused") /\ Step(c, "restore") /\ UNCHANGED <<turn, given>>
      <3>1. faults' \in 0 .. MaxFaults
        BY <2>4 DEF Fault, TypeOK
      <3>. QED  BY <1>2, <2>1, <2>2, <2>4, <3>1, StepInv DEF Fire, TypeOK
    <2>. QED  BY <1>2, <2>3, <2>4 DEF Fire
  <1>3. CASE GiveUp(c)
    <2>1. call[c].at = "wait" /\ call[c].id \in 1 .. last
      BY <1>3, CallerHasItem DEF GiveUp, TimesOut
    <2>. QED  BY <1>3, <2>1, StepInv DEF GiveUp, TypeOK
  <1>. QED  BY <1>1, <1>2, <1>3

LEMMA AnsweredInv ==
  ASSUME IInv, NEW c \in Callers, Answered(c)
  PROVE  IInv'
  <1>1. /\ call' \in [Callers -> Call] /\ call'[c].at = "idle" /\ call'[c].id = 0
        /\ \A d \in Callers \ {c} : call'[d] = call[d]
    BY ReturnType DEF Answered, IInv
  <1>2. /\ call[c].id \in given /\ turn[call[c].id] # "running"
    BY DEF Answered, IInv, FiredIsGiven
  <1>3. UNCHANGED <<rows, last, recent, turn, reader, listed, given, told, late, lost, faults>>
    BY DEF Answered, tables, tool, past
  <1>4. TypeOK'
    BY <1>1, <1>3 DEF IInv, TypeOK
  <1>5. CallsHaveRows'
    <2>1. 0 <= last
      BY DEF IInv, TypeOK
    <2>. QED  BY <1>1, <1>3, <2>1 DEF IInv, CallsHaveRows
  <1>6. FiredIsGiven'
    BY <1>1, <1>2, <1>3 DEF IInv, FiredIsGiven
  <1>7. HiddenWhileFired' /\ NotItsOwn'
    BY <1>1, <1>3 DEF IInv, HiddenWhileFired, NotItsOwn, Pending
  <1>8. \A i \in 1 .. last : Underway(i) => i \in given \/ \E d \in Callers : call'[d].id = i
    BY <1>1, <1>2 DEF Underway
  <1>9. NothingLost' /\ PendingIsTold'
    BY <1>3, <1>8 DEF IInv, NothingLost, PendingIsTold, Pending, Underway
  <1>. QED  BY <1>4, <1>5, <1>6, <1>7, <1>9 DEF IInv

LEMMA RestoreInv ==
  ASSUME IInv, NEW c \in Callers, Restore(c)
  PROVE  IInv'
  <1>. DEFINE id == call[c].id
  <1>1. /\ call' \in [Callers -> Call] /\ call'[c].at = "idle" /\ call'[c].id = 0
        /\ \A d \in Callers \ {c} : call'[d] = call[d]
    BY ReturnType DEF Restore, IInv
  <1>2. id \in 1 .. last /\ id \in Items /\ call[c].at = "restore"
    BY CallerHasItem DEF Restore
  <1>3. /\ rows' \in [1 .. last -> Row] /\ faults' \in 0 .. MaxFaults
        /\ \A i \in 1 .. last \ {id} : rows'[i] = rows[i]
        /\ lost \subseteq lost' /\ lost' \subseteq 1 .. last
        /\ rows'[id].state \in {"pending", "gone"} \/ id \in lost'
    <2>1. CASE MarkPending(id) /\ UNCHANGED <<lost, faults>>
      <3>1. TypeOK /\ lost \subseteq 1 .. last /\ faults \in 0 .. MaxFaults
        BY DEF IInv, TypeOK
      <3>. QED  BY <1>2, <2>1, <3>1, RestoredRows
    <2>2. CASE Fault("locked") /\ lost' = lost \cup {id} /\ UNCHANGED rows
      <3>1. /\ rows \in [1 .. last -> Row] /\ lost \subseteq 1 .. last
            /\ faults \in 0 .. MaxFaults
        BY DEF IInv, TypeOK
      <3>2. faults' \in 0 .. MaxFaults
        BY <2>2, <3>1 DEF Fault
      <3>. QED  BY <1>2, <2>2, <3>1, <3>2
    <2>. QED  BY <2>1, <2>2 DEF Restore
  <1>4. /\ UNCHANGED <<last, recent, turn, reader, listed, given, late>>
        /\ told' = told \cup {id}
    BY DEF Restore, tool, Announced
  <1>5. TypeOK'
    BY <1>1, <1>2, <1>3, <1>4 DEF IInv, TypeOK
  <1>6. CallsHaveRows'
    <2>1. 0 <= last
      BY DEF IInv, TypeOK
    <2>. QED  BY <1>1, <1>4, <2>1 DEF IInv, CallsHaveRows
  <1>7. FiredIsGiven'
    BY <1>1, <1>2, <1>4 DEF IInv, FiredIsGiven
  <1>8. HiddenWhileFired'
    <2>. SUFFICES ASSUME NEW d \in Callers, call'[d].at \in {"fire", "wait"},
                         call'[d].id \notin late'
                  PROVE  rows'[call'[d].id].state # "pending"
      BY DEF HiddenWhileFired, Pending
    <2>1. d # c /\ call'[d] = call[d]
      BY <1>1
    <2>2. call[d].id \in 1 .. last /\ call[d].id # id
      BY <1>2, <2>1, CallerHasItem DEF IInv, CallsHaveRows
    <2>3. rows[call[d].id].state # "pending"
      BY <1>4, <2>1 DEF IInv, HiddenWhileFired, Pending
    <2>. QED  BY <1>3, <2>1, <2>2, <2>3
  <1>9. NotItsOwn'
    BY <1>4 DEF IInv, NotItsOwn
  <1>10. \A i \in 1 .. last : Underway(i) => i = id \/ \E d \in Callers : call'[d].id = i
    BY <1>1 DEF Underway
  <1>11. NothingLost'
    BY <1>3, <1>4, <1>10 DEF IInv, NothingLost, Underway
  <1>12. PendingIsTold'
    BY <1>3, <1>4, <1>10 DEF IInv, PendingIsTold, Pending, Underway
  <1>. QED  BY <1>5, <1>6, <1>7, <1>8, <1>9, <1>11, <1>12 DEF IInv

\* An item whose turn runs, and is not late, is not pending.
LEMMA RunningIsHidden ==
  ASSUME IInv, NEW i \in Items, turn[i] = "running", i \notin late
  PROVE  i \in 1 .. last /\ ~Pending(i)
  <1>1. PICK c \in Callers : call[c].id = i /\ call[c].at = "wait"
    BY DEF IInv, FiredIsGiven
  <1>. QED  BY <1>1, CallerHasItem DEF IInv, HiddenWhileFired

LEMMA ListInv ==
  ASSUME IInv, NEW r \in Items \cup {Chat}, NEW p \in Priorities, List(r, p)
  PROVE  IInv'
  <1>1. UNCHANGED <<rows, last, call, recent, turn, given, told, late, lost, faults>>
    BY DEF List, tables, past
  <1>2. TypeOK'
    BY <1>1 DEF List, IInv, TypeOK
  <1>3. CallsHaveRows' /\ FiredIsGiven' /\ HiddenWhileFired' /\ NothingLost' /\ PendingIsTold'
    BY <1>1 DEF IInv, CallsHaveRows, FiredIsGiven, HiddenWhileFired, NothingLost, PendingIsTold,
                Pending, Underway
  <1>4. NotItsOwn'
    BY <1>1, RunningIsHidden DEF List, NotItsOwn
  <1>. QED  BY <1>2, <1>3, <1>4 DEF IInv

\* What marks rows as delivered keeps what was pending, or hides it.
LEMMA TakeInv ==
  ASSUME IInv, Take
  PROVE  IInv'
  <1>1. UNCHANGED <<last, call, recent, turn, told, late, lost, faults>>
    BY DEF Take
  <1>2. /\ rows' \in [1 .. last -> Row]
        /\ \A i \in 1 .. last : \/ rows'[i] = rows[i]
                                \/ rows'[i].state = "delivered" /\ i \in given'
    <2>1. TypeOK /\ MarkDelivered(listed, "delivered") /\ given' = given \cup listed
      BY DEF Take, IInv
    <2>. QED  BY <2>1, MarkedRows
  <1>3. TypeOK'
    BY <1>1, <1>2 DEF Take, IInv, TypeOK
  <1>4. CallsHaveRows' /\ FiredIsGiven'
    BY <1>1 DEF Take, IInv, CallsHaveRows, FiredIsGiven
  <1>5. HiddenWhileFired'
    <2>. SUFFICES ASSUME NEW d \in Callers, call[d].at \in {"fire", "wait"}, call[d].id \notin late
                  PROVE  rows'[call[d].id].state # "pending"
      BY <1>1 DEF HiddenWhileFired, Pending
    <2>1. call[d].id \in 1 .. last /\ rows[call[d].id].state # "pending"
      BY CallerHasItem DEF IInv, HiddenWhileFired, Pending
    <2>. QED  BY <1>2, <2>1
  <1>6. NotItsOwn'
    BY DEF Take, NotItsOwn
  <1>7. given \subseteq given'
    BY DEF Take
  <1>8. NothingLost' /\ PendingIsTold'
    BY <1>1, <1>2, <1>7 DEF IInv, NothingLost, PendingIsTold, Pending, Underway
  <1>. QED  BY <1>3, <1>4, <1>5, <1>6, <1>8 DEF IInv

\* The console, the sweep and the dedup window leave calls and turns alone, and
\* make no row pending or delivered.
LEMMA TableInv ==
  ASSUME IInv, Prune \/ \E i \in Items : Dismiss(i) \/ RowAges(i)
  PROVE  IInv'
  <1>1. UNCHANGED <<last, call, recent, turn, reader, listed, given, told, late, lost, faults>>
    BY DEF Prune, Dismiss, RowAges, tool, past
  <1>2. /\ rows' \in [1 .. last -> Row]
        /\ \A i \in 1 .. last : rows'[i].state \in {"pending", "delivered"}
                                  => rows'[i].state = rows[i].state
    <2>0. TypeOK /\ rows \in [1 .. last -> Row]
      BY DEF IInv, TypeOK
    <2>1. CASE Prune
      <3>1. \A i \in 1 .. last : /\ [rows[i] EXCEPT !.state = "gone"] \in Row
                                 /\ [rows[i] EXCEPT !.state = "gone"].state = "gone"
        BY <2>0 DEF Row
      <3>. QED  BY <2>0, <2>1, <3>1 DEF Prune
    <2>2. ASSUME NEW i \in Items, Dismiss(i)
          PROVE  <1>2!1 /\ <1>2!2
      BY <2>0, <2>2, MarkedRows DEF Dismiss
    <2>3. ASSUME NEW i \in Items, RowAges(i)
          PROVE  <1>2!1 /\ <1>2!2
      <3>1. i \in 1 .. last
        BY <2>3 DEF RowAges, Items, IInv, TypeOK
      <3>2. /\ [rows[i] EXCEPT !.fresh = FALSE] \in Row
            /\ [rows[i] EXCEPT !.fresh = FALSE].state = rows[i].state
        BY <2>0, <3>1 DEF Row
      <3>. QED  BY <2>0, <2>3, <3>1, <3>2 DEF RowAges
    <2>. QED  BY <2>1, <2>2, <2>3
  <1>3. TypeOK'
    BY <1>1, <1>2 DEF IInv, TypeOK
  <1>4. CallsHaveRows' /\ FiredIsGiven' /\ NotItsOwn'
    BY <1>1 DEF IInv, CallsHaveRows, FiredIsGiven, NotItsOwn
  <1>5. HiddenWhileFired'
    <2>. SUFFICES ASSUME NEW d \in Callers, call[d].at \in {"fire", "wait"}, call[d].id \notin late
                  PROVE  rows'[call[d].id].state # "pending"
      BY <1>1 DEF HiddenWhileFired, Pending
    <2>1. call[d].id \in 1 .. last /\ rows[call[d].id].state # "pending"
      BY CallerHasItem DEF IInv, HiddenWhileFired, Pending
    <2>. QED  BY <1>2, <2>1
  <1>6. NothingLost' /\ PendingIsTold'
    BY <1>1, <1>2 DEF IInv, NothingLost, PendingIsTold, Pending, Underway
  <1>. QED  BY <1>3, <1>4, <1>5, <1>6 DEF IInv

LEMMA TimeInv ==
  ASSUME IInv, FireAges \/ (\E i \in Items : TurnEnds(i)) \/ UNCHANGED vars
  PROVE  IInv'
  <1>1. UNCHANGED <<rows, last, call, reader, listed, given, told, late, lost, faults>>
    BY DEF FireAges, TurnEnds, tables, tool, past, vars
  <1>2. /\ turn' \in [Items -> {"none", "running", "over"}]
        /\ \A i \in Items : turn'[i] = "running" => turn[i] = "running"
        /\ recent' \in 0 .. MaxFires
    <2>1. turn \in [Items -> {"none", "running", "over"}] /\ recent \in 0 .. MaxFires
      BY DEF IInv, TypeOK
    <2>. QED  BY <2>1 DEF FireAges, TurnEnds, vars
  <1>3. TypeOK'
    BY <1>1, <1>2 DEF IInv, TypeOK
  <1>4. FiredIsGiven'
    BY <1>1, <1>2 DEF IInv, FiredIsGiven
  <1>5. /\ CallsHaveRows' /\ HiddenWhileFired' /\ NotItsOwn' /\ NothingLost' /\ PendingIsTold'
    BY <1>1 DEF IInv, CallsHaveRows, HiddenWhileFired, NotItsOwn, NothingLost, PendingIsTold,
                Pending, Underway
  <1>. QED  BY <1>3, <1>4, <1>5 DEF IInv

LEMMA CrashInv ==
  ASSUME IInv, Crash
  PROVE  IInv'
  <1>1. \A c \in Callers : call'[c] = Idle
    BY DEF Crash
  <1>2. UNCHANGED <<rows, last, given, told, late>>
    BY DEF Crash, tables
  <1>3. \A i \in Items : turn'[i] # "running" /\ turn'[i] \in {"none", "running", "over"}
    BY DEF Crash, IInv, TypeOK
  <1>4. lost \subseteq lost' /\ lost' \subseteq 1 .. last
    <2>1. ASSUME NEW c \in Callers, call[c].id # 0
          PROVE  call[c].id \in 1 .. last
      <3>1. call[c].id \in 0 .. MaxItems /\ call[c].id <= last /\ last \in Nat
        BY DEF IInv, TypeOK, Call, CallsHaveRows
      <3>. QED  BY <2>1, <3>1
    <2>. QED  BY <2>1 DEF Crash, IInv, TypeOK
  <1>5. \A i \in 1 .. last : Underway(i) => i \in lost'
    BY DEF Crash, Underway
  <1>6. TypeOK'
    <2>1. faults' \in 0 .. MaxFaults /\ recent' \in 0 .. MaxFires
      BY DEF Crash, Fault, IInv, TypeOK
    <2>2. call' \in [Callers -> Call] /\ turn' \in [Items -> {"none", "running", "over"}]
      BY IdleType DEF Crash, IInv, TypeOK
    <2>. QED  BY <1>2, <1>4, <2>1, <2>2 DEF Crash, IInv, TypeOK
  <1>7. CallsHaveRows'
    <2>1. 0 <= last
      BY DEF IInv, TypeOK
    <2>. QED  BY <1>1, <1>2, <2>1, IdleType DEF CallsHaveRows
  <1>8. FiredIsGiven' /\ HiddenWhileFired'
    BY <1>1, <1>3, IdleType DEF FiredIsGiven, HiddenWhileFired
  <1>9. NotItsOwn'
    BY DEF Crash, NotItsOwn
  <1>10. NothingLost' /\ PendingIsTold'
    BY <1>2, <1>4, <1>5 DEF IInv, NothingLost, PendingIsTold, Pending
  <1>. QED  BY <1>6, <1>7, <1>8, <1>9, <1>10 DEF IInv

(***************************************************************************)
(* The theorems.                                                           *)
(***************************************************************************)

LEMMA Initially ==
  ASSUME Init
  PROVE  IInv
  <1>1. 1 .. 0 = {} /\ 1 .. last = {}
    BY DEF Init
  <1>2. TypeOK
    BY <1>1, IdleType DEF Init, TypeOK
  <1>3. CallsHaveRows /\ FiredIsGiven /\ HiddenWhileFired
    BY IdleType DEF Init, CallsHaveRows, FiredIsGiven, HiddenWhileFired
  <1>4. NotItsOwn /\ NothingLost /\ PendingIsTold
    BY <1>1 DEF Init, NotItsOwn, NothingLost, PendingIsTold
  <1>. QED  BY <1>2, <1>3, <1>4 DEF IInv

LEMMA Inductive ==
  ASSUME IInv, [Next]_vars
  PROVE  IInv'
  <1>1. ASSUME NEW c \in Callers, CallStep(c)
        PROVE  IInv'
    BY <1>1, InsertInv, MarkInv, PostInv, AnsweredInv, RestoreInv DEF CallStep
  <1>2. ASSUME NEW c \in Callers, NEW post \in Posts, Look(c, post)
        PROVE  IInv'
    BY <1>2, LookInv
  <1>3. ASSUME NEW r \in Items \cup {Chat}, NEW p \in Priorities, List(r, p)
        PROVE  IInv'
    BY <1>3, ListInv
  <1>4. ASSUME NEW i \in Items, Dismiss(i) \/ RowAges(i) \/ TurnEnds(i)
        PROVE  IInv'
    BY <1>4, TableInv, TimeInv
  <1>5. CASE Take \/ Prune \/ FireAges \/ Crash \/ UNCHANGED vars
    BY <1>5, TakeInv, TableInv, TimeInv, CrashInv
  <1>. QED  BY <1>1, <1>2, <1>3, <1>4, <1>5 DEF Next

LEMMA Invariance == Spec => []IInv
  BY Initially, Inductive, PTL DEF Spec

\* The state has its type: no more fires than the storm guard allows, no row
\* beyond the last that was inserted.
THEOREM TypeCorrect == Spec => []TypeOK
  <1>1. IInv => TypeOK
    BY DEF IInv
  <1>. QED  BY <1>1, Invariance, PTL

\* A delivered item was given to a turn or is still in the hands of its call,
\* unless a crash or a failed restore cut that call short: for any number of
\* posts, callers and readers at once.
THEOREM NoneLost == Spec => []NothingLost
  <1>1. IInv => NothingLost
    BY DEF IInv
  <1>. QED  BY <1>1, Invariance, PTL

\* The console hears of every item that waits and was not given to a turn, also
\* of one whose fire was refused.
THEOREM PendingAnnounced == Spec => []PendingIsTold
  <1>1. IInv => PendingIsTold
    BY DEF IInv
  <1>. QED  BY <1>1, Invariance, PTL

\* The turn that an item fired does not find that item in its inbox while the
\* POST waits for it.
THEOREM ReadsNotItself == Spec => NoSelfRead
  <1>1. IInv /\ IInv' /\ [Next]_vars => [reader' \in Items \ late => reader' \notin listed']_vars
    <2>. SUFFICES ASSUME IInv, IInv', [Next]_vars, reader' \in Items \ late,
                         ~(UNCHANGED vars)
                  PROVE  reader' \notin listed'
      OBVIOUS
    <2>1. CASE \E r \in Items \cup {Chat}, p \in Priorities : List(r, p)
      BY <2>1, RunningIsHidden DEF List
    <2>2. CASE ~\E r \in Items \cup {Chat}, p \in Priorities : List(r, p)
      <3>1. (reader' = reader /\ listed' = listed) \/ reader' = Nobody
        BY <2>2 DEF Next, CallStep, Look, Insert, Mark, Suppressed, Fire, Answered, GiveUp, Restore,
                    Take, Prune, FireAges, Crash, Dismiss, RowAges, TurnEnds, tool
      <3>2. Nobody \notin Items
        BY DEF Items
      <3>. QED  BY <3>1, <3>2 DEF IInv, NotItsOwn
    <2>. QED  BY <2>1, <2>2
  <1>. QED  BY <1>1, Invariance, PTL DEF Spec, NoSelfRead

-----------------------------------------------------------------------------
(* The event bus.                                                          *)

HIDE InboxAssumption
USE EventBusAssumption

(***************************************************************************)
(* Rising sequences of events.                                             *)
(***************************************************************************)

Elems(s) == {s[i] : i \in 1 .. Len(s)}
Rises(s) == \A i, j \in 1 .. Len(s) : i < j => s[i] < s[j]
Before(S, T) == \A x \in S, y \in T : x < y

LEMMA EventsAreNat == Events \subseteq Nat
  BY DEF Events

LEMMA EmptyFacts ==
  <<>> \in Seq(Events) /\ Len(<<>>) = 0 /\ Elems(<<>>) = {} /\ Rises(<<>>)
  <1>1. <<>> \in Seq(Events) /\ Len(<<>>) = 0
    BY EmptySeq
  <1>2. 1 .. 0 = {}
    OBVIOUS
  <1>. QED  BY <1>1, <1>2 DEF Elems, Rises

LEMMA ElemsType ==
  ASSUME NEW s \in Seq(Events)
  PROVE  Elems(s) \subseteq Events
  BY ElementOfSeq DEF Elems

LEMMA AppendFacts ==
  ASSUME NEW s \in Seq(Events), NEW e \in Events
  PROVE  /\ Append(s, e) \in Seq(Events) /\ Len(Append(s, e)) = Len(s) + 1
         /\ Elems(Append(s, e)) = Elems(s) \cup {e}
         /\ Rises(s) /\ Before(Elems(s), {e}) => Rises(Append(s, e))
  <1>1. Len(s) \in Nat
    BY LenProperties
  <1>2. /\ Append(s, e) \in Seq(Events) /\ Len(Append(s, e)) = Len(s) + 1
        /\ \A i \in 1 .. Len(s) : Append(s, e)[i] = s[i]
        /\ Append(s, e)[Len(s) + 1] = e
    OBVIOUS
  <1>3. \A i \in 1 .. Len(s) + 1 : i \in 1 .. Len(s) \/ i = Len(s) + 1
    BY <1>1
  <1>4. 1 .. Len(s) \subseteq 1 .. Len(s) + 1 /\ Len(s) + 1 \in 1 .. Len(s) + 1
    BY <1>1
  <1>5. Elems(Append(s, e)) = Elems(s) \cup {e}
    BY <1>2, <1>3, <1>4 DEF Elems
  <1>6. ASSUME Rises(s), Before(Elems(s), {e})
        PROVE  Rises(Append(s, e))
    <2>. SUFFICES ASSUME NEW i \in 1 .. Len(s) + 1, NEW j \in 1 .. Len(s) + 1, i < j
                  PROVE  Append(s, e)[i] < Append(s, e)[j]
      BY <1>2 DEF Rises
    <2>1. i \in 1 .. Len(s)
      BY <1>1
    <2>2. CASE j = Len(s) + 1
      BY <1>2, <1>6, <2>1, <2>2 DEF Elems, Before
    <2>3. CASE j \in 1 .. Len(s)
      BY <1>2, <1>6, <2>1, <2>3 DEF Rises
    <2>. QED  BY <1>3, <2>2, <2>3
  <1>. QED  BY <1>2, <1>5, <1>6

LEMMA TailFacts ==
  ASSUME NEW s \in Seq(Events), s # <<>>
  PROVE  /\ Tail(s) \in Seq(Events) /\ Len(Tail(s)) = Len(s) - 1 /\ Len(s) \in Nat \ {0}
         /\ Head(s) \in Elems(s) /\ Elems(Tail(s)) \subseteq Elems(s)
         /\ Rises(s) => Rises(Tail(s)) /\ Before({Head(s)}, Elems(Tail(s)))
  <1>1. /\ Tail(s) \in Seq(Events) /\ Len(Tail(s)) = Len(s) - 1
        /\ \A i \in 1 .. Len(Tail(s)) : Tail(s)[i] = s[i + 1]
    BY HeadTailProperties
  <1>2. Len(s) \in Nat \ {0}
    BY EmptySeq
  <1>3. Head(s) = s[1] /\ 1 \in 1 .. Len(s)
    BY <1>2
  <1>4. \A i \in 1 .. Len(Tail(s)) : i + 1 \in 1 .. Len(s) /\ 1 < i + 1 /\ i \in Nat
    BY <1>1, <1>2
  <1>5. Elems(Tail(s)) \subseteq Elems(s)
    BY <1>1, <1>4 DEF Elems
  <1>6. ASSUME Rises(s)
        PROVE  Rises(Tail(s)) /\ Before({Head(s)}, Elems(Tail(s)))
    <2>1. ASSUME NEW i \in 1 .. Len(Tail(s)), NEW j \in 1 .. Len(Tail(s)), i < j
          PROVE  Tail(s)[i] < Tail(s)[j]
      <3>1. i + 1 < j + 1
        BY <1>4, <2>1
      <3>. QED  BY <1>1, <1>4, <1>6, <3>1 DEF Rises
    <2>2. \A i \in 1 .. Len(Tail(s)) : Head(s) < Tail(s)[i]
      BY <1>1, <1>3, <1>4, <1>6 DEF Rises
    <2>. QED  BY <2>1, <2>2 DEF Rises, Before, Elems
  <1>. QED  BY <1>1, <1>2, <1>3, <1>5, <1>6 DEF Elems

\* A bounded buffer stays within its bound and in order.
LEMMA PushFacts ==
  ASSUME NEW s \in Seq(Events), NEW b \in Nat \ {0}, NEW e \in Events, Len(s) <= b
  PROVE  /\ Push(s, b, e) \in Seq(Events) /\ Len(Push(s, b, e)) <= b
         /\ Elems(Push(s, b, e)) \subseteq Elems(s) \cup {e}
         /\ Rises(s) /\ Before(Elems(s), {e}) => Rises(Push(s, b, e))
  <1>1. Len(s) \in Nat
    BY LenProperties
  <1>2. CASE Len(s) = b
    <2>1. s # <<>>
      BY <1>2, EmptySeq
    <2>. DEFINE t == Append(Tail(s), e)
    <2>2. Push(s, b, e) = t
      BY <1>2 DEF Push
    <2>3. Tail(s) \in Seq(Events) /\ Elems(Tail(s)) \subseteq Elems(s) /\ Len(Tail(s)) = Len(s) - 1
      BY <2>1, TailFacts
    <2>4. Rises(s) /\ Before(Elems(s), {e}) => Rises(Tail(s)) /\ Before(Elems(Tail(s)), {e})
      BY <2>1, <2>3, TailFacts DEF Before
    <2>5. /\ t \in Seq(Events) /\ Len(t) = Len(Tail(s)) + 1 /\ Elems(t) = Elems(Tail(s)) \cup {e}
          /\ Rises(Tail(s)) /\ Before(Elems(Tail(s)), {e}) => Rises(t)
      BY <2>3, AppendFacts
    <2>6. Len(t) <= b
      BY <1>1, <1>2, <2>3, <2>5
    <2>. HIDE DEF t
    <2>. QED  BY <2>2, <2>3, <2>4, <2>5, <2>6
  <1>3. CASE Len(s) # b
    <2>1. Push(s, b, e) = Append(s, e)
      BY <1>3 DEF Push
    <2>2. Len(s) + 1 <= b
      BY <1>1, <1>3
    <2>. QED  BY <2>1, <2>2, AppendFacts
  <1>. QED  BY <1>2, <1>3

\* The replay of a rising ring: what is newer than the cursor.
LEMMA NewerFacts ==
  ASSUME NEW s \in Seq(Events), NEW e \in Nat, Rises(s)
  PROVE  /\ Newer(s, e) \in Seq(Events)
         /\ Elems(Newer(s, e)) = {x \in Elems(s) : x > e}
         /\ Rises(Newer(s, e))
  <1>. DEFINE n == Len(s)
              First(m) == \A i \in 1 .. n : s[i] > e <=> m <= i
              Less == {p \in Nat \X Nat : p[1] < p[2]}
              New == {i \in 1 .. n : s[i] > e}
  <1>0. n \in Nat /\ \A i \in 1 .. n : s[i] \in Nat
    BY LenProperties, ElementOfSeq, EventsAreNat
  <1>1. \E m \in 1 .. n + 1 : First(m)
    <2>1. CASE New = {}
      <3>1. n + 1 \in 1 .. n + 1 /\ \A i \in 1 .. n : ~(n + 1 <= i)
        BY <1>0
      <3>. QED  BY <2>1, <3>1
    <2>2. CASE New # {}
      <3>1. IsWellFoundedOn(Less, Nat)
        BY NatLessThanWellFounded DEF OpToRel
      <3>2. New \subseteq Nat
        BY <1>0
      <3>3. PICK m \in New : \A i \in New : ~(<<i, m>> \in Less)
        BY <2>2, <3>1, <3>2, WFMin
      <3>4. m \in 1 .. n /\ m \in 1 .. n + 1 /\ m \in Nat /\ s[m] > e
        BY <1>0, <3>3
      <3>5. ASSUME NEW i \in 1 .. n
            PROVE  s[i] > e <=> m <= i
        <4>1. i \in Nat /\ s[i] \in Nat /\ s[m] \in Nat
          BY <1>0, <3>4
        <4>2. CASE i < m
          <5>1. <<i, m>> \in Less
            BY <3>4, <4>1, <4>2
          <5>2. ~(s[i] > e)
            BY <3>3, <5>1
          <5>. QED  BY <3>4, <4>1, <4>2, <5>2
        <4>3. CASE m < i
          <5>1. s[m] < s[i]
            BY <3>4, <4>3 DEF Rises
          <5>. QED  BY <3>4, <4>1, <4>3, <5>1
        <4>4. CASE i = m
          BY <3>4, <4>1, <4>4
        <4>. QED  BY <3>4, <4>1, <4>2, <4>3, <4>4
      <3>. QED  BY <3>4, <3>5
    <2>. QED  BY <2>1, <2>2
  <1>2. PICK m \in 1 .. n + 1 : First(m) /\ Newer(s, e) = SubSeq(s, m, n)
    <2>. HIDE DEF First
    <2>1. Newer(s, e) = SubSeq(s, CHOOSE m \in 1 .. n + 1 : First(m), n)
      BY DEF Newer, First
    <2>. QED  BY <1>1, <2>1
  <1>. DEFINE r == SubSeq(s, m, n)
  <1>3. m \in Int /\ n \in Int /\ m >= 1 /\ m <= n + 1 /\ (\A i \in m .. n : i \in 1 .. n)
    BY <1>0, <1>2
  <1>4. /\ r \in Seq(Events) /\ Len(r) = n - m + 1
        /\ \A i \in 1 .. n - m + 1 : r[i] = s[m + i - 1]
    <2>1. \A i \in m .. n : s[i] \in Events
      BY <1>3, ElementOfSeq
    <2>2. n - m + 1 = IF m <= n THEN n - m + 1 ELSE 0
      BY <1>3
    <2>. QED  BY <1>3, <2>1, <2>2, SubSeqProperties
  <1>5. \A i \in 1 .. Len(r) : m + i - 1 \in 1 .. n /\ m <= m + i - 1
    BY <1>3, <1>4
  <1>6. Rises(r)
    <2>. SUFFICES ASSUME NEW i \in 1 .. Len(r), NEW j \in 1 .. Len(r), i < j
                  PROVE  r[i] < r[j]
      BY DEF Rises
    <2>1. m + i - 1 < m + j - 1
      BY <1>3, <1>4
    <2>. QED  BY <1>4, <1>5, <2>1 DEF Rises
  <1>7. Elems(r) = {x \in Elems(s) : x > e}
    <2>1. ASSUME NEW i \in 1 .. Len(r)
          PROVE  r[i] \in Elems(s) /\ r[i] > e
      BY <1>2, <1>4, <1>5 DEF Elems
    <2>2. ASSUME NEW i \in 1 .. n, s[i] > e
          PROVE  s[i] \in Elems(r)
      <3>1. m <= i
        BY <1>2, <2>2
      <3>2. i - m + 1 \in 1 .. n - m + 1 /\ m + (i - m + 1) - 1 = i
        BY <1>3, <3>1
      <3>3. r[i - m + 1] = s[i]
        BY <1>4, <3>2
      <3>. QED  BY <1>4, <3>2, <3>3 DEF Elems
    <2>3. Elems(r) \subseteq {x \in Elems(s) : x > e}
      BY <2>1 DEF Elems
    <2>4. {x \in Elems(s) : x > e} \subseteq Elems(r)
      BY <2>2 DEF Elems
    <2>. QED  BY <2>3, <2>4
  <1>. QED  BY <1>2, <1>4, <1>6, <1>7

(***************************************************************************)
(* The invariant.                                                          *)
(***************************************************************************)

\* What a console has dispatched, what is on the wire, in the replay and in the
\* queue: each beyond the one before.
Flows(c) ==
  /\ Rises(wire[c]) /\ Rises(replay[c]) /\ Rises(queue[c])
  /\ Before(seen[c], Elems(wire[c]) \cup Elems(replay[c]) \cup Elems(queue[c]))
  /\ Before(Elems(wire[c]), Elems(replay[c]) \cup Elems(queue[c]))
  /\ Before(Elems(replay[c]), Elems(queue[c]))
  /\ seen[c] \cup Elems(wire[c]) \cup Elems(replay[c]) \cup Elems(queue[c]) \subseteq 1 .. seq

\* The cursor of a console that has dispatched something is beyond all of it.
CursorCovers(c) == \A s \in seen[c] : cursor[c] \in Nat /\ s <= cursor[c]

\* A stream that has not begun holds nothing.
NotBegun(c) ==
  /\ stage[c] \in {"away", "opening"} => wire[c] = <<>> /\ replay[c] = <<>> /\ queue[c] = <<>>
  /\ stage[c] = "opening" => since[c] = cursor[c]

RingInOrder == Rises(ring) /\ Elems(ring) \subseteq 1 .. seq

BusInv == /\ BusTypeOK /\ RingInOrder
        /\ \A c \in Consoles : Flows(c) /\ CursorCovers(c) /\ NotBegun(c)

(***************************************************************************)
(* Each action.                                                            *)
(***************************************************************************)

LEMMA UptoEvents ==
  ASSUME BusTypeOK
  PROVE  seq \in Nat /\ 1 .. seq \subseteq Events /\ 1 .. seq \subseteq Nat
  BY DEF BusTypeOK, Events

LEMMA PublishInv ==
  ASSUME BusInv, NEW retain \in BOOLEAN, PublishOnLoop(retain),
         posted' \in Seq(BOOLEAN), Len(posted') <= MaxPosted,
         UNCHANGED <<stage, since, replay, wire, client, busFaults>>
  PROVE  BusInv'
  <1>. DEFINE e == seq + 1
  <1>1. /\ seq \in Nat /\ seq' = e /\ e \in 0 .. MaxSeq /\ e \in Events
        /\ \A x \in 1 .. seq : x < e /\ x \in 1 .. e /\ e \in 1 .. e
        /\ 1 .. seq \subseteq 1 .. e /\ e \in 1 .. e
    BY DEF PublishOnLoop, BusInv, BusTypeOK, Events
  <1>2. /\ ring \in Seq(Events) /\ Len(ring) <= RingSize /\ Rises(ring)
        /\ Elems(ring) \subseteq 1 .. seq
    BY DEF BusInv, BusTypeOK, RingInOrder
  <1>. HIDE DEF e
  <1>3. /\ ring' \in Seq(Events) /\ Len(ring') <= RingSize /\ Rises(ring')
        /\ Elems(ring') \subseteq 1 .. e
    <2>1. CASE retain
      <3>1. ring' = Push(ring, RingSize, e)
        BY <2>1 DEF PublishOnLoop, e
      <3>2. Before(Elems(ring), {e})
        BY <1>1, <1>2 DEF Before
      <3>. QED  BY <1>1, <1>2, <3>1, <3>2, PushFacts
    <2>2. CASE ~retain
      <3>1. ring' = ring
        BY <2>2 DEF PublishOnLoop
      <3>. QED  BY <1>1, <1>2, <3>1
    <2>. QED  BY <2>1, <2>2
  <1>4. ASSUME NEW c \in Consoles
        PROVE  /\ queue'[c] \in Seq(Events) /\ Len(queue'[c]) <= MaxQueue
               /\ Rises(queue'[c]) /\ Elems(queue'[c]) \subseteq Elems(queue[c]) \cup {e}
               /\ stage[c] # "open" => queue'[c] = queue[c]
    <2>1. /\ queue[c] \in Seq(Events) /\ Len(queue[c]) <= MaxQueue /\ Rises(queue[c])
          /\ Elems(queue[c]) \subseteq 1 .. seq
      BY DEF BusInv, BusTypeOK, Flows
    <2>2. Before(Elems(queue[c]), {e})
      BY <1>1, <2>1 DEF Before
    <2>3. queue'[c] = IF stage[c] = "open" THEN Push(queue[c], MaxQueue, e) ELSE queue[c]
      BY DEF PublishOnLoop, e
    <2>. QED  BY <1>1, <2>1, <2>2, <2>3, PushFacts
  <1>5. /\ kept' \subseteq Events /\ queue' \in [Consoles -> Seq(Events)]
    <2>1. DOMAIN queue' = Consoles /\ queue' = [c \in Consoles |-> queue'[c]]
      BY DEF PublishOnLoop
    <2>2. queue' \in [Consoles -> Seq(Events)]
      BY <1>4, <2>1
    <2>. QED  BY <1>1, <2>2 DEF PublishOnLoop, BusInv, BusTypeOK, e
  <1>6. BusTypeOK'
    BY <1>1, <1>3, <1>4, <1>5 DEF BusInv, BusTypeOK, client
  <1>7. RingInOrder'
    BY <1>1, <1>3 DEF RingInOrder
  <1>8. ASSUME NEW c \in Consoles
        PROVE  (Flows(c) /\ CursorCovers(c) /\ NotBegun(c))'
    <2>1. Flows(c) /\ CursorCovers(c) /\ NotBegun(c)
      BY DEF BusInv
    <2>2. UNCHANGED <<stage, since, replay, wire, cursor, seen>>
      BY DEF client
    <2>3. seen[c] \cup Elems(wire[c]) \cup Elems(replay[c]) \subseteq 1 .. seq
      BY <2>1 DEF Flows
    <2>4. Before(seen[c] \cup Elems(wire[c]) \cup Elems(replay[c]), {e})
      BY <1>1, <2>3 DEF Before
    <2>5. Flows(c)'
      <3>1. Rises(wire[c]) /\ Rises(replay[c]) /\ Rises(queue'[c])
        BY <1>4, <2>1 DEF Flows
      <3>2. /\ Before(seen[c], Elems(wire[c]) \cup Elems(replay[c]) \cup Elems(queue'[c]))
            /\ Before(Elems(wire[c]), Elems(replay[c]) \cup Elems(queue'[c]))
            /\ Before(Elems(replay[c]), Elems(queue'[c]))
        BY <1>4, <2>1, <2>4 DEF Flows, Before
      <3>3. seen[c] \cup Elems(wire[c]) \cup Elems(replay[c]) \cup Elems(queue'[c]) \subseteq 1 .. e
        BY <1>1, <1>4, <2>1 DEF Flows
      <3>. QED  BY <1>1, <2>2, <3>1, <3>2, <3>3 DEF Flows
    <2>6. CursorCovers(c)' /\ NotBegun(c)'
      BY <1>4, <2>1, <2>2 DEF CursorCovers, NotBegun
    <2>. QED  BY <2>5, <2>6
  <1>. QED  BY <1>6, <1>7, <1>8 DEF BusInv

\* The actions of one stream, which leave the bus and the other streams alone.
LEMMA StreamInv ==
  ASSUME BusInv, NEW c \in Consoles,
         UNCHANGED <<seq, ring, posted, kept>>, busFaults' \in 0 .. MaxBusFaults,
         \A d \in Consoles \ {c} :
           /\ stage'[d] = stage[d] /\ since'[d] = since[d] /\ replay'[d] = replay[d]
           /\ queue'[d] = queue[d] /\ wire'[d] = wire[d]
           /\ cursor'[d] = cursor[d] /\ seen'[d] = seen[d],
         BusTypeOK', (Flows(c) /\ CursorCovers(c) /\ NotBegun(c))'
  PROVE  BusInv'
  <1>1. RingInOrder'
    BY DEF BusInv, RingInOrder
  <1>2. ASSUME NEW d \in Consoles \ {c}
        PROVE  (Flows(d) /\ CursorCovers(d) /\ NotBegun(d))'
    BY DEF BusInv, Flows, CursorCovers, NotBegun
  <1>. QED  BY <1>1, <1>2 DEF BusInv

LEMMA CloseFacts ==
  ASSUME BusTypeOK, NEW c \in Consoles, NEW to \in {"over", "away"}, Close(c, to)
  PROVE  /\ stage' \in [Consoles -> {"away", "opening", "open", "over"}] /\ stage'[c] = to
         /\ replay' \in [Consoles -> Seq(Events)] /\ replay'[c] = <<>>
         /\ queue' \in [Consoles -> Seq(Events)] /\ queue'[c] = <<>>
         /\ \A d \in Consoles : Len(queue'[d]) <= MaxQueue
         /\ \A d \in Consoles \ {c} : /\ stage'[d] = stage[d] /\ replay'[d] = replay[d]
                                      /\ queue'[d] = queue[d]
  BY EmptyFacts DEF BusTypeOK, Close

LEMMA FaultFacts ==
  ASSUME BusTypeOK, NEW kind, BusFault(kind) \/ UNCHANGED busFaults
  PROVE  busFaults' \in 0 .. MaxBusFaults
  BY DEF BusTypeOK, BusFault

LEMMA ConnectInv ==
  ASSUME BusInv, NEW c \in Consoles, Connect(c)
  PROVE  BusInv'
  <1>1. BusTypeOK /\ Flows(c) /\ CursorCovers(c) /\ NotBegun(c)
    BY DEF BusInv
  <1>2. BusTypeOK'
    BY <1>1 DEF BusTypeOK, Connect, client
  <1>3. stage'[c] = "opening" /\ since'[c] = cursor[c]
    BY <1>1 DEF BusTypeOK, Connect
  <1>4. (Flows(c) /\ CursorCovers(c) /\ NotBegun(c))'
    BY <1>1, <1>3 DEF Flows, CursorCovers, NotBegun, Connect, client
  <1>. QED  BY <1>1, <1>2, <1>4, StreamInv DEF Connect, BusTypeOK, client

LEMMA SubscribeInv ==
  ASSUME BusInv, NEW c \in Consoles, Subscribe(c)
  PROVE  BusInv'
  <1>1. BusTypeOK /\ RingInOrder /\ Flows(c) /\ CursorCovers(c) /\ NotBegun(c)
    BY DEF BusInv
  <1>2. wire[c] = <<>> /\ queue[c] = <<>> /\ since[c] = cursor[c]
    BY <1>1 DEF Subscribe, NotBegun
  <1>3. /\ Replay(c) \in Seq(Events) /\ Rises(Replay(c)) /\ Elems(Replay(c)) \subseteq 1 .. seq
        /\ Before(seen[c], Elems(Replay(c)))
    <2>1. CASE since[c] = Nothing
      BY <2>1, EmptyFacts DEF Replay, Before
    <2>2. CASE since[c] # Nothing
      <3>1. since[c] \in Nat /\ ring \in Seq(Events) /\ Rises(ring)
        BY <1>1, <2>2 DEF BusTypeOK, RingInOrder
      <3>2. /\ Newer(ring, since[c]) \in Seq(Events)
            /\ Elems(Newer(ring, since[c])) = {x \in Elems(ring) : x > since[c]}
            /\ Rises(Newer(ring, since[c]))
        BY <3>1, NewerFacts
      <3>3. \A s \in seen[c] : s \in Nat /\ s <= since[c]
        BY <1>1, <1>2, UptoEvents DEF CursorCovers, Flows
      <3>4. \A x \in Elems(ring) : x \in Nat /\ x \in 1 .. seq
        BY <1>1, UptoEvents DEF RingInOrder
      <3>5. \A s \in seen[c], x \in Elems(ring) : x > since[c] => s < x
        BY <3>1, <3>3, <3>4
      <3>. QED  BY <2>2, <3>2, <3>4, <3>5 DEF Replay, Before
    <2>. QED  BY <2>1, <2>2
  <1>4. replay' = [replay EXCEPT ![c] = Replay(c)] /\ stage' = [stage EXCEPT ![c] = "open"]
    BY DEF Subscribe
  <1>5. /\ replay' \in [Consoles -> Seq(Events)] /\ replay'[c] = Replay(c)
        /\ stage' \in [Consoles -> {"away", "opening", "open", "over"}] /\ stage'[c] = "open"
        /\ \A d \in Consoles \ {c} : replay'[d] = replay[d] /\ stage'[d] = stage[d]
    BY <1>1, <1>3, <1>4 DEF BusTypeOK
  <1>6. /\ UNCHANGED <<seq, ring, posted, since, queue, wire, cursor, current, seen, kept, busFaults>>
    BY DEF Subscribe, client
  <1>7. BusTypeOK'
    BY <1>1, <1>5, <1>6 DEF BusTypeOK
  <1>8. Flows(c)'
    BY <1>1, <1>2, <1>3, <1>5, <1>6, EmptyFacts DEF Flows, Before
  <1>9. CursorCovers(c)' /\ NotBegun(c)'
    BY <1>1, <1>5, <1>6 DEF CursorCovers, NotBegun
  <1>10. busFaults' \in 0 .. MaxBusFaults
    BY <1>1, <1>6 DEF BusTypeOK
  <1>. QED  BY <1>5, <1>6, <1>7, <1>8, <1>9, <1>10, StreamInv

\* A frame is taken from the front of the replay, or of the queue behind it.
LEMMA SendInv ==
  ASSUME BusInv, NEW c \in Consoles, Send(c)
  PROVE  BusInv'
  <1>1. BusTypeOK /\ Flows(c) /\ CursorCovers(c) /\ NotBegun(c)
    BY DEF BusInv
  <1>2. UNCHANGED <<seq, ring, posted, stage, since, cursor, current, seen, kept, busFaults>>
    BY DEF Send, client
  <1>3. /\ stage[c] = "open" /\ Len(wire[c]) < MaxWire /\ Len(wire[c]) \in Nat
        /\ wire[c] \in Seq(Events) /\ replay[c] \in Seq(Events) /\ queue[c] \in Seq(Events)
    BY <1>1, LenProperties DEF Send, BusTypeOK
  <1>4. ASSUME NEW e \in Events, wire' = [wire EXCEPT ![c] = Append(wire[c], e)],
               Before(Elems(wire[c]), {e})
        PROVE  /\ wire' \in [Consoles -> Seq(Events)] /\ wire'[c] = Append(wire[c], e)
               /\ \A d \in Consoles : Len(wire'[d]) <= MaxWire
               /\ \A d \in Consoles \ {c} : wire'[d] = wire[d]
               /\ Rises(wire'[c]) /\ Elems(wire'[c]) = Elems(wire[c]) \cup {e}
    <2>1. /\ Append(wire[c], e) \in Seq(Events) /\ Len(Append(wire[c], e)) = Len(wire[c]) + 1
          /\ Elems(Append(wire[c], e)) = Elems(wire[c]) \cup {e} /\ Rises(Append(wire[c], e))
      BY <1>1, <1>3, <1>4, AppendFacts DEF Flows
    <2>2. Len(wire[c]) + 1 <= MaxWire
      BY <1>3
    <2>. QED  BY <1>1, <1>4, <2>1, <2>2 DEF BusTypeOK
  <1>5. CASE /\ replay[c] # <<>> /\ wire' = [wire EXCEPT ![c] = Append(@, Head(replay[c]))]
             /\ replay' = [replay EXCEPT ![c] = Tail(@)] /\ UNCHANGED queue
    <2>. DEFINE e == Head(replay[c])
    <2>1. /\ Tail(replay[c]) \in Seq(Events) /\ e \in Elems(replay[c]) /\ e \in Events
          /\ Elems(Tail(replay[c])) \subseteq Elems(replay[c])
          /\ Rises(Tail(replay[c])) /\ Before({e}, Elems(Tail(replay[c])))
      BY <1>1, <1>3, <1>5, TailFacts, ElemsType DEF Flows
    <2>2. Before(Elems(wire[c]), {e}) /\ Before(seen[c], {e}) /\ Before({e}, Elems(queue[c]))
      BY <1>1, <2>1 DEF Flows, Before
    <2>3. wire' = [wire EXCEPT ![c] = Append(wire[c], e)]
      BY <1>5
    <2>4. /\ replay' \in [Consoles -> Seq(Events)] /\ replay'[c] = Tail(replay[c])
          /\ \A d \in Consoles \ {c} : replay'[d] = replay[d]
      BY <1>1, <1>5, <2>1 DEF BusTypeOK
    <2>. HIDE DEF e
    <2>5. /\ wire' \in [Consoles -> Seq(Events)]
          /\ \A d \in Consoles : Len(wire'[d]) <= MaxWire
          /\ \A d \in Consoles \ {c} : wire'[d] = wire[d]
          /\ Rises(wire'[c]) /\ Elems(wire'[c]) = Elems(wire[c]) \cup {e}
      BY <1>4, <2>1, <2>2, <2>3
    <2>6. BusTypeOK'
      BY <1>1, <1>2, <1>5, <2>4, <2>5 DEF BusTypeOK
    <2>7. Flows(c)'
      <3>1. UNCHANGED <<seq, seen, queue>>
        BY <1>2, <1>5
      <3>2. Rises(wire'[c]) /\ Rises(replay'[c]) /\ Rises(queue[c])
        BY <1>1, <2>1, <2>4, <2>5 DEF Flows
      <3>3. /\ Before(seen[c], Elems(wire'[c]) \cup Elems(replay'[c]) \cup Elems(queue[c]))
            /\ Before(Elems(wire'[c]), Elems(replay'[c]) \cup Elems(queue[c]))
            /\ Before(Elems(replay'[c]), Elems(queue[c]))
        BY <1>1, <2>1, <2>2, <2>4, <2>5 DEF Flows, Before
      <3>4. seen[c] \cup Elems(wire'[c]) \cup Elems(replay'[c]) \cup Elems(queue[c]) \subseteq 1 .. seq
        BY <1>1, <2>1, <2>4, <2>5 DEF Flows
      <3>. QED  BY <3>1, <3>2, <3>3, <3>4 DEF Flows
    <2>8. CursorCovers(c)' /\ NotBegun(c)'
      BY <1>1, <1>2, <1>3 DEF CursorCovers, NotBegun
    <2>9. busFaults' \in 0 .. MaxBusFaults
      BY <1>1, <1>2 DEF BusTypeOK
    <2>. QED  BY <1>2, <1>5, <2>4, <2>5, <2>6, <2>7, <2>8, <2>9, StreamInv
  <1>6. CASE /\ replay[c] = <<>> /\ queue[c] # <<>>
             /\ wire' = [wire EXCEPT ![c] = Append(@, Head(queue[c]))]
             /\ queue' = [queue EXCEPT ![c] = Tail(@)] /\ UNCHANGED replay
    <2>. DEFINE e == Head(queue[c])
    <2>1. /\ Tail(queue[c]) \in Seq(Events) /\ e \in Elems(queue[c]) /\ e \in Events
          /\ Elems(Tail(queue[c])) \subseteq Elems(queue[c])
          /\ Rises(Tail(queue[c])) /\ Before({e}, Elems(Tail(queue[c])))
          /\ Len(Tail(queue[c])) <= MaxQueue
      <3>1. Len(queue[c]) <= MaxQueue
        BY <1>1 DEF BusTypeOK
      <3>2. Len(Tail(queue[c])) = Len(queue[c]) - 1 /\ Len(queue[c]) \in Nat
        BY <1>3, <1>6, TailFacts
      <3>3. Len(Tail(queue[c])) <= MaxQueue
        BY <3>1, <3>2
      <3>. QED  BY <1>1, <1>3, <1>6, <3>3, TailFacts, ElemsType DEF Flows
    <2>2. Before(Elems(wire[c]), {e}) /\ Before(seen[c], {e}) /\ Elems(replay[c]) = {}
      BY <1>1, <1>6, <2>1, EmptyFacts DEF Flows, Before
    <2>3. wire' = [wire EXCEPT ![c] = Append(wire[c], e)]
      BY <1>6
    <2>4. /\ queue' \in [Consoles -> Seq(Events)] /\ queue'[c] = Tail(queue[c])
          /\ \A d \in Consoles : Len(queue'[d]) <= MaxQueue
          /\ \A d \in Consoles \ {c} : queue'[d] = queue[d]
      BY <1>1, <1>6, <2>1 DEF BusTypeOK
    <2>. HIDE DEF e
    <2>5. /\ wire' \in [Consoles -> Seq(Events)]
          /\ \A d \in Consoles : Len(wire'[d]) <= MaxWire
          /\ \A d \in Consoles \ {c} : wire'[d] = wire[d]
          /\ Rises(wire'[c]) /\ Elems(wire'[c]) = Elems(wire[c]) \cup {e}
      BY <1>4, <2>1, <2>2, <2>3
    <2>6. BusTypeOK'
      BY <1>1, <1>2, <1>6, <2>4, <2>5 DEF BusTypeOK
    <2>7. Flows(c)'
      <3>1. UNCHANGED <<seq, seen, replay>>
        BY <1>2, <1>6
      <3>2. Rises(wire'[c]) /\ Rises(replay[c]) /\ Rises(queue'[c])
        BY <1>1, <2>1, <2>4, <2>5 DEF Flows
      <3>3. /\ Before(seen[c], Elems(wire'[c]) \cup Elems(replay[c]) \cup Elems(queue'[c]))
            /\ Before(Elems(wire'[c]), Elems(replay[c]) \cup Elems(queue'[c]))
            /\ Before(Elems(replay[c]), Elems(queue'[c]))
        BY <1>1, <2>1, <2>2, <2>4, <2>5 DEF Flows, Before
      <3>4. seen[c] \cup Elems(wire'[c]) \cup Elems(replay[c]) \cup Elems(queue'[c]) \subseteq 1 .. seq
        BY <1>1, <2>1, <2>4, <2>5 DEF Flows
      <3>. QED  BY <3>1, <3>2, <3>3, <3>4 DEF Flows
    <2>8. CursorCovers(c)' /\ NotBegun(c)'
      BY <1>1, <1>2, <1>3 DEF CursorCovers, NotBegun
    <2>9. busFaults' \in 0 .. MaxBusFaults
      BY <1>1, <1>2 DEF BusTypeOK
    <2>. QED  BY <1>2, <1>6, <2>4, <2>5, <2>6, <2>7, <2>8, <2>9, StreamInv
  <1>. QED  BY <1>5, <1>6 DEF Send

\* A stream that closes: nothing that remains was behind what is gone.
LEMMA CloseInv ==
  ASSUME BusInv, NEW c \in Consoles, KeepaliveDue(c) \/ Ended(c) \/ Drop(c)
  PROVE  BusInv'
  <1>1. BusTypeOK /\ Flows(c) /\ CursorCovers(c)
    BY DEF BusInv
  <1>2. PICK to \in {"over", "away"} :
          Close(c, to) /\ (to = "away" => wire'[c] = <<>>) /\ (to = "over" => wire'[c] = wire[c])
    BY <1>1 DEF KeepaliveDue, Ended, Drop, BusTypeOK
  <1>3. /\ wire' \in [Consoles -> Seq(Events)] /\ wire'[c] \in {<<>>, wire[c]}
        /\ \A d \in Consoles : Len(wire'[d]) <= MaxWire
        /\ \A d \in Consoles \ {c} : wire'[d] = wire[d]
    <2>1. wire' = wire \/ wire' = [wire EXCEPT ![c] = <<>>]
      BY DEF KeepaliveDue, Ended, Drop
    <2>2. 0 <= MaxWire
      OBVIOUS
    <2>3. wire \in [Consoles -> Seq(Events)] /\ \A d \in Consoles : Len(wire[d]) <= MaxWire
      BY <1>1 DEF BusTypeOK
    <2>. QED  BY <2>1, <2>2, <2>3, EmptyFacts
  <1>4. UNCHANGED <<seq, ring, posted, since, cursor, current, seen, kept>>
    BY DEF KeepaliveDue, Ended, Drop, client
  <1>5. busFaults' \in 0 .. MaxBusFaults
    BY <1>1, FaultFacts DEF KeepaliveDue, Ended, Drop
  <1>6. /\ stage' \in [Consoles -> {"away", "opening", "open", "over"}] /\ stage'[c] = to
        /\ replay' \in [Consoles -> Seq(Events)] /\ replay'[c] = <<>>
        /\ queue' \in [Consoles -> Seq(Events)] /\ queue'[c] = <<>>
        /\ \A d \in Consoles : Len(queue'[d]) <= MaxQueue
        /\ \A d \in Consoles \ {c} : /\ stage'[d] = stage[d] /\ replay'[d] = replay[d]
                                     /\ queue'[d] = queue[d]
    BY <1>1, <1>2, CloseFacts
  <1>7. BusTypeOK'
    BY <1>1, <1>3, <1>4, <1>5, <1>6 DEF BusTypeOK
  <1>8. Flows(c)'
    <2>1. Rises(wire'[c]) /\ Elems(wire'[c]) \subseteq Elems(wire[c])
      BY <1>1, <1>3, EmptyFacts DEF Flows
    <2>. QED  BY <1>1, <1>4, <1>6, <2>1, EmptyFacts DEF Flows, Before
  <1>9. CursorCovers(c)' /\ NotBegun(c)'
    BY <1>1, <1>2, <1>4, <1>6 DEF CursorCovers, NotBegun
  <1>. QED  BY <1>3, <1>4, <1>5, <1>6, <1>7, <1>8, <1>9, StreamInv

LEMMA DispatchInv ==
  ASSUME BusInv, NEW c \in Consoles, Dispatch(c)
  PROVE  BusInv'
  <1>. DEFINE e == Head(wire[c])
  <1>1. BusTypeOK /\ Flows(c) /\ CursorCovers(c)
    BY DEF BusInv
  <1>2. wire[c] \in Seq(Events) /\ wire[c] # <<>> /\ Len(wire[c]) <= MaxWire
    BY <1>1 DEF Dispatch, BusTypeOK
  <1>3. /\ Tail(wire[c]) \in Seq(Events) /\ e \in Elems(wire[c]) /\ e \in Events /\ e \in Nat
        /\ Elems(Tail(wire[c])) \subseteq Elems(wire[c])
        /\ Rises(Tail(wire[c])) /\ Before({e}, Elems(Tail(wire[c])))
        /\ Len(Tail(wire[c])) <= MaxWire
    <2>1. Len(Tail(wire[c])) = Len(wire[c]) - 1 /\ Len(wire[c]) \in Nat
      BY <1>2, TailFacts
    <2>2. Len(Tail(wire[c])) <= MaxWire
      BY <1>2, <2>1
    <2>. QED  BY <1>1, <1>2, <2>2, TailFacts, ElemsType, EventsAreNat DEF Flows
  <1>4. /\ UNCHANGED <<seq, ring, posted, stage, since, replay, queue, kept, busFaults>>
        /\ stage[c] \in {"open", "over"}
    BY DEF Dispatch, stream
  <1>5. /\ wire' = [wire EXCEPT ![c] = Tail(wire[c])] /\ cursor' = [cursor EXCEPT ![c] = e]
        /\ seen' = [seen EXCEPT ![c] = seen[c] \cup {e}] /\ current' = [current EXCEPT ![c] = TRUE]
    BY DEF Dispatch
  <1>. HIDE DEF e
  <1>6. /\ wire' \in [Consoles -> Seq(Events)] /\ wire'[c] = Tail(wire[c])
        /\ \A d \in Consoles : Len(wire'[d]) <= MaxWire
        /\ cursor' \in [Consoles -> Nat \cup {Nothing}] /\ cursor'[c] = e
        /\ seen' \in [Consoles -> SUBSET Events] /\ seen'[c] = seen[c] \cup {e}
        /\ \A d \in Consoles \ {c} : /\ wire'[d] = wire[d] /\ cursor'[d] = cursor[d]
                                     /\ seen'[d] = seen[d]
    BY <1>1, <1>3, <1>5 DEF BusTypeOK
  <1>7. BusTypeOK'
    <2>1. current' \in [Consoles -> BOOLEAN]
      BY <1>1, <1>5 DEF BusTypeOK
    <2>. QED  BY <1>1, <1>4, <1>6, <2>1 DEF BusTypeOK
  <1>8. Flows(c)'
    <2>1. Rises(wire'[c]) /\ Rises(replay[c]) /\ Rises(queue[c])
      BY <1>1, <1>3, <1>6 DEF Flows
    <2>2. Before(seen'[c], Elems(wire'[c]) \cup Elems(replay[c]) \cup Elems(queue[c]))
      BY <1>1, <1>3, <1>6 DEF Flows, Before
    <2>3. /\ Before(Elems(wire'[c]), Elems(replay[c]) \cup Elems(queue[c]))
          /\ Before(Elems(replay[c]), Elems(queue[c]))
      BY <1>1, <1>3, <1>6 DEF Flows, Before
    <2>4. seen'[c] \cup Elems(wire'[c]) \cup Elems(replay[c]) \cup Elems(queue[c]) \subseteq 1 .. seq
      BY <1>1, <1>3, <1>6 DEF Flows
    <2>. QED  BY <1>4, <2>1, <2>2, <2>3, <2>4 DEF Flows
  <1>9. CursorCovers(c)'
    <2>1. \A s \in seen[c] : s \in Nat /\ s < e
      BY <1>1, <1>3, UptoEvents DEF Flows, Before
    <2>. QED  BY <1>3, <1>6, <2>1 DEF CursorCovers
  <1>10. NotBegun(c)' /\ busFaults' \in 0 .. MaxBusFaults
    BY <1>1, <1>4 DEF NotBegun, BusTypeOK
  <1>. QED  BY <1>4, <1>6, <1>7, <1>8, <1>9, <1>10, StreamInv

LEMMA RestartInv ==
  ASSUME BusInv, Restart
  PROVE  BusInv'
  <1>1. BusTypeOK
    BY DEF BusInv
  <1>2. /\ seq' = 0 /\ ring' = <<>> /\ posted' = <<>> /\ kept' = {} /\ busFaults' \in 0 .. MaxBusFaults
        /\ UNCHANGED <<since, cursor>>
    BY <1>1, FaultFacts DEF Restart
  <1>3. \A c \in Consoles : /\ stage'[c] = "away" /\ replay'[c] = <<>> /\ queue'[c] = <<>>
                            /\ wire'[c] = <<>> /\ seen'[c] = {}
    BY DEF Restart, Empty
  <1>4. /\ posted' \in Seq(BOOLEAN) /\ Len(posted') = 0
    BY <1>2, EmptySeq
  <1>5. BusTypeOK'
    <2>1. Empty \in [Consoles -> Seq(Events)]
      BY EmptyFacts DEF Empty
    <2>2. \A c \in Consoles : Len(queue'[c]) <= MaxQueue /\ Len(wire'[c]) <= MaxWire
      BY <1>3, EmptyFacts
    <2>. QED  BY <1>1, <1>2, <1>4, <2>1, <2>2, EmptyFacts DEF Restart, BusTypeOK
  <1>6. RingInOrder'
    BY <1>2, EmptyFacts DEF RingInOrder
  <1>7. ASSUME NEW c \in Consoles
        PROVE  (Flows(c) /\ CursorCovers(c) /\ NotBegun(c))'
    BY <1>3, EmptyFacts DEF Flows, CursorCovers, NotBegun, Before
  <1>. QED  BY <1>5, <1>6, <1>7 DEF BusInv

(***************************************************************************)
(* The theorems.                                                           *)
(***************************************************************************)

LEMMA BusInvInitially ==
  ASSUME BusInit
  PROVE  BusInv
  <1>1. /\ posted \in Seq(BOOLEAN) /\ Len(posted) = 0
    BY EmptySeq DEF BusInit
  <1>2. Empty \in [Consoles -> Seq(Events)] /\ \A c \in Consoles : Len(Empty[c]) = 0
    BY EmptyFacts DEF Empty
  <1>3. BusTypeOK
    BY <1>1, <1>2, EmptyFacts DEF BusInit, BusTypeOK
  <1>4. RingInOrder
    BY EmptyFacts DEF BusInit, RingInOrder
  <1>5. ASSUME NEW c \in Consoles
        PROVE  Flows(c) /\ CursorCovers(c) /\ NotBegun(c)
    BY EmptyFacts DEF BusInit, Empty, Flows, CursorCovers, NotBegun, Before
  <1>. QED  BY <1>3, <1>4, <1>5 DEF BusInv

LEMMA BusInvInductive ==
  ASSUME BusInv, [BusNext]_busVars
  PROVE  BusInv'
  <1>1. ASSUME NEW retain \in BOOLEAN, Publish(retain)
        PROVE  BusInv'
    <2>1. posted' = posted /\ posted \in Seq(BOOLEAN) /\ Len(posted) <= MaxPosted
      BY <1>1 DEF Publish, BusInv, BusTypeOK
    <2>. QED  BY <1>1, <2>1, PublishInv DEF Publish
  <1>2. ASSUME RunPosted
        PROVE  BusInv'
    <2>1. posted \in Seq(BOOLEAN) /\ Len(posted) <= MaxPosted /\ posted # <<>>
      BY <1>2 DEF RunPosted, BusInv, BusTypeOK
    <2>2. /\ Head(posted) \in BOOLEAN /\ Tail(posted) \in Seq(BOOLEAN)
          /\ Len(Tail(posted)) = Len(posted) - 1 /\ Len(posted) \in Nat
      BY <2>1, HeadTailProperties, LenProperties
    <2>3. posted' \in Seq(BOOLEAN) /\ Len(posted') <= MaxPosted
      BY <1>2, <2>1, <2>2 DEF RunPosted
    <2>. QED  BY <1>2, <2>2, <2>3, PublishInv DEF RunPosted
  <1>3. ASSUME NEW retain \in BOOLEAN, PublishOffLoop(retain)
        PROVE  BusInv'
    <2>1. posted' \in Seq(BOOLEAN) /\ Len(posted') <= MaxPosted
      <3>1. posted \in Seq(BOOLEAN) /\ Len(posted) < MaxPosted /\ Len(posted) \in Nat
        BY <1>3, LenProperties DEF PublishOffLoop, BusInv, BusTypeOK
      <3>2. Len(posted') = Len(posted) + 1 /\ posted' \in Seq(BOOLEAN)
        BY <1>3, <3>1 DEF PublishOffLoop
      <3>. QED  BY <3>1, <3>2
    <2>2. BusTypeOK'
      BY <1>3, <2>1 DEF PublishOffLoop, BusInv, BusTypeOK, stream, client
    <2>. QED  BY <1>3, <2>2 DEF PublishOffLoop, BusInv, RingInOrder, Flows, CursorCovers, NotBegun,
                                stream, client
  <1>4. ASSUME NEW c \in Consoles,
               \/ Connect(c) \/ Subscribe(c) \/ Send(c) \/ KeepaliveDue(c)
               \/ Dispatch(c) \/ Ended(c) \/ Drop(c)
        PROVE  BusInv'
    BY <1>4, ConnectInv, SubscribeInv, SendInv, CloseInv, DispatchInv
  <1>5. CASE UNCHANGED busVars
    <2>1. BusTypeOK'
      BY <1>5 DEF BusInv, BusTypeOK, busVars, stream, client
    <2>. QED  BY <1>5, <2>1 DEF BusInv, RingInOrder, Flows, CursorCovers, NotBegun, busVars, stream, client
  <1>. QED  BY <1>1, <1>2, <1>3, <1>4, <1>5, RestartInv DEF BusNext

LEMMA BusInvariance == BusSpec => []BusInv
  BY BusInvInitially, BusInvInductive, PTL DEF BusSpec

\* The state has its type: ring, queues and wires stay within their bounds.
THEOREM BusTypeCorrect == BusSpec => []BusTypeOK
  <1>1. BusInv => BusTypeOK
    BY DEF BusInv
  <1>. QED  BY <1>1, BusInvariance, PTL

\* A console dispatches the events of a process in order and each once, over any
\* number of reconnects, idle closes, lost frames and restarts.
THEOREM DispatchedInOrder == BusSpec => InOrder
  <1>1. BusInv /\ [BusNext]_busVars =>
          [\A c \in Consoles : Receives(c) => \A s \in seen[c] : s < Head(wire[c])]_busVars
    <2>. SUFFICES ASSUME BusInv, NEW c \in Consoles, Receives(c), NEW s \in seen[c]
                  PROVE  s < Head(wire[c])
      OBVIOUS
    <2>1. wire[c] \in Seq(Events) /\ wire[c] # <<>>
      BY DEF BusInv, BusTypeOK, Receives
    <2>2. Head(wire[c]) \in Elems(wire[c])
      BY <2>1, TailFacts
    <2>. QED  BY <2>2 DEF BusInv, Flows, Before
  <1>. QED  BY <1>1, BusInvariance, PTL DEF BusSpec, InOrder

(***************************************************************************)
(* No console is left behind: what the ring has dropped is overtaken, and  *)
(* so is what a queue has dropped; an open stream has no other holes.      *)
(***************************************************************************)

Above(s) == {k \in kept : k > s}
Awaiting(c) == Elems(wire[c]) \cup Elems(replay[c]) \cup Elems(queue[c])

RingHolds ==
  /\ Elems(ring) \subseteq kept /\ kept \subseteq 1 .. seq
  /\ IsFiniteSet(Elems(ring)) /\ Cardinality(Elems(ring)) = Len(ring)
  /\ \A s \in kept : s \in Elems(ring) \/ Cardinality(Above(s)) >= RingSize

\* A queue of n events spans n numbers up to the last publication.
SpacedIn(q, top) == \A i \in 1 .. Len(q) : q[i] + Len(q) <= top + i

\* The events that a console must not miss: those after its cursor, or after
\* one that is on its way to the console and will be the cursor.
Anchored(c, s) == \/ current[c] /\ s > cursor[c]
                  \/ \E x \in Awaiting(c) : x < s

Follows(c) ==
  stage[c] = "open" => \A s \in kept : Anchored(c, s) => s \in Awaiting(c) \/ Overtaken(s)

Abreast(c) == /\ SpacedIn(queue[c], seq)
              /\ current[c] => cursor[c] \in Nat
              /\ Follows(c)

Bus == RingHolds /\ \A c \in Consoles : Abreast(c)

LEMMA KeptFinite ==
  ASSUME BusTypeOK
  PROVE  IsFiniteSet(kept) /\ \A s : IsFiniteSet(Above(s)) /\ Cardinality(Above(s)) \in Nat
  <1>1. IsFiniteSet(Events)
    BY FS_Interval DEF Events
  <1>2. kept \in SUBSET Events /\ \A s : Above(s) \in SUBSET Events
    BY DEF BusTypeOK, Above
  <1>. QED  BY <1>1, <1>2, FS_Subset, FS_CardinalityType

LEMMA HeadOrTail ==
  ASSUME NEW s \in Seq(Events), s # <<>>, Rises(s)
  PROVE  Elems(s) = {Head(s)} \cup Elems(Tail(s)) /\ Head(s) \notin Elems(Tail(s))
  <1>1. /\ Head(s) \in Elems(s) /\ Elems(Tail(s)) \subseteq Elems(s) /\ Len(s) \in Nat \ {0}
        /\ Before({Head(s)}, Elems(Tail(s))) /\ Len(Tail(s)) = Len(s) - 1
    BY TailFacts
  <1>2. \A i \in 1 .. Len(Tail(s)) : Tail(s)[i] = s[i + 1]
    BY HeadTailProperties
  <1>3. ASSUME NEW i \in 1 .. Len(s)
        PROVE  s[i] \in {Head(s)} \cup Elems(Tail(s))
    <2>1. CASE i = 1
      BY <2>1
    <2>2. CASE i # 1
      <3>1. i - 1 \in 1 .. Len(Tail(s)) /\ (i - 1) + 1 = i
        BY <1>1, <2>2
      <3>2. Tail(s)[i - 1] = s[i]
        BY <1>2, <3>1
      <3>. QED  BY <3>1, <3>2 DEF Elems
    <2>. QED  BY <2>1, <2>2
  <1>4. Head(s) \notin Elems(Tail(s))
    <2>1. Head(s) \in Nat
      BY <1>1, ElemsType, EventsAreNat
    <2>. QED  BY <1>1, <2>1 DEF Before
  <1>. QED  BY <1>1, <1>3, <1>4 DEF Elems

\* A full buffer drops its oldest only, and has as many elements as places.
LEMMA PushKeeps ==
  ASSUME NEW s \in Seq(Events), NEW b \in Nat \ {0}, NEW e \in Events, Len(s) <= b,
         Rises(s), Before(Elems(s), {e})
  PROVE  /\ e \in Elems(Push(s, b, e))
         /\ \A x \in Elems(s) : \/ x \in Elems(Push(s, b, e))
                                \/ /\ Len(s) = b /\ x = s[1] /\ 1 \in 1 .. Len(s)
                                   /\ Len(Push(s, b, e)) = b
                                   /\ \A y \in Elems(Push(s, b, e)) : y > x
         /\ (IsFiniteSet(Elems(s)) /\ Cardinality(Elems(s)) = Len(s)) =>
               /\ IsFiniteSet(Elems(Push(s, b, e)))
               /\ Cardinality(Elems(Push(s, b, e))) = Len(Push(s, b, e))
  <1>. DEFINE t == IF Len(s) = b THEN Tail(s) ELSE s
  <1>1. Len(s) \in Nat /\ Elems(s) \subseteq Nat /\ e \in Nat
    BY LenProperties, ElemsType, EventsAreNat
  <1>2. /\ t \in Seq(Events) /\ Elems(t) \subseteq Elems(s)
        /\ Len(s) # b => t = s
        /\ Len(s) = b => /\ Len(t) = b - 1 /\ Elems(s) = {s[1]} \cup Elems(t) /\ 1 \in 1 .. Len(s)
                         /\ s[1] \notin Elems(t) /\ Before({s[1]}, Elems(t)) /\ s[1] \in Elems(s)
    <2>1. CASE Len(s) = b
      <3>1. s # <<>> /\ 1 \in 1 .. Len(s)
        BY <1>1, <2>1, EmptySeq
      <3>2. Head(s) = s[1]
        BY <3>1
      <3>. QED  BY <2>1, <3>1, <3>2, TailFacts, HeadOrTail
    <2>2. CASE Len(s) # b
      BY <2>2
    <2>. QED  BY <2>1, <2>2
  <1>3. Push(s, b, e) = Append(t, e)
    BY DEF Push
  <1>. HIDE DEF t
  <1>4. Elems(Append(t, e)) = Elems(t) \cup {e} /\ Len(Append(t, e)) = Len(t) + 1
    BY <1>2, AppendFacts
  <1>5. e \notin Elems(s) /\ \A x \in Elems(s) : x < e
    BY <1>1 DEF Before
  <1>6. ASSUME NEW x \in Elems(s), x \notin Elems(t) \cup {e}
        PROVE  /\ Len(s) = b /\ x = s[1] /\ 1 \in 1 .. Len(s) /\ Len(t) + 1 = b
               /\ \A y \in Elems(t) \cup {e} : y > x
    <2>1. Len(s) = b
      BY <1>2, <1>6
    <2>2. x = s[1]
      BY <1>2, <1>6, <2>1
    <2>3. \A y \in Elems(t) : y > x
      BY <1>1, <1>2, <2>1, <2>2 DEF Before
    <2>4. e > x
      BY <1>1, <1>5
    <2>. QED  BY <1>1, <1>2, <2>1, <2>2, <2>3, <2>4
  <1>7. ASSUME IsFiniteSet(Elems(s)), Cardinality(Elems(s)) = Len(s)
        PROVE  /\ IsFiniteSet(Elems(t) \cup {e})
               /\ Cardinality(Elems(t) \cup {e}) = Len(t) + 1
    <2>1. IsFiniteSet(Elems(t)) /\ Cardinality(Elems(t)) = Len(t)
      <3>1. CASE Len(s) = b
        <4>1. Elems(t) = Elems(s) \ {s[1]} /\ s[1] \in Elems(s) /\ Len(t) = Len(s) - 1
          BY <1>2, <3>1
        <4>2. /\ IsFiniteSet(Elems(s) \ {s[1]})
              /\ Cardinality(Elems(s) \ {s[1]}) = Cardinality(Elems(s)) - 1
          BY <1>7, <4>1, FS_RemoveElement
        <4>. QED  BY <1>7, <4>1, <4>2
      <3>2. CASE Len(s) # b
        BY <1>2, <1>7, <3>2
      <3>. QED  BY <3>1, <3>2
    <2>2. e \notin Elems(t)
      BY <1>2, <1>5
    <2>. QED  BY <2>1, <2>2, FS_AddElement
  <1>. QED  BY <1>3, <1>4, <1>6, <1>7

LEMMA TailSpaced ==
  ASSUME NEW s \in Seq(Events), s # <<>>, NEW top \in Nat, SpacedIn(s, top)
  PROVE  SpacedIn(Tail(s), top)
  <1>1. Len(s) \in Nat /\ \A i \in 1 .. Len(s) : s[i] \in Nat
    BY LenProperties, ElementOfSeq, EventsAreNat
  <1>2. /\ Tail(s) \in Seq(Events) /\ Len(Tail(s)) = Len(s) - 1
        /\ \A i \in 1 .. Len(Tail(s)) : Tail(s)[i] = s[i + 1]
    BY HeadTailProperties
  <1>3. ASSUME NEW i \in 1 .. Len(Tail(s))
        PROVE  Tail(s)[i] + Len(Tail(s)) <= top + i
    <2>1. i + 1 \in 1 .. Len(s) /\ i \in Nat
      BY <1>1, <1>2
    <2>2. s[i + 1] + Len(s) <= top + (i + 1) /\ s[i + 1] \in Nat
      BY <1>1, <2>1 DEF SpacedIn
    <2>. QED  BY <1>1, <1>2, <2>1, <2>2
  <1>. QED  BY <1>3 DEF SpacedIn

LEMMA OneMore == \A a, n, m, i \in Nat : a + n <= m + i => a + (n + 1) <= m + 1 + i
  OBVIOUS

LEMMA PushSpaced ==
  ASSUME NEW s \in Seq(Events), NEW b \in Nat \ {0}, NEW top \in Nat, top + 1 \in Events,
         Len(s) <= b, SpacedIn(s, top)
  PROVE  SpacedIn(Push(s, b, top + 1), top + 1)
  <1>. DEFINE e == top + 1
              t == IF Len(s) = b THEN Tail(s) ELSE s
  <1>1. Len(s) \in Nat /\ \A i \in 1 .. Len(s) : s[i] \in Nat
    BY LenProperties, ElementOfSeq, EventsAreNat
  <1>2. t \in Seq(Events) /\ Len(t) \in Nat /\ SpacedIn(t, top)
    <2>1. CASE Len(s) = b
      <3>1. s # <<>>
        BY <2>1, EmptySeq
      <3>2. Tail(s) \in Seq(Events)
        BY <3>1, HeadTailProperties
      <3>. QED  BY <2>1, <3>1, <3>2, TailSpaced, LenProperties
    <2>2. CASE Len(s) # b
      BY <1>1, <2>2
    <2>. QED  BY <2>1, <2>2
  <1>3. Push(s, b, e) = Append(t, e)
    BY DEF Push
  <1>. HIDE DEF t
  <1>4. /\ Len(Append(t, e)) = Len(t) + 1 /\ Append(t, e)[Len(t) + 1] = e
        /\ \A i \in 1 .. Len(t) : Append(t, e)[i] = t[i] /\ t[i] \in Nat
    <2>1. \A i \in 1 .. Len(t) : t[i] \in Nat
      BY <1>2, ElementOfSeq, EventsAreNat
    <2>2. e \in Events
      OBVIOUS
    <2>. HIDE DEF e
    <2>. QED  BY <1>2, <2>1, <2>2
  <1>5. ASSUME NEW i \in 1 .. Len(t) + 1
        PROVE  Append(t, e)[i] + (Len(t) + 1) <= top + 1 + i
    <2>1. CASE i = Len(t) + 1
      BY <1>2, <1>4, <2>1
    <2>2. CASE i # Len(t) + 1
      <3>1. i \in 1 .. Len(t)
        BY <1>2, <2>2
      <3>2. t[i] + Len(t) <= top + i
        BY <1>2, <3>1 DEF SpacedIn
      <3>3. Append(t, e)[i] = t[i] /\ t[i] \in Nat
        BY <1>4, <3>1
      <3>4. Len(t) \in Nat /\ i \in Nat
        BY <1>2, <3>1
      <3>5. t[i] + (Len(t) + 1) <= top + 1 + i
        BY <3>2, <3>3, <3>4, OneMore
      <3>. QED  BY <3>3, <3>5
    <2>. QED  BY <2>1, <2>2
  <1>. QED  BY <1>3, <1>4, <1>5 DEF SpacedIn

LEMMA AboveFinite ==
  ASSUME BusTypeOK', NEW s
  PROVE  /\ IsFiniteSet(Above(s)') /\ Cardinality(Above(s)') \in Nat
  <1>1. IsFiniteSet(Events)
    BY FS_Interval DEF Events
  <1>2. kept' \subseteq Events
    BY DEF BusTypeOK
  <1>3. Above(s)' \in SUBSET Events
    BY <1>2 DEF Above
  <1>. QED  BY <1>1, <1>3, FS_Subset, FS_CardinalityType

\* What is overtaken stays so as more is published.
LEMMA OvertakenStays ==
  ASSUME BusTypeOK, BusTypeOK', kept \subseteq kept', seq <= seq', NEW s \in kept
  PROVE  /\ Cardinality(Above(s)) <= Cardinality(Above(s)')
         /\ Overtaken(s) => Overtaken(s)'
  <1>1. Above(s) \in SUBSET (Above(s)')
    BY DEF Above
  <1>2. IsFiniteSet(Above(s)') /\ Cardinality(Above(s)') \in Nat /\ Cardinality(Above(s)) \in Nat
    BY KeptFinite, AboveFinite
  <1>3. Cardinality(Above(s)) <= Cardinality(Above(s)')
    BY <1>1, <1>2, FS_Subset
  <1>4. s \in Nat /\ seq \in Nat /\ seq' \in Nat
    <2>1. s \in Events
      BY DEF BusTypeOK
    <2>2. seq \in 0 .. MaxSeq /\ (seq \in 0 .. MaxSeq)'
      BY DEF BusTypeOK
    <2>. QED  BY <2>1, <2>2, EventsAreNat
  <1>. QED  BY <1>2, <1>3, <1>4 DEF Overtaken, Above

LEMMA PublishAbreast ==
  ASSUME BusInv, BusInv', Bus, NEW retain \in BOOLEAN, PublishOnLoop(retain),
         UNCHANGED <<stage, since, replay, wire, client>>
  PROVE  Bus'
  <1>. DEFINE e == seq + 1
  <1>1. /\ BusTypeOK /\ BusTypeOK' /\ seq \in Nat /\ seq' = e /\ e \in Events /\ seq + 1 \in Events
        /\ RingHolds /\ kept \subseteq kept' /\ kept' \subseteq kept \cup {e}
        /\ (\A x \in 1 .. seq : x < e /\ x \in 1 .. e) /\ e \in 1 .. e /\ e \in Nat /\ seq <= e
    <2>1. BusTypeOK /\ BusTypeOK' /\ RingHolds
      BY DEF BusInv, Bus
    <2>2. /\ seq \in Nat /\ seq < MaxSeq /\ seq' = e /\ kept \subseteq kept'
          /\ kept' \subseteq kept \cup {e}
      BY <2>1 DEF PublishOnLoop, BusTypeOK
    <2>3. /\ e \in Events /\ seq + 1 \in Events /\ e \in 1 .. e /\ e \in Nat /\ seq <= e
          /\ \A x \in 1 .. seq : x < e /\ x \in 1 .. e
      BY <2>2 DEF Events
    <2>. QED  BY <2>1, <2>2, <2>3
  <1>2. /\ ring \in Seq(Events) /\ Len(ring) <= RingSize /\ Rises(ring)
        /\ Elems(ring) \subseteq 1 .. seq /\ Before(Elems(ring), {e})
    <2>1. Elems(ring) \subseteq 1 .. seq
      BY DEF BusInv, RingInOrder
    <2>. QED  BY <1>1, <2>1 DEF BusInv, BusTypeOK, RingInOrder, Before
  <1>3. /\ (retain => kept' = kept \cup {e} /\ ring' = Push(ring, RingSize, e))
        /\ (~retain => kept' = kept /\ ring' = ring)
        /\ \A c \in Consoles : stage[c] = "open" => queue'[c] = Push(queue[c], MaxQueue, e)
        /\ \A c \in Consoles : stage[c] # "open" => queue'[c] = queue[c]
    BY DEF PublishOnLoop
  <1>. HIDE DEF e
  <1>4. RingHolds'
    <2>1. kept' \subseteq 1 .. e
      BY <1>1 DEF RingHolds
    <2>2. CASE retain
      <3>1. /\ Elems(ring') \subseteq kept' /\ e \in Elems(ring')
            /\ IsFiniteSet(Elems(ring')) /\ Cardinality(Elems(ring')) = Len(ring')
        BY <1>1, <1>2, <1>3, <2>2, PushFacts, PushKeeps DEF RingHolds
      <3>2. ASSUME NEW s \in kept
            PROVE  s \in Elems(ring') \/ Cardinality(Above(s)') >= RingSize
        <4>1. CASE Cardinality(Above(s)) >= RingSize
          <5>1. Cardinality(Above(s)) <= Cardinality(Above(s)')
            BY <1>1, OvertakenStays
          <5>2. Cardinality(Above(s)) \in Nat /\ Cardinality(Above(s)') \in Nat
            BY <1>1, KeptFinite, AboveFinite
          <5>. QED  BY <4>1, <5>1, <5>2
        <4>2. CASE s \in Elems(ring) /\ s \notin Elems(ring')
          <5>1. Len(ring') = RingSize /\ \A y \in Elems(ring') : y > s
            BY <1>1, <1>2, <1>3, <2>2, <4>2, PushKeeps
          <5>2. Elems(ring') \in SUBSET (Above(s)')
            BY <3>1, <5>1 DEF Above
          <5>3. IsFiniteSet(Above(s)') /\ Cardinality(Above(s)') \in Nat
            BY <1>1, AboveFinite
          <5>4. Cardinality(Elems(ring')) <= Cardinality(Above(s)')
            BY <5>2, <5>3, FS_Subset
          <5>. QED  BY <3>1, <5>1, <5>3, <5>4
        <4>. QED  BY <1>1, <4>1, <4>2 DEF RingHolds
      <3>. QED  BY <1>1, <1>3, <2>1, <2>2, <3>1, <3>2 DEF RingHolds
    <2>3. CASE ~retain
      BY <1>1, <1>3, <2>1, <2>3 DEF RingHolds, Above
    <2>. QED  BY <2>2, <2>3
  <1>5. ASSUME NEW c \in Consoles
        PROVE  Abreast(c)'
    <2>1. Abreast(c) /\ Flows(c)
      BY DEF Bus, BusInv
    <2>2. /\ queue[c] \in Seq(Events) /\ Len(queue[c]) <= MaxQueue /\ Rises(queue[c])
          /\ Elems(queue[c]) \subseteq 1 .. seq /\ Before(Elems(queue[c]), {e})
      <3>1. Elems(queue[c]) \subseteq 1 .. seq
        BY <2>1 DEF Flows
      <3>2. Before(Elems(queue[c]), {e})
        BY <1>1, <3>1 DEF Before
      <3>3. queue[c] \in Seq(Events) /\ Len(queue[c]) <= MaxQueue
        BY <1>1 DEF BusTypeOK
      <3>. QED  BY <2>1, <3>1, <3>2, <3>3 DEF Flows
    <2>3. SpacedIn(queue'[c], seq')
      <3>1. CASE stage[c] = "open"
        BY <1>1, <1>3, <2>1, <2>2, <3>1, PushSpaced DEF Abreast, e
      <3>2. CASE stage[c] # "open"
        <4>1. ASSUME NEW i \in 1 .. Len(queue[c])
              PROVE  queue[c][i] + Len(queue[c]) <= e + i
          <5>1. queue[c][i] + Len(queue[c]) <= seq + i
            BY <2>1 DEF Abreast, SpacedIn
          <5>2. queue[c][i] \in Nat /\ Len(queue[c]) \in Nat /\ i \in Nat
            <6>1. Len(queue[c]) \in Nat /\ queue[c][i] \in Events
              BY <2>2, LenProperties, ElementOfSeq
            <6>2. queue[c][i] \in Nat
              BY <6>1, EventsAreNat
            <6>3. i \in Nat
              BY <6>1
            <6>. QED  BY <6>1, <6>2, <6>3
          <5>3. seq \in Nat /\ e = seq + 1
            BY DEF BusInv, BusTypeOK, e
          <5>4. \A x, l, n, k \in Nat : x + l <= n + k => x + l <= (n + 1) + k
            OBVIOUS
          <5>. HIDE DEF e
          <5>. QED  BY <5>1, <5>2, <5>3, <5>4
        <4>. QED  BY <1>1, <1>3, <3>2, <4>1 DEF SpacedIn
      <3>. QED  BY <3>1, <3>2
    <2>4. Follows(c)'
      <3>. SUFFICES ASSUME stage[c] = "open", NEW s \in kept', Anchored(c, s)'
                    PROVE  s \in Awaiting(c)' \/ Overtaken(s)'
        BY DEF Follows
      <3>1. /\ queue'[c] = Push(queue[c], MaxQueue, e) /\ e \in Elems(queue'[c])
            /\ Elems(queue'[c]) \subseteq Elems(queue[c]) \cup {e}
        BY <1>1, <1>3, <2>2, PushFacts, PushKeeps
      <3>2. Awaiting(c)' = Elems(wire[c]) \cup Elems(replay[c]) \cup Elems(queue'[c])
        BY DEF Awaiting
      <3>3. CASE s = e
        BY <3>1, <3>2, <3>3
      <3>4. CASE s # e
        <4>1. s \in kept /\ s < e /\ s \in Nat
          BY <1>1, <3>4, UptoEvents DEF RingHolds
        <4>2. Anchored(c, s)
          <5>1. CASE \E x \in Awaiting(c)' : x < s
            <6>1. PICK x \in Awaiting(c)' : x < s
              BY <5>1
            <6>2. x # e
              BY <1>1, <4>1, <6>1
            <6>. QED  BY <3>1, <3>2, <6>1, <6>2 DEF Anchored, Awaiting
          <5>2. CASE (current[c] /\ s > cursor[c])'
            BY <5>2 DEF Anchored, client
          <5>. QED  BY <5>1, <5>2 DEF Anchored
        <4>3. CASE Overtaken(s)
          BY <1>1, <4>1, <4>3, OvertakenStays
        <4>4. CASE s \in Elems(wire[c]) \cup Elems(replay[c])
          BY <3>2, <4>4
        <4>5. CASE s \in Elems(queue[c]) /\ s \notin Elems(queue'[c])
          <5>1. Len(queue[c]) = MaxQueue /\ s = queue[c][1] /\ 1 \in 1 .. Len(queue[c])
            BY <1>1, <2>2, <3>1, <4>5, PushKeeps
          <5>2. s + MaxQueue <= seq + 1
            BY <2>1, <5>1 DEF Abreast, SpacedIn
          <5>3. seq' - s >= MaxQueue
            BY <1>1, <4>1, <5>2 DEF e
          <5>. QED  BY <5>3 DEF Overtaken
        <4>. QED  BY <2>1, <3>2, <4>1, <4>2, <4>3, <4>4, <4>5 DEF Abreast, Follows, Awaiting
      <3>. QED  BY <3>3, <3>4
    <2>5. (current[c] => cursor[c] \in Nat)'
      BY <2>1 DEF Abreast, client
    <2>. QED  BY <1>1, <2>3, <2>4, <2>5 DEF Abreast
  <1>. QED  BY <1>4, <1>5 DEF Bus

LEMMA StreamAbreast ==
  ASSUME Bus, NEW c \in Consoles, UNCHANGED <<seq, ring, kept>>, Abreast(c)',
         \A d \in Consoles \ {c} :
           /\ stage'[d] = stage[d] /\ replay'[d] = replay[d] /\ queue'[d] = queue[d]
           /\ wire'[d] = wire[d] /\ cursor'[d] = cursor[d] /\ current'[d] = current[d]
  PROVE  Bus'
  <1>1. RingHolds'
    BY DEF Bus, RingHolds, Above
  <1>2. ASSUME NEW d \in Consoles \ {c}
        PROVE  Abreast(d)'
    BY DEF Bus, Abreast, Follows, Anchored, Awaiting, Overtaken
  <1>. QED  BY <1>1, <1>2 DEF Bus

LEMMA EmptySpaced == \A top : SpacedIn(<<>>, top)
  <1>1. 1 .. Len(<<>>) = {}
    BY EmptyFacts
  <1>. QED  BY <1>1 DEF SpacedIn

LEMMA SubscribeAbreast ==
  ASSUME BusInv, Bus, NEW c \in Consoles, Subscribe(c)
  PROVE  Bus'
  <1>1. BusTypeOK /\ RingInOrder /\ NotBegun(c) /\ RingHolds /\ Abreast(c)
    BY DEF BusInv, Bus
  <1>2. /\ wire[c] = <<>> /\ queue[c] = <<>> /\ since[c] = cursor[c]
        /\ replay' = [replay EXCEPT ![c] = Replay(c)] /\ stage' = [stage EXCEPT ![c] = "open"]
        /\ UNCHANGED <<seq, ring, queue, wire, cursor, current, kept>>
    BY <1>1 DEF Subscribe, NotBegun, client
  <1>3. /\ replay'[c] = Replay(c)
        /\ \A d \in Consoles \ {c} : replay'[d] = replay[d] /\ stage'[d] = stage[d]
    BY <1>1, <1>2 DEF BusTypeOK
  <1>4. Awaiting(c)' = Elems(Replay(c))
    BY <1>2, <1>3, EmptyFacts DEF Awaiting
  <1>5. ASSUME since[c] # Nothing
        PROVE  /\ Elems(Replay(c)) = {x \in Elems(ring) : x > since[c]}
               /\ since[c] \in Nat
    <2>1. since[c] \in Nat /\ ring \in Seq(Events) /\ Rises(ring)
      BY <1>1, <1>5 DEF BusTypeOK, RingInOrder
    <2>. QED  BY <1>5, <2>1, NewerFacts DEF Replay
  <1>6. Follows(c)'
    <2>. SUFFICES ASSUME NEW s \in kept, Anchored(c, s)'
                  PROVE  s \in Elems(Replay(c)) \/ Overtaken(s)
      BY <1>2, <1>4 DEF Follows, Overtaken
    <2>1. since[c] # Nothing /\ s > since[c]
      <3>1. CASE current[c] /\ s > cursor[c]
        BY <1>1, <1>2, <3>1 DEF Abreast, EventBusAssumption
      <3>2. CASE \E x \in Elems(Replay(c)) : x < s
        <4>1. since[c] # Nothing
          BY <3>2, EmptyFacts DEF Replay
        <4>2. PICK x \in Elems(ring) : x > since[c] /\ x < s
          BY <1>5, <3>2, <4>1
        <4>3. x \in Nat /\ s \in Nat /\ since[c] \in Nat
          BY <1>1, <1>5, <4>1, UptoEvents DEF RingHolds, RingInOrder
        <4>. QED  BY <4>1, <4>2, <4>3
      <3>. QED  BY <1>2, <1>4, <3>1, <3>2 DEF Anchored
    <2>. QED  BY <1>1, <1>5, <2>1 DEF RingHolds, Overtaken, Above
  <1>7. Abreast(c)'
    BY <1>1, <1>2, <1>6 DEF Abreast
  <1>. QED  BY <1>2, <1>3, <1>7, StreamAbreast

LEMMA SendAbreast ==
  ASSUME BusInv, Bus, NEW c \in Consoles, Send(c)
  PROVE  Bus'
  <1>1. BusTypeOK /\ Flows(c) /\ Abreast(c)
    BY DEF BusInv, Bus
  <1>2. /\ wire[c] \in Seq(Events) /\ replay[c] \in Seq(Events) /\ queue[c] \in Seq(Events)
        /\ UNCHANGED <<seq, ring, stage, cursor, current, kept>>
    BY <1>1 DEF BusTypeOK, Send, client
  <1>3. ASSUME NEW s \in Seq(Events), s # <<>>, Rises(s)
        PROVE  /\ Elems(Append(wire[c], Head(s))) \cup Elems(Tail(s)) = Elems(wire[c]) \cup Elems(s)
               /\ Tail(s) \in Seq(Events)
    <2>1. Head(s) \in Events /\ Tail(s) \in Seq(Events)
      BY <1>3, TailFacts, ElemsType
    <2>2. Elems(Append(wire[c], Head(s))) = Elems(wire[c]) \cup {Head(s)}
      BY <1>2, <2>1, AppendFacts
    <2>3. Elems(s) = {Head(s)} \cup Elems(Tail(s))
      BY <1>3, HeadOrTail
    <2>. QED  BY <2>1, <2>2, <2>3
  <1>4. /\ Awaiting(c)' = Awaiting(c) /\ SpacedIn(queue'[c], seq)
        /\ \A d \in Consoles \ {c} : /\ replay'[d] = replay[d] /\ queue'[d] = queue[d]
                                     /\ wire'[d] = wire[d]
    <2>1. CASE /\ replay[c] # <<>>
               /\ wire' = [wire EXCEPT ![c] = Append(@, Head(replay[c]))]
               /\ replay' = [replay EXCEPT ![c] = Tail(@)] /\ UNCHANGED queue
      <3>1. wire'[c] = Append(wire[c], Head(replay[c])) /\ replay'[c] = Tail(replay[c])
        BY <1>1, <2>1 DEF BusTypeOK
      <3>2. Awaiting(c)' = Awaiting(c)
        BY <1>1, <1>2, <1>3, <2>1, <3>1 DEF Awaiting, Flows
      <3>. QED  BY <1>1, <2>1, <3>2 DEF Abreast, BusTypeOK
    <2>2. CASE /\ replay[c] = <<>> /\ queue[c] # <<>>
               /\ wire' = [wire EXCEPT ![c] = Append(@, Head(queue[c]))]
               /\ queue' = [queue EXCEPT ![c] = Tail(@)] /\ UNCHANGED replay
      <3>1. wire'[c] = Append(wire[c], Head(queue[c])) /\ queue'[c] = Tail(queue[c])
        BY <1>1, <2>2 DEF BusTypeOK
      <3>2. Awaiting(c)' = Awaiting(c)
        BY <1>1, <1>2, <1>3, <2>2, <3>1 DEF Awaiting, Flows
      <3>3. SpacedIn(Tail(queue[c]), seq)
        BY <1>1, <1>2, <2>2, TailSpaced DEF Abreast, BusTypeOK
      <3>. QED  BY <1>1, <2>2, <3>1, <3>2, <3>3 DEF BusTypeOK
    <2>. QED  BY <2>1, <2>2 DEF Send
  <1>5. Abreast(c)'
    BY <1>1, <1>2, <1>4 DEF Abreast, Follows, Anchored, Overtaken
  <1>. QED  BY <1>2, <1>4, <1>5, StreamAbreast

LEMMA DispatchAbreast ==
  ASSUME BusInv, Bus, NEW c \in Consoles, Dispatch(c)
  PROVE  Bus'
  <1>. DEFINE e == Head(wire[c])
  <1>1. BusTypeOK /\ Flows(c) /\ Abreast(c)
    BY DEF BusInv, Bus
  <1>2. wire[c] \in Seq(Events) /\ wire[c] # <<>> /\ Rises(wire[c])
    BY <1>1 DEF Dispatch, BusTypeOK, Flows
  <1>3. /\ Elems(wire[c]) = {e} \cup Elems(Tail(wire[c])) /\ e \in Nat
        /\ \A x \in Elems(Tail(wire[c])) \cup Elems(replay[c]) \cup Elems(queue[c]) : e < x
    <2>1. /\ Elems(wire[c]) = {e} \cup Elems(Tail(wire[c])) /\ e \in Nat
          /\ Before({e}, Elems(Tail(wire[c])))
      BY <1>2, HeadOrTail, TailFacts, ElemsType, EventsAreNat
    <2>. QED  BY <1>1, <2>1 DEF Flows, Before
  <1>4. /\ wire' = [wire EXCEPT ![c] = Tail(wire[c])] /\ cursor' = [cursor EXCEPT ![c] = e]
        /\ current' = [current EXCEPT ![c] = TRUE]
        /\ UNCHANGED <<seq, ring, stage, replay, queue, kept>>
    BY DEF Dispatch, stream
  <1>. HIDE DEF e
  <1>5. /\ wire'[c] = Tail(wire[c]) /\ cursor'[c] = e /\ current'[c]
        /\ \A d \in Consoles \ {c} : /\ wire'[d] = wire[d] /\ cursor'[d] = cursor[d]
                                     /\ current'[d] = current[d]
    BY <1>1, <1>4 DEF BusTypeOK
  <1>6. Awaiting(c) = {e} \cup Awaiting(c)' /\ \A x \in Awaiting(c)' : e < x
    BY <1>3, <1>4, <1>5 DEF Awaiting
  <1>7. Follows(c)'
    <2>. SUFFICES ASSUME stage[c] = "open", NEW s \in kept, Anchored(c, s)'
                  PROVE  s \in Awaiting(c)' \/ Overtaken(s)
      BY <1>4 DEF Follows, Overtaken
    <2>1. s \in Nat
      BY <1>1, EventsAreNat DEF BusTypeOK
    <2>2. Anchored(c, s) /\ s # e
      <3>1. CASE (current[c] /\ s > cursor[c])'
        <4>1. e < s
          BY <1>3, <1>5, <2>1, <3>1
        <4>. QED  BY <1>3, <1>6, <2>1, <4>1 DEF Anchored
      <3>2. CASE \E x \in Awaiting(c)' : x < s
        <4>1. PICK x \in Awaiting(c)' : x < s
          BY <3>2
        <4>2. e < x /\ x \in Awaiting(c) /\ x \in Nat
          <5>1. x \in Awaiting(c) /\ Awaiting(c) \subseteq 1 .. seq
            BY <1>1, <1>6, <4>1 DEF Flows, Awaiting
          <5>. QED  BY <1>1, <1>6, <4>1, <5>1, UptoEvents
        <4>3. s # e
          BY <1>3, <2>1, <4>1, <4>2
        <4>. QED  BY <4>1, <4>2, <4>3 DEF Anchored
      <3>. QED  BY <3>1, <3>2 DEF Anchored
    <2>. QED  BY <1>1, <1>6, <2>2 DEF Abreast, Follows
  <1>8. Abreast(c)'
    BY <1>1, <1>3, <1>4, <1>5, <1>7 DEF Abreast
  <1>. QED  BY <1>4, <1>5, <1>8, StreamAbreast

LEMMA CloseAbreast ==
  ASSUME BusInv, Bus, NEW c \in Consoles, Connect(c) \/ KeepaliveDue(c) \/ Ended(c) \/ Drop(c)
  PROVE  Bus'
  <1>1. BusTypeOK /\ Abreast(c)
    BY DEF BusInv, Bus
  <1>2. /\ UNCHANGED <<seq, ring, cursor, current, kept>>
        /\ stage'[c] # "open" /\ (queue'[c] = <<>> \/ queue'[c] = queue[c])
        /\ \A d \in Consoles \ {c} : /\ stage'[d] = stage[d] /\ replay'[d] = replay[d]
                                     /\ queue'[d] = queue[d] /\ wire'[d] = wire[d]
    <2>1. CASE Connect(c)
      BY <1>1, <2>1 DEF Connect, client, BusTypeOK
    <2>2. CASE KeepaliveDue(c)
      BY <1>1, <2>2, CloseFacts DEF KeepaliveDue, client
    <2>3. CASE Ended(c)
      BY <1>1, <2>3, CloseFacts DEF Ended, client
    <2>4. CASE Drop(c)
      <3>1. \A d \in Consoles \ {c} : wire'[d] = wire[d]
        BY <1>1, <2>4 DEF Drop, BusTypeOK
      <3>. QED  BY <1>1, <2>4, <3>1, CloseFacts DEF Drop, client
    <2>. QED  BY <2>1, <2>2, <2>3, <2>4
  <1>3. Abreast(c)'
    BY <1>1, <1>2, EmptySpaced DEF Abreast, Follows
  <1>. QED  BY <1>2, <1>3, StreamAbreast

LEMMA BusInitially ==
  ASSUME BusInit
  PROVE  Bus
  <1>1. RingHolds
    BY EmptyFacts, FS_EmptySet DEF BusInit, RingHolds
  <1>. QED  BY <1>1, EmptySpaced DEF BusInit, Empty, Bus, Abreast, Follows

LEMMA BusInductive ==
  ASSUME BusInv, BusInv', Bus, [BusNext]_busVars
  PROVE  Bus'
  <1>1. CASE Restart
    <2>1. RingHolds'
      BY <1>1, EmptyFacts, FS_EmptySet DEF Restart, RingHolds
    <2>. QED  BY <1>1, <2>1, EmptySpaced DEF Restart, Empty, Bus, Abreast, Follows
  <1>2. ASSUME UNCHANGED <<seq, ring, stage, replay, queue, wire, cursor, current, kept>>
        PROVE  Bus'
    <2>1. RingHolds'
      BY <1>2 DEF Bus, RingHolds, Above
    <2>. QED  BY <1>2, <2>1 DEF Bus, Abreast, Follows, Anchored, Awaiting, Overtaken
  <1>3. ASSUME NEW retain \in BOOLEAN, PublishOffLoop(retain) \/ UNCHANGED busVars
        PROVE  Bus'
    BY <1>2, <1>3 DEF PublishOffLoop, busVars, stream, client
  <1>4. ASSUME NEW retain \in BOOLEAN, Publish(retain)
        PROVE  Bus'
    BY <1>4, PublishAbreast DEF Publish
  <1>5. CASE RunPosted
    <2>1. Head(posted) \in BOOLEAN
      BY <1>5, HeadTailProperties DEF RunPosted, BusInv, BusTypeOK
    <2>. QED  BY <1>5, <2>1, PublishAbreast DEF RunPosted
  <1>6. ASSUME NEW c \in Consoles,
               \/ Connect(c) \/ Subscribe(c) \/ Send(c) \/ KeepaliveDue(c)
               \/ Dispatch(c) \/ Ended(c) \/ Drop(c)
        PROVE  Bus'
    BY <1>6, SubscribeAbreast, SendAbreast, DispatchAbreast, CloseAbreast
  <1>. QED  BY <1>1, <1>3, <1>4, <1>5, <1>6 DEF BusNext

\* An open stream has on the wire, in its replay or in its queue every retained
\* event its console has yet to learn of, unless the ring or a queue went past it.
THEOREM StreamsCaughtUp == BusSpec => []CaughtUp
  <1>1. BusInit => BusInv /\ Bus
    BY BusInvInitially, BusInitially
  <1>2. BusInv /\ Bus /\ [BusNext]_busVars => BusInv' /\ Bus'
    BY BusInvInductive, BusInductive
  <1>3. BusInv /\ Bus => CaughtUp
    <2>. SUFFICES ASSUME BusInv, Bus, NEW c \in Consoles, stage[c] = "open", NEW s \in Owed(c)
                  PROVE  s \in ToSet(wire[c]) \cup ToSet(replay[c]) \cup ToSet(queue[c])
                         \/ Overtaken(s)
      BY DEF CaughtUp
    <2>1. s \in Awaiting(c) \/ Overtaken(s)
      BY DEF Owed, Bus, Abreast, Follows, Anchored
    <2>2. \A q \in Seq(Events) : Elems(q) = ToSet(q)
      BY DEF Elems, ToSet
    <2>. QED  BY <2>1, <2>2 DEF Awaiting, BusInv, BusTypeOK
  <1>. QED  BY <1>1, <1>2, <1>3, PTL DEF BusSpec

(***************************************************************************)
(* The bus implements the feed.  A console is placed by its cursor, which  *)
(* it has dispatched; the frames on a wire have no holes between them, and *)
(* go on having none when their stream is over and nothing more is added.  *)
(***************************************************************************)

Placed(c) == current[c] => cursor[c] \in seen[c]

\* Between the cursor, or a frame, and a later frame on the wire nothing is
\* missing that was not overtaken.
Gapless(c) ==
  \A s \in kept, y \in Elems(wire[c]) :
    /\ s < y
    /\ (current[c] /\ s > cursor[c]) \/ (\E x \in Elems(wire[c]) : x < s)
    => s \in Elems(wire[c]) \/ Overtaken(s)

Whole(c) == Placed(c) /\ (stage[c] = "over" => Gapless(c))

Place(c) == IF current[c] THEN cursor[c] ELSE 0

\* As long as the stream is open this is what Follows says: the events in the
\* replay and in the queue are beyond those on the wire.
LEMMA OpenGapless ==
  ASSUME BusInv, Bus, NEW c \in Consoles, stage[c] = "open"
  PROVE  Gapless(c)
  <1>1. BusTypeOK /\ Flows(c) /\ Follows(c)
    BY DEF BusInv, Bus, Abreast
  <1>. SUFFICES ASSUME NEW s \in kept, NEW y \in Elems(wire[c]), s < y,
                       (current[c] /\ s > cursor[c]) \/ (\E x \in Elems(wire[c]) : x < s)
                PROVE  s \in Elems(wire[c]) \/ Overtaken(s)
    BY DEF Gapless
  <1>2. s \in Awaiting(c) \/ Overtaken(s)
    BY <1>1 DEF Follows, Anchored, Awaiting
  <1>3. s \in Nat /\ y \in Nat
    BY <1>1, EventsAreNat, UptoEvents DEF BusTypeOK, Flows
  <1>4. s \notin Elems(replay[c]) \cup Elems(queue[c])
    <2>1. \A z \in Elems(replay[c]) \cup Elems(queue[c]) : y < z
      BY <1>1 DEF Flows, Before
    <2>. QED  BY <1>3, <2>1
  <1>. QED  BY <1>2, <1>4 DEF Awaiting

\* A dispatch leaves no holes behind, and skips what was overtaken only.
LEMMA DispatchGapless ==
  ASSUME BusInv, Bus, \A d \in Consoles : Whole(d), NEW c \in Consoles, Dispatch(c)
  PROVE  /\ Whole(c)'
         /\ Head(wire[c]) \in 1 .. seq /\ Place(c) < Head(wire[c])
         /\ Place(c) # 0 => \A s \in kept : Place(c) < s /\ s < Head(wire[c]) => Overtaken(s)
  <1>. DEFINE e == Head(wire[c])
  <1>1. BusTypeOK /\ Flows(c) /\ Placed(c) /\ Gapless(c)
    BY OpenGapless DEF BusInv, Whole, Dispatch
  <1>2. wire[c] \in Seq(Events) /\ wire[c] # <<>> /\ Rises(wire[c])
    BY <1>1 DEF Dispatch, BusTypeOK, Flows
  <1>3. /\ Elems(wire[c]) = {e} \cup Elems(Tail(wire[c]))
        /\ \A x \in Elems(Tail(wire[c])) : e < x
    BY <1>2, HeadOrTail, TailFacts DEF Before
  <1>4. /\ wire' = [wire EXCEPT ![c] = Tail(wire[c])] /\ cursor' = [cursor EXCEPT ![c] = e]
        /\ current' = [current EXCEPT ![c] = TRUE] /\ seen' = [seen EXCEPT ![c] = seen[c] \cup {e}]
        /\ UNCHANGED <<seq, kept>>
    BY DEF Dispatch
  <1>. HIDE DEF e
  <1>5. wire'[c] = Tail(wire[c]) /\ cursor'[c] = e /\ current'[c] /\ e \in seen'[c]
    BY <1>1, <1>4 DEF BusTypeOK
  <1>6. e \in 1 .. seq /\ e \in Nat /\ kept \subseteq Nat /\ Elems(wire[c]) \subseteq Nat
    BY <1>1, <1>3, UptoEvents, EventsAreNat DEF Flows, BusTypeOK
  <1>7. Gapless(c)'
    <2>. SUFFICES ASSUME NEW s \in kept, NEW y \in Elems(Tail(wire[c])), s < y,
                         s > e \/ \E x \in Elems(Tail(wire[c])) : x < s
                  PROVE  s \in Elems(Tail(wire[c])) \/ Overtaken(s)
      BY <1>4, <1>5 DEF Gapless, Overtaken
    <2>1. e < s
      <3>1. CASE s > e
        BY <1>6, <3>1
      <3>2. CASE \E x \in Elems(Tail(wire[c])) : x < s
        <4>1. PICK x \in Elems(Tail(wire[c])) : x < s
          BY <3>2
        <4>2. e < x /\ x \in Nat
          BY <1>3, <1>6
        <4>. QED  BY <1>6, <4>1, <4>2
      <3>. QED  BY <3>1, <3>2
    <2>2. s # e /\ y \in Elems(wire[c]) /\ e \in Elems(wire[c])
      BY <1>3, <1>6, <2>1
    <2>3. s \in Elems(wire[c]) \/ Overtaken(s)
      BY <1>1, <2>1, <2>2 DEF Gapless
    <2>. QED  BY <1>3, <2>2, <2>3
  <1>8. Whole(c)'
    BY <1>5, <1>7 DEF Whole, Placed
  <1>9. Place(c) < e
    <2>1. CASE current[c]
      <3>1. cursor[c] < e
        BY <1>1, <1>3, <2>1 DEF Placed, Flows, Before
      <3>. QED  BY <2>1, <3>1 DEF Place
    <2>2. CASE ~current[c]
      BY <1>6, <2>2 DEF Place
    <2>. QED  BY <2>1, <2>2
  <1>10. ASSUME Place(c) # 0, NEW s \in kept, Place(c) < s, s < e
         PROVE  Overtaken(s)
    <2>1. current[c] /\ Place(c) = cursor[c]
      BY <1>10 DEF Place
    <2>2. s > cursor[c]
      <3>1. cursor[c] \in Nat
        BY <1>1, <2>1, UptoEvents DEF Placed, Flows
      <3>. QED  BY <1>6, <1>10, <2>1, <3>1
    <2>3. s \in Elems(wire[c]) \/ Overtaken(s)
      BY <1>1, <1>3, <1>10, <2>1, <2>2 DEF Gapless
    <2>4. s \notin Elems(wire[c])
      <3>1. s # e /\ ~(e < s)
        BY <1>6, <1>10
      <3>. QED  BY <1>3, <3>1
    <2>. QED  BY <2>3, <2>4
  <1>. QED  BY <1>6, <1>8, <1>9, <1>10 DEF e

\* A publication is beyond every frame, and overtakes more.
LEMMA PublishWhole ==
  ASSUME BusInv, BusInv', Bus, NEW retain \in BOOLEAN, PublishOnLoop(retain),
         UNCHANGED <<stage, wire, client>>, NEW c \in Consoles, Whole(c)
  PROVE  Whole(c)'
  <1>1. /\ BusTypeOK /\ BusTypeOK' /\ seq \in Nat /\ seq' = seq + 1 /\ seq <= seq'
        /\ kept \subseteq kept' /\ kept' \subseteq kept \cup {seq + 1} /\ Flows(c)
    <2>1. BusTypeOK /\ BusTypeOK' /\ Flows(c)
      BY DEF BusInv
    <2>2. seq \in Nat /\ seq' = seq + 1
      BY <2>1 DEF BusTypeOK, PublishOnLoop
    <2>3. seq <= seq'
      BY <2>2
    <2>. QED  BY <2>1, <2>2, <2>3 DEF PublishOnLoop
  <1>2. ASSUME stage[c] = "over"
        PROVE  Gapless(c)'
    <2>. SUFFICES ASSUME NEW s \in kept', NEW y \in Elems(wire[c]), s < y,
                         (current[c] /\ s > cursor[c]) \/ (\E x \in Elems(wire[c]) : x < s)
                  PROVE  s \in Elems(wire[c]) \/ Overtaken(s)'
      BY DEF Gapless, client
    <2>1. s \in kept
      <3>1. y \in 1 .. seq
        BY <1>1 DEF Flows
      <3>2. s # seq + 1
        BY <1>1, <3>1
      <3>. QED  BY <1>1, <3>2
    <2>2. s \in Elems(wire[c]) \/ Overtaken(s)
      BY <1>2, <2>1 DEF Whole, Gapless
    <2>. QED  BY <1>1, <2>1, <2>2, OvertakenStays
  <1>. QED  BY <1>2 DEF Whole, Placed, client

LEMMA WholeInductive ==
  ASSUME BusInv, BusInv', Bus, \A c \in Consoles : Whole(c), [BusNext]_busVars
  PROVE  \A c \in Consoles : Whole(c)'
  <1>. SUFFICES ASSUME NEW c \in Consoles
                PROVE  Whole(c)'
    OBVIOUS
  <1>0. BusTypeOK /\ Whole(c)
    BY DEF BusInv
  <1>1. ASSUME UNCHANGED <<seq, kept, cursor, current, seen>>,
               wire'[c] = wire[c] \/ stage'[c] # "over", stage'[c] \in {stage[c], "away", "opening", "open"}
        PROVE  Whole(c)'
    BY <1>0, <1>1 DEF Whole, Placed, Gapless, Overtaken
  <1>2. ASSUME NEW retain \in BOOLEAN, PublishOffLoop(retain) \/ UNCHANGED busVars
        PROVE  Whole(c)'
    BY <1>1, <1>2 DEF PublishOffLoop, busVars, stream, client
  <1>3. ASSUME NEW retain \in BOOLEAN, Publish(retain)
        PROVE  Whole(c)'
    BY <1>0, <1>3, PublishWhole DEF Publish
  <1>4. CASE RunPosted
    <2>1. Head(posted) \in BOOLEAN
      BY <1>4, HeadTailProperties DEF RunPosted, BusInv, BusTypeOK
    <2>. QED  BY <1>0, <1>4, <2>1, PublishWhole DEF RunPosted
  <1>5. CASE Restart
    BY <1>5 DEF Restart, Whole, Placed
  <1>6. ASSUME NEW d \in Consoles, Connect(d) \/ Subscribe(d)
        PROVE  Whole(c)'
    <2>1. UNCHANGED <<seq, kept, cursor, current, seen, wire>>
      BY <1>6 DEF Connect, Subscribe, client
    <2>2. stage'[c] \in {stage[c], "opening", "open"}
      BY <1>0, <1>6 DEF Connect, Subscribe, BusTypeOK
    <2>. QED  BY <1>1, <2>1, <2>2
  <1>7. ASSUME NEW d \in Consoles, Send(d)
        PROVE  Whole(c)'
    <2>1. /\ UNCHANGED <<seq, kept, cursor, current, seen, stage>>
          /\ d = c => stage'[c] # "over"
          /\ d # c => wire'[c] = wire[c]
      BY <1>0, <1>7 DEF Send, client, BusTypeOK
    <2>. QED  BY <1>1, <2>1
  <1>8. ASSUME NEW d \in Consoles, KeepaliveDue(d)
        PROVE  Whole(c)'
    <2>1. /\ UNCHANGED <<seq, kept, cursor, current, seen, wire>> /\ stage[d] = "open"
          /\ d # c => stage'[c] = stage[c]
      BY <1>0, <1>8, CloseFacts DEF KeepaliveDue, client
    <2>2. CASE d = c
      <3>1. Gapless(c)
        BY <2>1, <2>2, OpenGapless
      <3>. QED  BY <1>0, <2>1, <3>1 DEF Whole, Placed, Gapless, Overtaken
    <2>. QED  BY <1>1, <2>1, <2>2
  <1>9. ASSUME NEW d \in Consoles, Ended(d) \/ Drop(d)
        PROVE  Whole(c)'
    <2>1. UNCHANGED <<seq, kept, cursor, current, seen>> /\ Close(d, "away")
      BY <1>9 DEF Ended, Drop, client
    <2>2. d = c => stage'[c] = "away"
      BY <1>0, <2>1, CloseFacts
    <2>3. d # c => stage'[c] = stage[c] /\ wire'[c] = wire[c]
      <3>1. d # c => stage'[c] = stage[c]
        BY <1>0, <2>1, CloseFacts
      <3>. QED  BY <1>0, <1>9, <3>1 DEF Ended, Drop, BusTypeOK
    <2>. QED  BY <1>1, <2>1, <2>2, <2>3
  <1>10. ASSUME NEW d \in Consoles, Dispatch(d)
         PROVE  Whole(c)'
    <2>1. CASE d = c
      BY <1>10, <2>1, DispatchGapless
    <2>2. CASE d # c
      <3>1. /\ UNCHANGED <<seq, kept, stage>> /\ wire'[c] = wire[c] /\ cursor'[c] = cursor[c]
            /\ current'[c] = current[c] /\ seen'[c] = seen[c]
        BY <1>0, <1>10, <2>2 DEF Dispatch, stream, BusTypeOK
      <3>. QED  BY <1>0, <3>1 DEF Whole, Placed, Gapless, Overtaken
    <2>. QED  BY <2>1, <2>2
  <1>. QED  BY <1>2, <1>3, <1>4, <1>5, <1>6, <1>7, <1>8, <1>9, <1>10 DEF BusNext

\* The feed counts as the bus does (an instance has operators of its own).
LEMMA CountedAlike == \A S : Feed!Cardinality(S) = Cardinality(S)
  BY DEF Feed!Cardinality, Cardinality

\* The bus implements the feed: a console learns of the events of one life of
\* the process in order, and between two of them it misses no retained one that
\* the ring or its queue did not have to let go, whatever breaks in between.
THEOREM FeedIsKept == BusSpec => FeedSafe
  <1>. DEFINE place == [c \in Consoles |-> IF current[c] THEN cursor[c] ELSE 0]
              AllWhole == \A c \in Consoles : Whole(c)
  <1>1. BusInit => BusInv /\ Bus /\ AllWhole
    BY BusInvInitially, BusInitially DEF BusInit, Whole, Placed
  <1>2. BusInv /\ Bus /\ AllWhole /\ [BusNext]_busVars => BusInv' /\ Bus' /\ AllWhole'
    BY BusInvInductive, BusInductive, WholeInductive
  <1>3. BusInit => Feed!Init
    BY DEF BusInit, Feed!Init
  <1>4. ASSUME BusInv, Bus, AllWhole, [BusNext]_busVars
        PROVE  Feed!Next \/ UNCHANGED <<seq, kept, place>>
    <2>1. BusTypeOK
      BY <1>4 DEF BusInv
    <2>2. ASSUME NEW retain \in BOOLEAN, PublishOnLoop(retain), UNCHANGED client
          PROVE  Feed!Next
      <3>1. Feed!Publish(retain)
        BY <2>2 DEF PublishOnLoop, client, Feed!Publish
      <3>. QED  BY <3>1 DEF Feed!Next
    <2>3. CASE RunPosted
      <3>1. Head(posted) \in BOOLEAN
        BY <2>1, <2>3, HeadTailProperties DEF RunPosted, BusTypeOK
      <3>. QED  BY <2>2, <2>3, <3>1 DEF RunPosted
    <2>4. ASSUME NEW retain \in BOOLEAN, Publish(retain)
          PROVE  Feed!Next
      BY <2>2, <2>4 DEF Publish
    <2>5. CASE Restart
      <3>1. Feed!Restart
        BY <2>5 DEF Restart, Feed!Restart
      <3>. QED  BY <3>1 DEF Feed!Next
    <2>6. ASSUME NEW c \in Consoles, Dispatch(c)
          PROVE  Feed!Next
      <3>1. PICK e \in 1 .. seq :
              /\ e = Head(wire[c]) /\ Place(c) < e
              /\ Place(c) # 0 => \A s \in kept : Place(c) < s /\ s < e => Overtaken(s)
        BY <1>4, <2>6, DispatchGapless
      <3>2. /\ cursor' = [cursor EXCEPT ![c] = e] /\ current' = [current EXCEPT ![c] = TRUE]
            /\ UNCHANGED <<seq, kept>>
        BY <2>6, <3>1 DEF Dispatch
      <3>3. place' = [place EXCEPT ![c] = e]
        BY <2>1, <3>2 DEF BusTypeOK
      <3>4. place[c] = Place(c)
        BY DEF Place
      <3>5. Feed!Deliver(c, e)
        <4>1. place[c] < e
          BY <3>1, <3>4
        <4>2. ASSUME place[c] # 0, NEW s \in kept, place[c] < s, s < e
              PROVE  Feed!Overtaken(s)
          <5>1. Overtaken(s)
            BY <3>1, <3>4, <4>2
          <5>. QED  BY <5>1, CountedAlike DEF Feed!Overtaken, Overtaken
        <4>. QED  BY <3>1, <3>2, <3>3, <4>1, <4>2 DEF Feed!Deliver
      <3>. QED  BY <3>1, <3>5 DEF Feed!Next
    <2>7. ASSUME UNCHANGED <<seq, kept, client>>
          PROVE  UNCHANGED <<seq, kept, place>>
      BY <2>7 DEF client
    <2>8. ASSUME NEW c \in Consoles,
                 Connect(c) \/ Subscribe(c) \/ Send(c) \/ KeepaliveDue(c) \/ Ended(c) \/ Drop(c)
          PROVE  UNCHANGED <<seq, kept, client>>
      BY <2>8 DEF Connect, Subscribe, Send, KeepaliveDue, Ended, Drop
    <2>9. ASSUME NEW retain \in BOOLEAN, PublishOffLoop(retain) \/ UNCHANGED busVars
          PROVE  UNCHANGED <<seq, kept, client>>
      BY <2>9 DEF PublishOffLoop, busVars
    <2>. QED  BY <1>4, <2>3, <2>4, <2>5, <2>6, <2>7, <2>8, <2>9 DEF BusNext
  <1>. QED  BY <1>1, <1>2, <1>3, <1>4, PTL DEF BusSpec, FeedSafe, Feed!Spec
=============================================================================
