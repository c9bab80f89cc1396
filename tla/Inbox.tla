-------------------------------- MODULE Inbox --------------------------------
(***************************************************************************)
(* inbox/store.py, the inbox handlers of operator_api/console_handlers.py  *)
(* and the check_inbox tool: external systems post items, a now-item fires *)
(* a turn of its own, and any turn may pull what is pending.               *)
(*                                                                         *)
(* The store's calls run in worker threads, so anything may happen between *)
(* two of them; the tool's two calls run on the event loop, between which  *)
(* only worker threads can act.  The limit of a listing is not reached.    *)
(***************************************************************************)
EXTENDS Naturals, FiniteSets

CONSTANTS
  Posts,        \* the priority and dedup_key of the items that are posted
  Callers,      \* requests of POST /api/inbox, and wakes, that may be open at once
  Keys,         \* dedup_keys
  NoKey,        \* an item posted without one
  Chat,         \* a turn that no item fired
  Nobody,       \* no turn is in check_inbox
  MaxItems,     \* how many rows are inserted
  MaxFires,     \* max_fires of the StormGuard
  Faults, MaxFaults   \* the fault kinds that occur, and how many

Items == 1 .. MaxItems

ASSUME InboxAssumption ==
  /\ MaxItems \in Nat /\ MaxFires \in Nat /\ MaxFaults \in Nat
  /\ Posts \subseteq [priority : {"now", "next", "later"}, key : Keys \cup {NoKey}]
  /\ NoKey \notin Keys /\ Chat \notin Nat /\ Nobody \notin Nat \cup {Chat}
  /\ Faults \subseteq {"locked", "refused", "crash"}

VARIABLES
  rows,       \* the table: the rows inserted so far are 1 .. last
  last,       \* AUTOINCREMENT
  call,       \* each caller's _operator_inbox_add
  recent,     \* how many fires the StormGuard's deque holds
  turn,       \* the turn that an item fired
  reader,     \* who is between list and mark_delivered of check_inbox
  listed,     \* what it has listed
  given,      \* history: the items that some turn was given
  told,       \* history: the items announced by inbox.item
  late,       \* history: the items whose turn outlived its POST, or was not pre-marked
  lost,       \* history: the items whose call a fault cut short
  faults

tables == <<rows, last>>
tool   == <<reader, listed>>
past   == <<given, told, late, lost>>
vars   == <<tables, call, recent, turn, tool, past, faults>>

Priorities == {"now", "next", "later"}
Row  == [priority : Priorities, key : Keys \cup {NoKey},
         state : {"pending", "delivered", "dismissed", "gone"}, fresh : BOOLEAN]
Call == [at : {"idle", "insert", "mark", "fire", "wait", "restore"},
         priority : Priorities, key : Keys \cup {NoKey}, id : 0 .. MaxItems]
Idle == [at |-> "idle", priority |-> "now", key |-> NoKey, id |-> 0]

TypeOK ==
  /\ last \in 0 .. MaxItems /\ rows \in [1 .. last -> Row]
  /\ call \in [Callers -> Call] /\ recent \in 0 .. MaxFires
  /\ turn \in [Items -> {"none", "running", "over"}]
  /\ reader \in Items \cup {Chat, Nobody} /\ listed \subseteq 1 .. last
  /\ given \subseteq 1 .. last /\ told \subseteq 1 .. last
  /\ late \subseteq 1 .. last /\ lost \subseteq 1 .. last
  /\ faults \in 0 .. MaxFaults

Init ==
  /\ last = 0 /\ rows = [i \in 1 .. 0 |-> Idle]
  /\ call = [c \in Callers |-> Idle] /\ recent = 0
  /\ turn = [i \in Items |-> "none"]
  /\ reader = Nobody /\ listed = {}
  /\ given = {} /\ told = {} /\ late = {} /\ lost = {} /\ faults = 0

Fault(kind) == kind \in Faults /\ faults < MaxFaults /\ faults' = faults + 1

\* The event loop is not inside check_inbox.
LoopFree == reader = Nobody

Pending(i) == rows[i].state = "pending"

\* The call goes on to its next step.
Step(c, to) == call' = [call EXCEPT ![c] = [call[c] EXCEPT !.at = to]]
Return(c)   == call' = [call EXCEPT ![c] = Idle]

-----------------------------------------------------------------------------
(* The store: one UPDATE each.                                             *)

MarkDelivered(ids, as) ==
  rows' = [i \in 1 .. last |->
             IF i \in ids /\ Pending(i) THEN [rows[i] EXCEPT !.state = as] ELSE rows[i]]

\* A slip in mark_pending: with mark_delivered's IS NULL it finds no row to change.
MarkPendingIfNull(i) == rows' = rows

\* mark_pending: whatever the row holds, unless it was pruned.
MarkPending(i) ==
  rows' = [rows EXCEPT ![i] = IF rows[i].state = "gone" THEN rows[i]
                              ELSE [rows[i] EXCEPT !.state = "pending"]]

-----------------------------------------------------------------------------
(* _operator_inbox_add.                                                    *)

Duplicate(key) ==
  key # NoKey /\ \E i \in 1 .. last : rows[i].key = key /\ rows[i].fresh /\ Pending(i)

\* add: the SELECT.  A duplicate is answered at once.
Look(c, post) ==
  /\ LoopFree /\ call[c].at = "idle" /\ last < MaxItems /\ ~Duplicate(post.key)
  /\ call' = [call EXCEPT ![c] = [at |-> "insert", priority |-> post.priority,
                                  key |-> post.key, id |-> 0]]
  /\ UNCHANGED <<tables, recent, turn, tool, past, faults>>

\* add: the INSERT.  A queued item is announced on return.
Insert(c) ==
  /\ call[c].at = "insert" /\ last < MaxItems
  /\ last' = last + 1
  /\ rows' = [i \in 1 .. last + 1 |->
                IF i <= last THEN rows[i]
                ELSE [priority |-> call[c].priority, key |-> call[c].key,
                      state |-> "pending", fresh |-> TRUE]]
  /\ IF call[c].priority = "now"
       THEN /\ call' = [call EXCEPT ![c] = [call[c] EXCEPT !.at = "mark", !.id = last + 1]]
            /\ UNCHANGED told
       ELSE Return(c) /\ told' = told \cup {last + 1}
  /\ UNCHANGED <<recent, turn, tool, given, late, lost, faults>>

PreMark(i) == MarkDelivered({i}, "delivered")

\* Deliver before fire.  A lock that outlasts busy_timeout is swallowed.
Mark(c) ==
  /\ call[c].at = "mark" /\ Step(c, "fire")
  /\ \/ PreMark(call[c].id) /\ UNCHANGED <<late, faults>>
     \/ Fault("locked") /\ late' = late \cup {call[c].id} /\ UNCHANGED rows
  /\ UNCHANGED <<last, recent, turn, tool, given, told, lost>>

\* StormGuard.allow.
Allows == recent < MaxFires

Suppressed(c) ==
  /\ LoopFree /\ call[c].at = "fire" /\ ~Allows
  /\ Step(c, "restore")
  /\ UNCHANGED <<tables, recent, turn, tool, past, faults>>

\* The POST: the turn starts, or it is refused or rejected.
Fire(c) ==
  /\ LoopFree /\ call[c].at = "fire" /\ Allows
  /\ recent' = recent + 1
  /\ \/ /\ Step(c, "wait")
        /\ turn' = [turn EXCEPT ![call[c].id] = "running"]
        /\ given' = given \cup {call[c].id} /\ UNCHANGED faults
     \/ Fault("refused") /\ Step(c, "restore") /\ UNCHANGED <<turn, given>>
  /\ UNCHANGED <<tables, tool, told, late, lost>>

\* The answer, when the turn has ended: fired.
Answered(c) ==
  /\ LoopFree /\ call[c].at = "wait" /\ turn[call[c].id] # "running"
  /\ Return(c)
  /\ UNCHANGED <<tables, recent, turn, tool, past, faults>>

\* A slip in the timeout: the call waits for as long as the turn runs.
WaitsOn(c) == FALSE

\* 30 seconds without an answer: not fired, though the turn runs on.
TimesOut(c) == call[c].at = "wait" /\ turn[call[c].id] = "running"

GiveUp(c) ==
  /\ LoopFree /\ TimesOut(c)
  /\ Step(c, "restore") /\ late' = late \cup {call[c].id}
  /\ UNCHANGED <<tables, recent, turn, tool, given, told, lost, faults>>

\* A slip in the return: an item that is pending again is not announced.
Unannounced(i) == told

Announced(i) == told \cup {i}

\* Not fired: restore and announce.  A failed restore is swallowed.
Restore(c) ==
  /\ call[c].at = "restore" /\ Return(c)
  /\ \/ MarkPending(call[c].id) /\ UNCHANGED <<lost, faults>>
     \/ Fault("locked") /\ lost' = lost \cup {call[c].id} /\ UNCHANGED rows
  /\ told' = Announced(call[c].id)
  /\ UNCHANGED <<last, recent, turn, tool, given, late>>

-----------------------------------------------------------------------------
(* check_inbox, in a turn on the event loop.                               *)

Floor(p) == CASE p = "now" -> {"now"} [] p = "next" -> {"now", "next"} [] OTHER -> Priorities

\* Inbox empty leaves nothing behind.
List(r, floor) ==
  /\ LoopFree /\ (r \in Items => turn[r] = "running")
  /\ reader' = r
  /\ listed' = {i \in 1 .. last : Pending(i) /\ rows[i].priority \in Floor(floor)}
  /\ listed' # {}
  /\ UNCHANGED <<tables, call, recent, turn, past, faults>>

\* What was listed is returned, whatever has become of it.
Take ==
  /\ ~LoopFree
  /\ MarkDelivered(listed, "delivered")
  /\ given' = given \cup listed
  /\ reader' = Nobody /\ listed' = {}
  /\ UNCHANGED <<last, call, recent, turn, told, late, lost, faults>>

-----------------------------------------------------------------------------
(* The console, the sweep and the passing of time.                         *)

\* _operator_inbox_deliver.
Dismiss(i) ==
  /\ i <= last /\ Pending(i) /\ MarkDelivered({i}, "dismissed")
  /\ UNCHANGED <<last, call, recent, turn, tool, past, faults>>

\* The retention is days: a row that a call still works on is not that old.
Prune ==
  /\ \A c \in Callers : call[c].at = "idle"
  /\ \E i \in 1 .. last : rows[i].state \in {"delivered", "dismissed"}
  /\ rows' = [i \in 1 .. last |->
                IF Pending(i) THEN rows[i] ELSE [rows[i] EXCEPT !.state = "gone"]]
  /\ UNCHANGED <<last, call, recent, turn, tool, past, faults>>

\* The oldest fire leaves the storm guard's window.
FireAges ==
  /\ recent > 0 /\ recent' = recent - 1
  /\ UNCHANGED <<tables, call, turn, tool, past, faults>>

\* A row leaves the dedup window; a row without a key has no use for it.
RowAges(i) ==
  /\ i <= last /\ rows[i].fresh /\ rows[i].key # NoKey
  /\ rows' = [rows EXCEPT ![i] = [rows[i] EXCEPT !.fresh = FALSE]]
  /\ UNCHANGED <<last, call, recent, turn, tool, past, faults>>

TurnEnds(i) ==
  /\ LoopFree /\ turn[i] = "running" /\ turn' = [turn EXCEPT ![i] = "over"]
  /\ UNCHANGED <<tables, call, recent, tool, past, faults>>

\* The process ends: calls, turns, the guard and the tool with it.
Crash ==
  /\ Fault("crash")
  /\ lost' = lost \cup {call[c].id : c \in {d \in Callers : call[d].id # 0}}
  /\ call' = [c \in Callers |-> Idle] /\ recent' = 0
  /\ turn' = [i \in Items |-> IF turn[i] = "running" THEN "over" ELSE turn[i]]
  /\ reader' = Nobody /\ listed' = {}
  /\ UNCHANGED <<tables, given, told, late>>

-----------------------------------------------------------------------------
CallStep(c) ==
  Insert(c) \/ Mark(c) \/ Suppressed(c) \/ Fire(c) \/ Answered(c) \/ GiveUp(c) \/ Restore(c)

Next ==
  \/ \E c \in Callers, post \in Posts : Look(c, post)
  \/ \E c \in Callers : CallStep(c)
  \/ \E r \in Items \cup {Chat}, p \in Priorities : List(r, p)
  \/ Take \/ Prune \/ FireAges \/ Crash
  \/ \E i \in Items : Dismiss(i) \/ RowAges(i) \/ TurnEnds(i)

Spec == Init /\ [][Next]_vars

\* A call's threads, its POST and its timeout come to an end; so does the tool.
\* A turn need not.  The loop runs what is ready in order, so a step of a call
\* that needs it gets its turn although check_inbox may keep coming in between.
Fairness ==
  /\ \A c \in Callers : SF_vars(CallStep(c))
  /\ WF_vars(Take)

FairSpec == Spec /\ Fairness

-----------------------------------------------------------------------------
(* Properties.                                                             *)

\* A call works on the item: from its row to the restore.
Underway(i) == \E c \in Callers : call[c].id = i

\* A delivered item was given to a turn, or its call has yet to fire or to
\* restore it: whatever the guard, the POST and the other readers do, only a
\* crash or a failed restore loses one.
NothingLost ==
  \A i \in 1 .. last :
    rows[i].state = "delivered" => i \in given \/ Underway(i) \/ i \in lost

\* What waits in the queue and no turn was given has been announced to the
\* console, also when it was taken out to be fired and has come back.
PendingIsTold ==
  \A i \in 1 .. last :
    Pending(i) => i \in told \/ i \in given \/ Underway(i) \/ i \in lost

\* The turn an item fired does not list that item, unless it outlives its POST
\* or the item could not be marked.
NoSelfRead ==
  [][reader' \in Items \ late => reader' \notin listed']_vars

\* In the hands of a turn, in the queue, or put away by the operator.
Settled(i) == i \in given \/ (i <= last /\ rows[i].state \in {"pending", "dismissed"})

\* The call for a now-item ends, and then the item is given to a turn, waits in
\* the queue or was dismissed, although the guard may refuse, the POST may fail
\* and its turn may never end; only the crash or the failed restore that cut
\* the call short may leave it delivered to nobody.
NowSettles ==
  \A i \in Items : Underway(i) ~> ~Underway(i) /\ (Settled(i) \/ i \in lost)
=============================================================================
