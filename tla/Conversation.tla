--------------------------- MODULE Conversation ---------------------------
(***************************************************************************)
(* One chat session: the turns that a2a_impl/executor.py runs through the  *)
(* driver of server/chat.py, the questions they park on, the queue of      *)
(* graph/steering.py, and the console tab that feeds them.  Turns of a     *)
(* thread take its lock one after the other; what the operator types while *)
(* one streams, or while a form is open, goes to the queue, and the next   *)
(* model call folds it in.  When the stream ends, the tab looks what is    *)
(* still queued and sends that as a turn of its own.                       *)
(*                                                                         *)
(* A question is the interrupt a tool call leaves in the checkpoint; one   *)
(* model call may leave two.  Requests of the tab take time to arrive.     *)
(***************************************************************************)
EXTENDS Naturals, Sequences, SequencesExt, FiniteSets

CONSTANTS
  Msgs,           \* what the operator types, each message once
  MaxTurns,       \* turns that exist at a time
  MaxFires,       \* turns that no operator watches: schedules, watches, nudges
  MaxAsks,        \* questions the agent asks
  MaxCalls,       \* model calls of a turn, its recursion limit
  AutoAnswers,    \* _MAX_AUTONOMOUS_AUTOANSWERS
  NoAsk,
  Faults, MaxFaults   \* the fault kinds that occur, and how many

FaultKinds == {"post", "stop", "stall", "error", "overflow", "clear", "crash"}

Turns == 1 .. MaxTurns

\* A question, and whether a turn that no operator watches has put it.
Asks == [n : 1 .. MaxAsks, auto : BOOLEAN]

ASSUME ConversationAssumption ==
  /\ MaxTurns \in Nat \ {0} /\ MaxCalls \in Nat \ {0}
  /\ {MaxFires, MaxAsks, AutoAnswers, MaxFaults} \subseteq Nat
  /\ NoAsk \notin Asks /\ "held" \notin Msgs
  /\ Faults \subseteq FaultKinds

VARIABLES
  turn,      \* the turns between their request and the end of their stream
  line,      \* the thread's lock: its holder, then those that wait for it
  asks,      \* the pending interrupts in the checkpoint, first to last
  queue,     \* _QUEUES of the session
  asked, fired, faults,             \* how many questions, fires, faults
  typed,     \* what the operator has typed
  posts, deletes, cancels,          \* requests of the tab that are under way
  streams,   \* the turns whose stream the tab reads
  bubbles,   \* steerQueueRef: what it shows as queued
  form,      \* the question it shows
  checking,  \* the bubbles a turn-end check is asking about
  heard,     \* history: how often the model was given each message
  excused    \* history: what was withdrawn, or failed before the model saw it

server  == <<turn, line, asks, queue, heard>>
console == <<typed, posts, deletes, cancels, streams, bubbles, form, checking>>
counts  == <<asked, fired, faults>>
vars    == <<server, console, counts, excused>>

NoTurn == [pc |-> "none"]
Live   == [pc : {"waiting", "call", "thinking", "asking", "compacting"},
           kind : {"send", "answer", "auto"}, says : SUBSET Msgs, answers : Asks \cup {NoAsk},
           calls : 0 .. MaxCalls, tries : 0 .. AutoAnswers, retried : BOOLEAN]
Over   == [pc : {"over"}, shows : Asks \cup {NoAsk}]

\* A queued item has the tab's id, or one of its own when a turn was held.
Items  == [id : Msgs \cup {"held"}, text : SUBSET Msgs]

TypeOK ==
  /\ turn \in [Turns -> {NoTurn} \cup Live \cup Over]
  /\ line \in Seq(Turns) /\ asks \in Seq(Asks) /\ queue \in Seq(Items)
  /\ asked \in 0 .. MaxAsks /\ fired \in 0 .. MaxFires /\ faults \in 0 .. MaxFaults
  /\ {typed, posts, deletes, bubbles, checking, excused} \subseteq SUBSET Msgs
  /\ {cancels, streams} \subseteq SUBSET Turns
  /\ form \in Asks \cup {NoAsk}
  /\ heard \in [Msgs -> Nat]

Init ==
  /\ turn = [t \in Turns |-> NoTurn] /\ line = <<>> /\ asks = <<>> /\ queue = <<>>
  /\ asked = 0 /\ fired = 0 /\ faults = 0
  /\ typed = {} /\ posts = {} /\ deletes = {} /\ cancels = {}
  /\ streams = {} /\ bubbles = {} /\ form = NoAsk /\ checking = {}
  /\ heard = [m \in Msgs |-> 0] /\ excused = {}

Fault(kind) == kind \in Faults /\ faults < MaxFaults /\ faults' = faults + 1

Running(t)   == turn[t].pc \notin {"none", "over"}
Queued(m)    == \E i \in DOMAIN queue : m \in queue[i].text
QueuedIds    == {queue[i].id : i \in DOMAIN queue}
PendingAsks  == ToSet(asks)

Free(t) == turn[t] = NoTurn /\ \A u \in Turns : u < t => turn[u] # NoTurn

\* A request reaches the executor: its turn lines up for the thread.
Begins(t, kind, says, answers) ==
  /\ Free(t)
  /\ turn' = [turn EXCEPT ![t] = [pc |-> "waiting", kind |-> kind, says |-> says, answers |-> answers,
                                  calls |-> 0, tries |-> 0, retried |-> FALSE]]
  /\ line' = Append(line, t)

-----------------------------------------------------------------------------
(* The console tab.                                                        *)

\* send, while nothing streams and no form is open.
Send(m, t) ==
  /\ m \notin typed /\ streams = {} /\ form = NoAsk
  /\ typed' = typed \cup {m} /\ streams' = streams \cup {t}
  /\ Begins(t, "send", {m}, NoAsk)
  /\ UNCHANGED <<asks, queue, heard, posts, deletes, cancels, bubbles, form, checking, counts, excused>>

\* queueSteer, while a turn streams or a form is open.
QueueSteer(m) ==
  /\ m \notin typed /\ (streams # {} \/ form # NoAsk)
  /\ typed' = typed \cup {m} /\ bubbles' = bubbles \cup {m} /\ posts' = posts \cup {m}
  /\ UNCHANGED <<server, deletes, cancels, streams, form, checking, counts, excused>>

\* POST .../steer: enqueue.
SteerArrives(m) ==
  /\ m \in posts /\ posts' = posts \ {m}
  /\ queue' = Append(queue, [id |-> m, text |-> {m}])
  /\ UNCHANGED <<turn, line, asks, heard, typed, deletes, cancels, streams, bubbles, form, checking,
                 counts, excused>>

SteerFails(m) ==
  /\ m \in posts /\ Fault("post") /\ posts' = posts \ {m}
  /\ bubbles' = bubbles \ {m} /\ excused' = excused \cup {m}
  /\ UNCHANGED <<server, typed, deletes, cancels, streams, form, checking, asked, fired>>

\* cancelSteer: the bubble goes at once.
CancelSteer(m) ==
  /\ m \in bubbles /\ bubbles' = bubbles \ {m} /\ deletes' = deletes \cup {m}
  /\ UNCHANGED <<server, typed, posts, cancels, streams, form, checking, counts, excused>>

\* DELETE .../steer/{id}: dequeue takes the first item of that id, unless it is
\* too late or too early.
Dequeue(m) ==
  /\ m \in deletes /\ deletes' = deletes \ {m}
  /\ \/ m \notin QueuedIds /\ UNCHANGED <<queue, excused>>
     \/ \E i \in DOMAIN queue :
          /\ queue[i].id = m /\ \A j \in 1 .. i - 1 : queue[j].id # m
          /\ queue' = RemoveAt(queue, i) /\ excused' = excused \cup {m}
  /\ UNCHANGED <<turn, line, asks, heard, typed, posts, cancels, streams, bubbles, form, checking, counts>>

\* The poll during a turn: what is not queued any more settles in the thread.
Poll ==
  /\ streams # {} /\ ~ bubbles \subseteq QueuedIds
  /\ bubbles' = bubbles \cap QueuedIds
  /\ UNCHANGED <<server, typed, posts, deletes, cancels, streams, form, checking, counts, excused>>

\* The stream of a turn ends: a form it brought is shown, and the check of
\* the bubbles begins.
StreamEnds(t) ==
  /\ t \in streams /\ turn[t].pc = "over"
  /\ streams' = streams \ {t} /\ turn' = [turn EXCEPT ![t] = NoTurn]
  /\ form' = IF turn[t].shows = NoAsk THEN form ELSE turn[t].shows
  /\ checking' = checking \cup bubbles
  /\ UNCHANGED <<line, asks, queue, heard, typed, posts, deletes, cancels, bubbles, counts, excused>>

\* reconcileSteer: what is still queued waits for an open form, or is sent as
\* a fresh turn.
KeepQueued ==
  /\ checking \cap QueuedIds # {} /\ form # NoAsk
  /\ bubbles' = checking \cap QueuedIds /\ checking' = {}
  /\ UNCHANGED <<server, typed, posts, deletes, cancels, streams, form, counts, excused>>

SettleQueued ==
  /\ checking # {} /\ checking \cap QueuedIds = {}
  /\ bubbles' = {} /\ checking' = {}
  /\ UNCHANGED <<server, typed, posts, deletes, cancels, streams, form, counts, excused>>

ResendQueued(t) ==
  /\ checking \cap QueuedIds # {} /\ form = NoAsk
  /\ bubbles' = {} /\ checking' = {} /\ streams' = streams \cup {t}
  /\ Begins(t, "send", checking \cap QueuedIds, NoAsk)
  /\ UNCHANGED <<asks, queue, heard, typed, posts, deletes, cancels, form, counts, excused>>

\* resumeHitl and dismissHitl: an answer is marked, and names no task.
AnswerForm(t) ==
  /\ form # NoAsk /\ form' = NoAsk
  /\ streams' = streams \cup {t} /\ Begins(t, "answer", {}, form)
  /\ UNCHANGED <<asks, queue, heard, typed, posts, deletes, cancels, bubbles, checking, counts, excused>>

\* stop: the tab lets go at once, and drops its bubbles; then CancelTask.
Stop(t) ==
  /\ t \in streams /\ Fault("stop")
  /\ streams' = streams \ {t} /\ bubbles' = {}
  /\ IF Running(t) THEN cancels' = cancels \cup {t} /\ UNCHANGED turn
                   ELSE turn' = [turn EXCEPT ![t] = NoTurn] /\ UNCHANGED cancels
  /\ UNCHANGED <<line, asks, queue, heard, typed, posts, deletes, form, checking, asked, fired, excused>>

\* A schedule, a watch or a nudge of this session fires.
Fires(t) ==
  /\ fired < MaxFires /\ fired' = fired + 1
  /\ Begins(t, "auto", {}, NoAsk)
  /\ UNCHANGED <<asks, queue, heard, console, asked, faults, excused>>

-----------------------------------------------------------------------------
(* Turns.                                                                  *)

At(t, pc) == Running(t) /\ turn[t].pc = pc

\* The turn holds the lock.
Holds(t) == line # <<>> /\ Head(line) = t

\* A slip in the unwinding: the lock stays taken.
LeavesNot(t) == line

\* The lock is released, or the wait for it is over.
Leaves(t) == IF \E i \in DOMAIN line : line[i] = t
             THEN RemoveAt(line, CHOOSE i \in DOMAIN line : line[i] = t) ELSE line

\* The executor settles the task; a stream somebody reads then ends.
Ends(t, shows) ==
  /\ turn' = [turn EXCEPT ![t] = IF t \in streams THEN [pc |-> "over", shows |-> shows] ELSE NoTurn]
  /\ line' = Leaves(t) /\ cancels' = cancels \ {t}

\* A slip in _hold_if_hitl_pending: what the operator says is never held.
MustHoldNever(t) == FALSE

\* A fresh message of the operator, while a question is pending, is held.  The
\* retry of a turn that overflowed is not asked.
MustHold(t) == turn[t].kind = "send" /\ ~turn[t].retried /\ asks # <<>>

\* Its retry left aside, a turn that answers resumes the thread.
Resumes(t) == turn[t].kind = "answer" /\ ~turn[t].retried /\ asks # <<>>

\* A slip in the hold: the message is not kept.
HeldDropped(t) == queue

HeldQueue(t) == IF turn[t].says = {} THEN queue
                ELSE Append(queue, [id |-> "held", text |-> turn[t].says])

\* The turn parks again on the question that is pending.
Hold(t) ==
  /\ At(t, "waiting") /\ Holds(t) /\ MustHold(t)
  /\ queue' = HeldQueue(t) /\ Ends(t, Head(asks))
  /\ UNCHANGED <<asks, heard, typed, posts, deletes, streams, bubbles, form, checking, counts, excused>>

\* _resume_payload: the answer goes to the first question, by its id; the
\* thread goes on when none is left.
Resume(t) ==
  /\ At(t, "waiting") /\ Holds(t) /\ Resumes(t)
  /\ asks' = Tail(asks)
  /\ turn' = [turn EXCEPT ![t].pc = IF Len(asks) = 1 THEN "call" ELSE "asking"]
  /\ UNCHANGED <<line, queue, heard, console, counts, excused>>

\* Fresh input: the thread abandons what was pending.
Enter(t) ==
  /\ At(t, "waiting") /\ Holds(t) /\ ~MustHold(t) /\ ~Resumes(t)
  /\ asks' = <<>>
  /\ heard' = [m \in Msgs |-> IF m \in turn[t].says THEN heard[m] + 1 ELSE heard[m]]
  /\ turn' = [turn EXCEPT ![t].pc = "call", ![t].says = {}]
  /\ UNCHANGED <<line, queue, console, counts, excused>>

\* A slip in the middleware: only the first call of a turn drains.
FoldsFirst(t) == turn[t].calls = 0 /\ turn[t].kind # "answer"

Folds(t) == TRUE

\* before_model: the queue is folded into the thread, and the model called.
ModelCall(t) ==
  /\ At(t, "call") /\ turn[t].calls < MaxCalls
  /\ turn' = [turn EXCEPT ![t].pc = "thinking", ![t].calls = @ + 1]
  /\ IF Folds(t)
     THEN /\ queue' = <<>>
          /\ heard' = [m \in Msgs |-> heard[m] + Cardinality({i \in DOMAIN queue : m \in queue[i].text})]
     ELSE UNCHANGED <<queue, heard>>
  /\ UNCHANGED <<line, asks, console, counts, excused>>

\* Tools run, and the model is called again.
ToolsRun(t) ==
  /\ At(t, "thinking") /\ turn' = [turn EXCEPT ![t].pc = "call"]
  /\ UNCHANGED <<line, asks, queue, heard, console, counts, excused>>

\* One or two gated tools interrupt.
AsksUser(t, k) ==
  /\ At(t, "thinking") /\ asked + k <= MaxAsks
  /\ asked' = asked + k
  /\ asks' = [i \in 1 .. k |-> [n |-> asked + i, auto |-> turn[t].kind = "auto"]]
  /\ turn' = [turn EXCEPT ![t].pc = "asking"]
  /\ UNCHANGED <<line, queue, heard, console, fired, faults, excused>>

\* The answer is complete, or the recursion limit ends the turn.
Complete(t) ==
  /\ At(t, "thinking") \/ (At(t, "call") /\ turn[t].calls = MaxCalls)
  /\ Ends(t, NoAsk)
  /\ UNCHANGED <<asks, queue, heard, typed, posts, deletes, streams, bubbles, form, checking, counts, excused>>

\* A turn that is watched parks on its first question.
Park(t) ==
  /\ At(t, "asking") /\ turn[t].kind # "auto"
  /\ Ends(t, Head(asks))
  /\ UNCHANGED <<asks, queue, heard, typed, posts, deletes, streams, bubbles, form, checking, counts, excused>>

\* A turn nobody watches is told that there is no operator, AutoAnswers times.
AutoAnswer(t) ==
  /\ At(t, "asking") /\ turn[t].kind = "auto" /\ turn[t].tries < AutoAnswers
  /\ asks' = Tail(asks)
  /\ turn' = [turn EXCEPT ![t].tries = @ + 1, ![t].pc = IF Len(asks) = 1 THEN "call" ELSE "asking"]
  /\ UNCHANGED <<line, queue, heard, console, counts, excused>>

\* Then it ends, and _clear_pending_interrupt forgets its questions, if it can.
GiveUp(t) ==
  /\ At(t, "asking") /\ turn[t].kind = "auto" /\ turn[t].tries = AutoAnswers
  /\ Ends(t, NoAsk)
  /\ \/ asks' = <<>> /\ UNCHANGED faults
     \/ Fault("clear") /\ UNCHANGED asks
  /\ UNCHANGED <<queue, heard, typed, posts, deletes, streams, bubbles, form, checking, asked, fired, excused>>

\* A provider error, or an overflow in the retry.
Errs(t) ==
  /\ At(t, "thinking") /\ Fault("error") /\ Ends(t, NoAsk)
  /\ UNCHANGED <<asks, queue, heard, typed, posts, deletes, streams, bubbles, form, checking, asked, fired, excused>>

\* The context overflows: the lock is released while the error unwinds.
Overflow(t) ==
  /\ At(t, "thinking") /\ ~turn[t].retried /\ Fault("overflow")
  /\ turn' = [turn EXCEPT ![t].pc = "compacting", ![t].retried = TRUE]
  /\ line' = Leaves(t)
  /\ UNCHANGED <<asks, queue, heard, console, asked, fired, excused>>

\* The thread is compacted, and the retry lines up for the lock again.
Retry(t) ==
  /\ At(t, "compacting")
  /\ turn' = [turn EXCEPT ![t].pc = "waiting"] /\ line' = Append(line, t)
  /\ UNCHANGED <<asks, queue, heard, console, counts, excused>>

\* _stall_guarded: no event for too long, in a call or in the line.
Stall(t) ==
  /\ At(t, "waiting") \/ At(t, "thinking")
  /\ Fault("stall") /\ Ends(t, NoAsk)
  /\ excused' = excused \cup turn[t].says
  /\ UNCHANGED <<asks, queue, heard, typed, posts, deletes, streams, bubbles, form, checking, asked, fired>>

\* CancelTask reaches a turn, wherever it is.
Cancel(t) ==
  /\ t \in cancels /\ Running(t)
  /\ Ends(t, NoAsk) /\ excused' = excused \cup turn[t].says
  /\ UNCHANGED <<asks, queue, heard, typed, posts, deletes, streams, bubbles, form, checking, counts>>

\* The process restarts: the lock, the queue and the turns are gone, the
\* checkpoint stays.  The streams break, and no check follows.
Crash ==
  /\ Fault("crash")
  /\ excused' = excused \cup posts \cup {m \in Msgs : Queued(m)}
                        \cup UNION {turn[t].says : t \in {u \in Turns : Running(u)}}
  /\ turn' = [t \in Turns |-> NoTurn] /\ line' = <<>> /\ queue' = <<>>
  /\ posts' = {} /\ deletes' = {} /\ cancels' = {} /\ streams' = {} /\ checking' = {}
  /\ bubbles' = bubbles \ posts
  /\ UNCHANGED <<asks, heard, typed, form, asked, fired>>

-----------------------------------------------------------------------------
ConsoleNext ==
  \/ \E m \in Msgs : \/ \E t \in Turns : Send(m, t)
                     \/ QueueSteer(m) \/ SteerArrives(m) \/ SteerFails(m)
                     \/ CancelSteer(m) \/ Dequeue(m)
  \/ \E t \in Turns : StreamEnds(t) \/ ResendQueued(t) \/ AnswerForm(t) \/ Stop(t)
  \/ Poll \/ KeepQueued \/ SettleQueued

TurnNext(t) ==
  \/ Fires(t)
  \/ Hold(t) \/ Resume(t) \/ Enter(t) \/ ModelCall(t) \/ ToolsRun(t)
  \/ (\E k \in 1 .. 2 : AsksUser(t, k)) \/ Complete(t)
  \/ Park(t) \/ AutoAnswer(t) \/ GiveUp(t) \/ Errs(t) \/ Overflow(t) \/ Retry(t)
  \/ Stall(t) \/ Cancel(t)

Next == ConsoleNext \/ (\E t \in Turns : TurnNext(t)) \/ Crash

Spec == Init /\ [][Next]_vars

(* Fairness: turns go on, model calls return, requests arrive, streams that *)
(* are over end, and the operator answers or dismisses the form.            *)
Progress(t) == \/ Hold(t) \/ Resume(t) \/ Enter(t) \/ ModelCall(t)
               \/ ToolsRun(t) \/ Complete(t) \/ Park(t) \/ AutoAnswer(t) \/ GiveUp(t)
               \/ Retry(t) \/ Cancel(t)

Fairness ==
  /\ \A t \in Turns : WF_vars(Progress(t)) /\ WF_vars(StreamEnds(t))
  /\ \A m \in Msgs : WF_vars(SteerArrives(m)) /\ WF_vars(Dequeue(m))
  /\ WF_vars(KeepQueued \/ SettleQueued \/ \E t \in Turns : ResendQueued(t))
  /\ WF_vars(\E t \in Turns : AnswerForm(t))

FairSpec == Spec /\ Fairness

-----------------------------------------------------------------------------
(* Properties.                                                             *)

\* A question that is pending is never abandoned for what the operator types,
\* however turns, answers, stops and crashes fall: it leaves the thread with an
\* answer of the operator, and no answer to another pending one is taken for
\* its own.  Only a turn nobody watches, or the retry after an overflow, may
\* abandon it.
Leaving == PendingAsks \ ToSet(asks')
OwnAnswer ==
  [][\A a \in Leaving : a.auto \/ (LET by == turn[Head(line)] IN
       \/ by.kind = "auto" \/ by.retried
       \/ by.kind = "answer" /\ by.answers \notin PendingAsks \ {a})]_vars

\* No message is lost between the tab, the queue and the turns: until the model
\* has it, it is on its way, queued, or carried by a turn, unless the operator
\* withdrew it or saw it fail.
Kept ==
  \A m \in typed : \/ m \in posts \/ Queued(m) \/ heard[m] > 0 \/ m \in excused
                   \/ \E t \in Turns : Running(t) /\ m \in turn[t].says

\* The lock of the thread, through every way in which a turn leaves it: the
\* turns that work take it one at a time, and who stands in its line is a turn
\* that waits or works, once.
OneAtATime ==
  /\ \A t, u \in Turns :
       {turn[t].pc, turn[u].pc} \subseteq {"call", "thinking", "asking"} => t = u
  /\ \A t \in Turns : t \in ToSet(line) <=> Running(t) /\ turn[t].pc # "compacting"
  /\ \A i, j \in DOMAIN line : line[i] = line[j] => i = j

\* The model is never called on a thread whose tool call still waits for its
\* answer, and a turn that parks has a question to park on.
CalledOnWhole ==
  \A t \in Turns : /\ turn[t].pc \in {"call", "thinking"} => asks = <<>>
                   /\ turn[t].pc = "asking" => asks # <<>>

\* A question of a turn that is watched is pending.
Parked == \E a \in PendingAsks : ~a.auto

\* What is queued behind a form reaches the model: the answer or the dismissal
\* resumes the thread, and its next call drains the queue.
HeldIsHeard ==
  \A m \in Msgs : (Queued(m) /\ Parked) ~> (~Queued(m) \/ faults > 0)

\* Every turn ends: no question parks a turn nobody watches, and no turn that
\* is stopped, stalls or overflows keeps the lock from the next.
TurnsEnd == \A t \in Turns : Running(t) ~> ~Running(t)

\* What the tab does not find queued any more was folded in, and what it finds
\* was never seen: the model is given no message twice.
HeardOnce == \A m \in Msgs : heard[m] <= 1
=============================================================================
