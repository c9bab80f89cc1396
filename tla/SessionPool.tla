----------------------------- MODULE SessionPool -----------------------------
(***************************************************************************)
(* tools/mcp_session_pool.py: one long-lived MCP session per server, which *)
(* calls from any thread share.  The pool's own loop runs the calls; a     *)
(* slot's lock guards opening and retiring its session, never a request.   *)
(* A call whose session has died retires it, if nobody has yet, and is     *)
(* sent once more on a fresh one.  close() ends all of it.                 *)
(*                                                                         *)
(* One slot: close() takes the slots one after the other, for ten seconds  *)
(* in all.  asyncio.Lock is FIFO; here any waiting call may get it.        *)
(***************************************************************************)
EXTENDS Naturals, FiniteSets

CONSTANTS
  Calls,        \* round trips
  MaxOpens,     \* how many sessions are started
  Nobody, Closer,   \* holders of the lock that are not calls
  Faults, MaxFaults \* the fault kinds that occur, and how many

ASSUME PoolAssumption ==
  /\ MaxOpens \in Nat /\ MaxFaults \in Nat
  /\ Nobody \notin Calls /\ Closer \notin Calls /\ Nobody # Closer
  /\ Faults \subseteq {"die", "refuse", "raise", "stop"}

Sessions == 1 .. MaxOpens     \* by their owner task
None     == 0

VARIABLES
  current,      \* slot.session, slot.stop and slot.task: set and reset together
  generation,   \* slot.generation
  lock,         \* slot.lock
  opens,        \* owner tasks created so far
  owner,        \* the owner task of each session
  ready,        \* sessions that were initialized
  live,         \* sessions whose server answers
  call,         \* the call: its caller until it is posted, then its task
  axed,         \* calls whose task has been cancelled and not unwound
  answer,       \* what the caller got
  closer,       \* close()
  served,       \* history: sessions the slot has held
  broken,       \* history: sessions whose server died, or raised
  sends, tried, \* history: how often, and where, each call was sent
  faults

slot    == <<current, generation, lock>>
session == <<opens, owner, ready, live>>
request == <<call, axed, answer>>
past    == <<served, broken, sends, tried>>
vars    == <<slot, session, request, closer, past, faults>>

Task == [at : {"out", "bridge", "posted", "late", "stray", "want", "open", "sent",
                "failed", "close", "done"},
         on : 0 .. MaxOpens, gen : Nat, opened : BOOLEAN, again : BOOLEAN]

TypeOK ==
  /\ current \in 0 .. MaxOpens /\ generation \in Nat
  /\ lock \in Calls \cup {Nobody, Closer}
  /\ opens \in 0 .. MaxOpens
  /\ owner \in [Sessions -> {"none", "opening", "up", "stopping", "gone"}]
  /\ ready \subseteq Sessions /\ live \subseteq Sessions
  /\ call \in [Calls -> Task] /\ axed \subseteq Calls
  /\ answer \in [Calls -> {"none", "answer", "error", "cancelled"}]
  /\ closer \in {"idle", "locking", "closing", "shut", "finalizing", "stopped", "over"}
  /\ served \subseteq Sessions /\ broken \subseteq Sessions
  /\ sends \in [Calls -> Nat] /\ tried \in [Calls -> SUBSET Sessions]
  /\ faults \in 0 .. MaxFaults

Init ==
  /\ current = None /\ generation = 0 /\ lock = Nobody
  /\ opens = 0 /\ owner = [s \in Sessions |-> "none"]
  /\ ready = {} /\ live = {}
  /\ call = [c \in Calls |-> [at |-> "out", on |-> None, gen |-> 0, opened |-> FALSE, again |-> FALSE]]
  /\ axed = {} /\ answer = [c \in Calls |-> "none"]
  /\ closer = "idle"
  /\ served = {} /\ broken = {} /\ sends = [c \in Calls |-> 0] /\ tried = [c \in Calls |-> {}]
  /\ faults = 0

Fault(kind) == kind \in Faults /\ faults < MaxFaults /\ faults' = faults + 1

Closed  == closer # "idle"                     \* _closed
LoopRuns == closer \notin {"stopped", "over"}

At(c, pc) == call[c].at = pc
Goes(c, pc) == call' = [call EXCEPT ![c] = [call[c] EXCEPT !.at = pc]]

\* What the task comes to, unless its caller has gone.
Gives(c, a) == answer' = [answer EXCEPT ![c] = IF answer[c] = "none" THEN a ELSE answer[c]]
Ends(c, a)  == Goes(c, "done") /\ Gives(c, a) /\ axed' = axed \ {c}
GoesOn(c, pc) == Goes(c, pc) /\ UNCHANGED <<axed, answer>>

-----------------------------------------------------------------------------
(* The caller's side: roundtrip, in any thread.                            *)

\* _ensure_loop; a closed pool is an error.
Begin(c) ==
  /\ At(c, "out")
  /\ IF Closed THEN Ends(c, "error") ELSE GoesOn(c, "bridge")
  /\ UNCHANGED <<slot, session, closer, past, faults>>

\* run_coroutine_threadsafe: a callback for the loop, which raises only once
\* the loop has been closed.  Posted late, it may come after _finalize has
\* listed the tasks, or after the loop has stopped.
Post(c) ==
  /\ At(c, "bridge")
  /\ IF closer = "over" THEN Ends(c, "error") ELSE GoesOn(c, IF Closed THEN "late" ELSE "posted")
  /\ UNCHANGED <<slot, session, closer, past, faults>>

RunPosted(c) ==
  /\ LoopRuns /\ (At(c, "posted") \/ At(c, "late"))
  /\ GoesOn(c, IF At(c, "late") THEN "stray" ELSE "want")
  /\ UNCHANGED <<slot, session, closer, past, faults>>

\* The places where a task awaits something.
Awaits(c) == call[c].at \in {"stray", "want", "open", "sent", "failed", "close"}

\* The caller's turn is stopped: the future is cancelled, and the task with it.
Stop(c) ==
  /\ Fault("stop")
  /\ Awaits(c) \/ At(c, "posted")
  /\ answer[c] = "none"
  /\ axed' = axed \cup {c}
  /\ Gives(c, IF Closed THEN "error" ELSE "cancelled")
  /\ UNCHANGED <<slot, session, call, closer, past>>

\* The same for a call posted late: if its task starts at all, it is cancelled.
StopLate(c) ==
  /\ Fault("stop") /\ At(c, "late") /\ Ends(c, "error")
  /\ UNCHANGED <<slot, session, closer, past>>

-----------------------------------------------------------------------------
(* _acquire and the request.                                               *)

Sent(c, s, gen, opened) ==
  /\ call' = [call EXCEPT ![c] = [call[c] EXCEPT !.at = "sent", !.on = s, !.gen = gen, !.opened = opened]]
  /\ sends' = [sends EXCEPT ![c] = @ + 1]
  /\ tried' = [tried EXCEPT ![c] = @ \cup {s}]

Refused(c) ==
  /\ LoopRuns /\ (At(c, "want") \/ At(c, "stray")) /\ lock = Nobody /\ Closed
  /\ Ends(c, "error")
  /\ UNCHANGED <<slot, session, closer, past, faults>>

Reuse(c) ==
  /\ At(c, "want") /\ lock = Nobody /\ ~Closed /\ current # None
  /\ Sent(c, current, generation, FALSE)
  /\ UNCHANGED <<slot, session, axed, answer, closer, served, broken, faults>>

\* _open_locked creates the owner task and awaits `ready`.
Opens(c) ==
  /\ At(c, "want") /\ lock = Nobody /\ ~Closed /\ current = None /\ opens < MaxOpens
  /\ lock' = c /\ opens' = opens + 1
  /\ owner' = [owner EXCEPT ![opens + 1] = "opening"]
  /\ call' = [call EXCEPT ![c] = [call[c] EXCEPT !.at = "open", !.on = opens + 1]]
  /\ UNCHANGED <<current, generation, ready, live, axed, answer, closer, past, faults>>

Opened(c) ==
  /\ LoopRuns /\ At(c, "open") /\ call[c].on \in ready /\ lock' = Nobody
  /\ current' = call[c].on /\ generation' = generation + 1
  /\ served' = served \cup {call[c].on}
  /\ Sent(c, call[c].on, generation + 1, TRUE)
  /\ UNCHANGED <<session, axed, answer, closer, broken, faults>>

\* A slip in the open that fails: its owner is left to itself.
LeftAlone(s) == owner' = owner

\* stop.set(), and the owner task is cancelled.
ToldToStop(s) ==
  owner' = [owner EXCEPT ![s] = IF owner[s] \in {"opening", "up"} THEN "stopping" ELSE owner[s]]

\* The owner failed, or has not been ready for connect_timeout.
OpenFails(c) ==
  /\ LoopRuns /\ At(c, "open") /\ call[c].on \notin ready /\ lock' = Nobody
  /\ ToldToStop(call[c].on)
  /\ Ends(c, "error")
  /\ UNCHANGED <<current, generation, opens, ready, live, closer, past, faults>>

\* The server's answer, or its McpError.
Answers(c) ==
  /\ LoopRuns /\ At(c, "sent") /\ call[c].on \in live
  /\ Ends(c, "answer")
  /\ UNCHANGED <<slot, session, closer, past, faults>>

\* Any other exception counts as a dead session, though the server lives.
Raises(c) ==
  /\ Fault("raise") /\ LoopRuns /\ At(c, "sent") /\ call[c].on \in live
  /\ Goes(c, "failed") /\ broken' = broken \cup {call[c].on}
  /\ UNCHANGED <<slot, session, axed, answer, closer, served, sends, tried>>

\* CONNECTION_CLOSED, or a broken stream.
Fails(c) ==
  /\ LoopRuns /\ At(c, "sent") /\ call[c].on \notin live
  /\ Goes(c, "failed")
  /\ UNCHANGED <<slot, session, axed, answer, closer, past, faults>>

-----------------------------------------------------------------------------
(* _retire, and the one retry.                                             *)

\* A session that this call has just opened is not replaced by it.
TriesAgain(c) == ~call[c].opened /\ ~call[c].again

Onward(c) ==
  IF TriesAgain(c)
    THEN /\ call' = [call EXCEPT ![c] = [call[c] EXCEPT !.at = "want", !.again = TRUE]]
         /\ UNCHANGED <<axed, answer>>
    ELSE Ends(c, "error")

\* A slip in _retire: the generation is not compared.
AnyGeneration(c) == current # None

Mine(c) == generation = call[c].gen /\ current # None

\* _close_slot_locked: the slot is empty at once, its owner is awaited.
Empties == current' = None /\ ToldToStop(current)

Retire(c) ==
  /\ LoopRuns /\ At(c, "failed") /\ lock = Nobody /\ Mine(c)
  /\ lock' = c /\ Empties /\ Goes(c, "close")
  /\ UNCHANGED <<generation, opens, ready, live, axed, answer, closer, past, faults>>

AlreadyRetired(c) ==
  /\ LoopRuns /\ At(c, "failed") /\ lock = Nobody /\ ~Mine(c)
  /\ Onward(c)
  /\ UNCHANGED <<slot, session, closer, past, faults>>

\* The owner has gone, or has not in twice five seconds.
Retired(c) ==
  /\ LoopRuns /\ At(c, "close") /\ lock' = Nobody /\ Onward(c)
  /\ UNCHANGED <<current, generation, session, closer, past, faults>>

\* A cancelled task: whatever it awaits raises, and its lock is released.
Unwind(c) ==
  /\ LoopRuns /\ c \in axed /\ Awaits(c)
  /\ Ends(c, "error")
  /\ lock' = IF lock = c THEN Nobody ELSE lock
  /\ IF At(c, "open") THEN ToldToStop(call[c].on) ELSE UNCHANGED owner
  /\ UNCHANGED <<current, generation, opens, ready, live, closer, past, faults>>

-----------------------------------------------------------------------------
(* The owner task of a session and its server.                             *)

OwnerReady(s) ==
  /\ LoopRuns /\ owner[s] = "opening"
  /\ owner' = [owner EXCEPT ![s] = "up"]
  /\ ready' = ready \cup {s} /\ live' = live \cup {s}
  /\ UNCHANGED <<slot, opens, request, closer, past, faults>>

\* `finally`: a slot that is still this owner's is emptied.
Leaves(s) ==
  /\ owner' = [owner EXCEPT ![s] = "gone"] /\ live' = live \ {s}
  /\ current' = IF current = s THEN None ELSE current
  /\ UNCHANGED <<generation, lock, opens, ready, request, closer, served, sends, tried>>

OwnerFails(s) == Fault("refuse") /\ LoopRuns /\ owner[s] = "opening" /\ Leaves(s) /\ UNCHANGED broken

\* The transport breaks the context, or the owner was told to stop.
OwnerExits(s) ==
  /\ LoopRuns
  /\ \/ owner[s] = "up" /\ s \notin live
     \/ owner[s] = "stopping"
  /\ Leaves(s) /\ UNCHANGED <<broken, faults>>

Dies(s) ==
  /\ Fault("die") /\ s \in live
  /\ live' = live \ {s} /\ broken' = broken \cup {s}
  /\ UNCHANGED <<slot, opens, owner, ready, request, closer, served, sends, tried>>

-----------------------------------------------------------------------------
(* close().                                                                *)

Close ==
  /\ ~Closed
  /\ closer' = "locking"
  /\ UNCHANGED <<slot, session, request, past, faults>>

\* _shutdown on the loop.
Shut ==
  /\ closer = "locking" /\ lock = Nobody
  /\ closer' = "closing" /\ lock' = Closer
  /\ IF current = None THEN UNCHANGED <<current, owner>> ELSE Empties
  /\ UNCHANGED <<generation, opens, ready, live, request, past, faults>>

ShutDone ==
  /\ closer = "closing" /\ closer' = "shut" /\ lock' = Nobody
  /\ UNCHANGED <<current, generation, session, request, past, faults>>

\* _shutdown is done, or has taken its ten seconds: _finalize cancels every
\* task of the loop, the owners and _shutdown among them.
Finalize ==
  /\ closer \in {"locking", "closing", "shut"} /\ \A c \in Calls : ~At(c, "posted")
  /\ closer' = "finalizing"
  /\ axed' = axed \cup {c \in Calls : Awaits(c)}
  /\ owner' = [s \in Sessions |-> IF owner[s] \in {"opening", "up"} THEN "stopping" ELSE owner[s]]
  /\ lock' = IF lock = Closer THEN Nobody ELSE lock
  /\ UNCHANGED <<current, generation, opens, ready, live, call, answer, past, faults>>

\* A slip in _finalize: the loop is stopped as soon as the tasks are cancelled.
UnwoundOrNot == TRUE

\* The cancelled calls have unwound; an owner may take longer than five seconds.
Unwound == axed = {}

StopLoop ==
  /\ closer = "finalizing" /\ Unwound /\ closer' = "stopped"
  /\ UNCHANGED <<slot, session, request, past, faults>>

CloseLoop ==
  /\ closer = "stopped" /\ closer' = "over"
  /\ UNCHANGED <<slot, session, request, past, faults>>

-----------------------------------------------------------------------------
CallStep(c) ==
  \/ RunPosted(c) \/ Refused(c) \/ Reuse(c) \/ Opens(c) \/ Opened(c) \/ OpenFails(c)
  \/ Answers(c) \/ Raises(c) \/ Fails(c) \/ Retire(c) \/ AlreadyRetired(c) \/ Retired(c)
  \/ Unwind(c)

Next ==
  \/ \E c \in Calls : Begin(c) \/ Post(c) \/ Stop(c) \/ StopLate(c) \/ CallStep(c)
  \/ \E s \in Sessions : OwnerReady(s) \/ OwnerFails(s) \/ OwnerExits(s) \/ Dies(s)
  \/ Close \/ Shut \/ ShutDone \/ Finalize \/ StopLoop \/ CloseLoop

Spec == Init /\ [][Next]_vars

\* The loop runs what is ready, callers post what they have begun, and
\* close() goes on when its timeouts are over.  No server has to answer or to
\* come up, and nobody has to close the pool.
Fairness ==
  /\ \A c \in Calls : WF_vars(Post(c)) /\ WF_vars(RunPosted(c)) /\ WF_vars(Unwind(c))
  /\ WF_vars(Finalize) /\ WF_vars(StopLoop) /\ WF_vars(CloseLoop)

FairSpec == Spec /\ Fairness

-----------------------------------------------------------------------------
(* Properties.                                                             *)

\* A session that nobody has told to stop is the slot's, or a call is opening
\* it: whoever is cancelled, fails or closes meanwhile, no server is left
\* running that neither a retire nor a close would find.
NoOrphan ==
  \A s \in Sessions : owner[s] \in {"opening", "up"} =>
    current = s \/ \E c \in Calls : At(c, "open") /\ call[c].on = s

\* Of the sessions the slot has held, only broken ones are replaced, though
\* many calls fail on a dead one, early or late, and each wants it retired.
HealthyStays ==
  \A s \in served : (owner[s] = "up" /\ current = s) \/ s \in broken \/ Closed

\* A request is sent twice at most, and the second time on another session.
SentTwiceAtMost ==
  [][\A c \in Calls : sends'[c] # sends[c] =>
       sends'[c] <= 2 /\ call'[c].on \notin tried[c]]_vars

\* A call that passed _ensure_loop before close() began and was posted after
\* (mcp_session_pool.py:195-196), and that the loop has not served by its end:
\* nobody resolves its future, against lines 43-45 of the module's own text.
Stranded(c) == call[c].at \in {"late", "stray"} /\ ~LoopRuns

\* Once the pool is closed every call returns, save the stranded ones, though
\* servers do not answer, connects hang, locks are held and owners do not
\* unwind.
CloseFrees ==
  \A c \in Calls : (Closed /\ ~At(c, "out")) ~> (At(c, "done") \/ Stranded(c))
=============================================================================
