----------------------------- MODULE Background -----------------------------
(***************************************************************************)
(* Detached background jobs: the durable registry (background/store.py),   *)
(* the manager that fires them (background/manager.py), the A2A hooks that *)
(* settle and deliver them (server/a2a.py), and the per-session turn lock  *)
(* and drain that hand a report to the model (server/chat.py).             *)
(*                                                                         *)
(* Everything runs on one asyncio loop, so an action is the code between   *)
(* two awaits.  A report's text, prompts and headers are abstracted away.  *)
(***************************************************************************)
EXTENDS Naturals, FiniteSets, Sequences

CONSTANTS
  Jobs, Batches, Sessions,   \* job ids, fan-out keys, chat sessions
  NoBatch, NoSession,        \* no fan-out key; a blank or background: origin
  BatchOf, OriginOf,         \* each job's fan-out and originating session
  BatchOrigin,               \* the session whose turn emits a fan-out
  WorkJobs,                  \* jobs made by spawn_work: local coroutines
  IncognitoJobs,             \* jobs spawned from an incognito thread
  PanelJobs,                 \* jobs the operator cancels or dismisses
  MayHang,                   \* jobs whose turn or work may never end
  MaxConcurrency,            \* BACKGROUND_MAX_CONCURRENCY
  AutoResume, WakeEnabled,   \* background.auto_resume, BACKGROUND_WAKE
  Faults, MaxFaults          \* the fault kinds that occur, and how many

FaultKinds == {"delivery", "rpcError", "storeFault", "timeout", "nudge",
               "nudgeTimeout", "stall", "cancelRpc", "restart"}

ASSUME BackgroundAssumption ==
  /\ IsFiniteSet(Jobs)
  /\ Jobs \cap Batches = {} /\ NoBatch \notin Batches /\ NoSession \notin Sessions
  /\ BatchOf \in [Jobs -> Batches \cup {NoBatch}]
  /\ OriginOf \in [Jobs -> Sessions \cup {NoSession}]
  /\ BatchOrigin \in [Batches -> Sessions]
  /\ WorkJobs \subseteq Jobs /\ IncognitoJobs \subseteq Jobs /\ PanelJobs \subseteq Jobs
  /\ MaxConcurrency \in Nat \ {0} /\ MaxFaults \in Nat
  /\ AutoResume \in BOOLEAN /\ WakeEnabled \in BOOLEAN
  /\ Faults \subseteq FaultKinds

\* One turn emits a whole fan-out, so its jobs share session and incognito.
ASSUME BatchAssumption ==
  \A i, j \in Jobs : BatchOf[i] # NoBatch =>
    /\ OriginOf[i] = BatchOrigin[BatchOf[i]]
    /\ BatchOf[i] = BatchOf[j] => (i \in IncognitoJobs <=> j \in IncognitoJobs)

VARIABLES
  row, notified, taskId, dismissed,  \* jobs.db: status and flags of each row
  fire,       \* the manager's task for a job, holding a semaphore slot or not
  turn,       \* the detached turn of a job, in the A2A server
  canceling,  \* jobs with a CancelTask request in flight
  resume,     \* the delivery task a terminal hook scheduled for a job
  joined,     \* _joined_batches
  timer,      \* _batch_timeouts: the straggler timer of a fan-out
  nudge,      \* the push-resume turn named after a job or a fan-out
  live,       \* sessions whose lock an operator's turn holds
  fanout,     \* whether the turn that emits a fan-out has begun, has ended
  events,     \* history: the background.completed events of each job
  reported,   \* history: the status the drain handed to the model
  pushes,     \* history: how many push-resumes were posted under each name
  woken,      \* history: jobs for which the Activity wake was requested
  faults      \* how many faults have occurred

durable == <<row, notified, taskId, dismissed>>
worker  == <<fire, turn, canceling>>
push    == <<resume, joined, timer, nudge>>
chat    == <<live, fanout>>
history == <<events, reported, pushes, woken>>
vars    == <<durable, worker, push, chat, history, faults>>

Terminal == {"completed", "failed", "canceled"}
Nudges   == Jobs \cup Batches

TypeOK ==
  /\ row \in [Jobs -> {"none", "running"} \cup Terminal]
  /\ notified \in [Jobs -> BOOLEAN] /\ taskId \in [Jobs -> BOOLEAN]
  /\ dismissed \in [Jobs -> BOOLEAN]
  /\ fire \in [Jobs -> {"none", "queued", "posted", "unwinding", "done"}]
  /\ turn \in [Jobs -> {"none", "running", "ended"}]
  /\ canceling \subseteq Jobs
  /\ resume \in [Jobs -> {"none", "scheduled", "nudging", "joining", "held", "dropped",
                        "done", "undelivered", "abandoned"}]
  /\ joined \subseteq Batches
  /\ timer \in [Batches -> {"off", "armed"}]
  /\ nudge \in [Nudges -> {"none", "waiting", "active", "ended", "failed"}]
  /\ live \subseteq Sessions
  /\ fanout \in [Batches -> {"unborn", "open", "closed"}]
  /\ events \in [Jobs -> Seq(Terminal)]
  /\ reported \in [Jobs -> {"none"} \cup Terminal]
  /\ pushes \in [Nudges -> Nat]
  /\ woken \subseteq Jobs
  /\ faults \in 0 .. MaxFaults

Init ==
  /\ row = [j \in Jobs |-> "none"]
  /\ notified = [j \in Jobs |-> FALSE] /\ taskId = [j \in Jobs |-> FALSE]
  /\ dismissed = [j \in Jobs |-> FALSE]
  /\ fire = [j \in Jobs |-> "none"] /\ turn = [j \in Jobs |-> "none"]
  /\ canceling = {}
  /\ resume = [j \in Jobs |-> "none"] /\ joined = {}
  /\ timer = [b \in Batches |-> "off"] /\ nudge = [n \in Nudges |-> "none"]
  /\ live = {} /\ fanout = [b \in Batches |-> "unborn"]
  /\ events = [j \in Jobs |-> << >>] /\ reported = [j \in Jobs |-> "none"]
  /\ pushes = [n \in Nudges |-> 0] /\ woken = {}
  /\ faults = 0

Fault(kind) == kind \in Faults /\ faults < MaxFaults /\ faults' = faults + 1

-----------------------------------------------------------------------------
(* Registry and session helpers.                                           *)

\* A slip in mark_complete: no test of the old status.
MarkCompleteAlways(j, st) == row' = [row EXCEPT ![j] = st]

\* mark_complete: UPDATE ... WHERE status = 'running'.
MarkComplete(j, st) == row' = IF row[j] = "running" THEN [row EXCEPT ![j] = st] ELSE row

NudgeSession(n) == IF n \in Jobs THEN OriginOf[n] ELSE BatchOrigin[n]

LockFree(s) == /\ s \notin live
               /\ \A n \in Nudges : nudge[n] = "active" => NudgeSession(n) # s

Pending(s) == {j \in Jobs : OriginOf[j] = s /\ row[j] \in Terminal /\ ~notified[j]}

\* drain_pending: the select and the flip are one transaction.
Drain(s) ==
  /\ notified' = [j \in Jobs |-> notified[j] \/ j \in Pending(s)]
  /\ reported' = [j \in Jobs |-> IF j \in Pending(s) THEN row[j] ELSE reported[j]]

\* The tool calls of an emitting message have returned when its turn ends.
CloseFanouts(s) ==
  fanout' = [b \in Batches |-> IF BatchOrigin[b] = s /\ fanout[b] = "open"
                               THEN "closed" ELSE fanout[b]]

ShouldAutoResume(j, st) ==
  AutoResume /\ st # "canceled" /\ OriginOf[j] \in Sessions /\ j \notin IncognitoJobs

Wake(j) == woken' = IF WakeEnabled THEN woken \cup {j} ELSE woken

\* A slip in the hooks: the wake is not the else branch.
DeliverTwice(j, st) ==
  /\ resume' = IF ShouldAutoResume(j, st) THEN [resume EXCEPT ![j] = "scheduled"] ELSE resume
  /\ Wake(j)

\* The tail of both terminal hooks: a push-resume task, or else the wake.
Deliver(j, st) ==
  \/ /\ ShouldAutoResume(j, st)
     /\ resume' = [resume EXCEPT ![j] = "scheduled"] /\ UNCHANGED woken
  \/ ~ShouldAutoResume(j, st) /\ Wake(j) /\ UNCHANGED resume

-----------------------------------------------------------------------------
(* Spawning and firing.                                                    *)

\* spawn / spawn_work: the row is running before the task has a slot.  The
\* members of a fan-out come from one turn, which holds its session's lock.
Spawn(j) ==
  /\ row[j] = "none"
  /\ LET b == BatchOf[j] IN
       IF b = NoBatch THEN UNCHANGED fanout
       ELSE /\ ~LockFree(BatchOrigin[b]) /\ fanout[b] # "closed"
            /\ fanout' = [fanout EXCEPT ![b] = "open"]
  /\ row' = [row EXCEPT ![j] = "running"]
  /\ fire' = [fire EXCEPT ![j] = "queued"]
  /\ UNCHANGED <<notified, taskId, dismissed, turn, canceling, push, live, history, faults>>

Slots == {j \in Jobs : fire[j] \in {"posted", "unwinding"}}

\* async with self._sem: the slot is held until the turn or the work is over.
AcquireSlot(j) ==
  /\ fire[j] = "queued" /\ Cardinality(Slots) < MaxConcurrency
  /\ fire' = [fire EXCEPT ![j] = "posted"]
  /\ UNCHANGED <<durable, turn, canceling, push, chat, history, faults>>

\* The server accepts the POST; turn_started records the task id once.
TurnStarts(j) ==
  /\ j \notin WorkJobs /\ fire[j] = "posted" /\ turn[j] = "none"
  /\ turn' = [turn EXCEPT ![j] = "running"]
  /\ taskId' = [taskId EXCEPT ![j] = TRUE]
  /\ UNCHANGED <<row, notified, dismissed, fire, canceling, push, chat, history, faults>>

\* The POST answers once the turn is over; _fire does nothing more.
FireReturns(j) ==
  /\ fire[j] = "posted" /\ turn[j] = "ended"
  /\ fire' = [fire EXCEPT ![j] = "done"]
  /\ UNCHANGED <<durable, turn, canceling, push, chat, history, faults>>

\* A slip in _fire: a failed delivery is only logged.
FireFailsSilently(j) ==
  /\ j \notin WorkJobs /\ fire[j] = "posted" /\ turn[j] = "none" /\ Fault("delivery")
  /\ fire' = [fire EXCEPT ![j] = "done"]
  /\ UNCHANGED <<durable, turn, canceling, push, chat, history>>

\* An HTTP error or a refused connection before the turn began.
FireFails(j) ==
  /\ j \notin WorkJobs /\ fire[j] = "posted" /\ turn[j] = "none" /\ Fault("delivery")
  /\ fire' = [fire EXCEPT ![j] = "done"]
  /\ MarkComplete(j, "failed")
  /\ UNCHANGED <<notified, taskId, dismissed, turn, canceling, push, chat, history>>

\* The client gives up on a long turn; the server goes on running it.
FireTimesOut(j) ==
  /\ fire[j] = "posted" /\ turn[j] = "running" /\ Fault("timeout")
  /\ fire' = [fire EXCEPT ![j] = "done"]
  /\ MarkComplete(j, "failed")
  /\ UNCHANGED <<notified, taskId, dismissed, turn, canceling, push, chat, history>>

\* A JSON-RPC error rides a 200: _send_a2a_message returns as on success.
FireRefused(j) ==
  /\ j \notin WorkJobs /\ fire[j] = "posted" /\ turn[j] = "none" /\ Fault("rpcError")
  /\ fire' = [fire EXCEPT ![j] = "done"]
  /\ UNCHANGED <<durable, turn, canceling, push, chat, history>>

-----------------------------------------------------------------------------
(* Settling.                                                               *)

\* _handle_background_terminal: settle (a no-op on a settled row), publish
\* what the turn said, and deliver on what the row says.
TurnEnds(j, st) ==
  /\ turn[j] = "running" /\ (st = "canceled" => j \in PanelJobs)
  /\ turn' = [turn EXCEPT ![j] = "ended"]
  /\ MarkComplete(j, st)
  /\ events' = [events EXCEPT ![j] = Append(@, st)]
  /\ Deliver(j, row'[j])
  /\ UNCHANGED <<notified, taskId, dismissed, fire, canceling, joined, timer, nudge,
                 chat, reported, pushes, faults>>

\* The hook's own write to jobs.db fails: it logs and returns.
TurnEndsUnsettled(j) ==
  /\ turn[j] = "running" /\ Fault("storeFault")
  /\ turn' = [turn EXCEPT ![j] = "ended"]
  /\ UNCHANGED <<durable, fire, canceling, push, chat, history>>

\* _run_work after the coroutine returned or raised.
WorkEnds(j, st) ==
  /\ j \in WorkJobs /\ fire[j] = "posted" /\ st # "canceled"
  /\ fire' = [fire EXCEPT ![j] = "done"]
  /\ MarkComplete(j, st)
  /\ \/ /\ row[j] = "running"
        /\ events' = [events EXCEPT ![j] = Append(@, st)] /\ Deliver(j, st)
     \/ row[j] # "running" /\ UNCHANGED <<events, resume, woken>>
  /\ UNCHANGED <<notified, taskId, dismissed, turn, canceling, joined, timer, nudge,
                 chat, reported, pushes, faults>>

WorkEndsUnsettled(j) ==
  /\ j \in WorkJobs /\ fire[j] = "posted" /\ Fault("storeFault")
  /\ fire' = [fire EXCEPT ![j] = "done"]
  /\ UNCHANGED <<durable, turn, canceling, push, chat, history>>

-----------------------------------------------------------------------------
(* The operator's panel: cancel and dismiss.                               *)

WorkTaskAlive(j) == j \in WorkJobs /\ fire[j] \in {"queued", "posted"}

\* cancel of a work job: cancel the task, settle, publish, without an await.
CancelWork(j) ==
  /\ row[j] = "running" /\ WorkTaskAlive(j)
  /\ fire' = [fire EXCEPT ![j] = IF @ = "queued" THEN "done" ELSE "unwinding"]
  /\ row' = [row EXCEPT ![j] = "canceled"]
  /\ events' = [events EXCEPT ![j] = Append(@, "canceled")]
  /\ UNCHANGED <<notified, taskId, dismissed, turn, canceling, push, chat,
                 reported, pushes, woken, faults>>

\* A slip in _run_work: a work that swallowed its cancel is announced again.
WorkUnwindsLoudly(j) ==
  /\ fire[j] = "unwinding"
  /\ fire' = [fire EXCEPT ![j] = "done"]
  /\ events' = [events EXCEPT ![j] = Append(@, "completed")]
  /\ UNCHANGED <<durable, turn, canceling, push, chat, reported, pushes, woken, faults>>

\* The CancelledError reaches the coroutine, or the coroutine swallows it and
\* returns: either way _run_work announces nothing, and frees the slot.
WorkUnwinds(j) ==
  /\ fire[j] = "unwinding"
  /\ fire' = [fire EXCEPT ![j] = "done"]
  /\ UNCHANGED <<durable, turn, canceling, push, chat, history, faults>>

\* cancel before turn_started: the row settles, the turn is left to run.
CancelUnannounced(j) ==
  /\ row[j] = "running" /\ ~WorkTaskAlive(j) /\ ~taskId[j]
  /\ row' = [row EXCEPT ![j] = "canceled"]
  /\ UNCHANGED <<notified, taskId, dismissed, worker, push, chat, history, faults>>

\* cancel of an announced turn posts CancelTask and awaits its answer.
CancelRequest(j) ==
  /\ row[j] = "running" /\ ~WorkTaskAlive(j) /\ taskId[j]
  /\ canceling' = canceling \cup {j}
  /\ UNCHANGED <<durable, fire, turn, push, chat, history, faults>>

\* The answer comes once the turn is over, or with an error while it is not.
CancelSettles(j) ==
  /\ j \in canceling
  /\ canceling' = canceling \ {j}
  /\ IF turn[j] = "running" THEN Fault("cancelRpc") ELSE UNCHANGED faults
  /\ MarkComplete(j, "canceled")
  /\ UNCHANGED <<notified, taskId, dismissed, fire, turn, push, chat, history>>

\* dismiss and dismiss_finished: a soft flag on rows that are not running.
Dismiss(S) ==
  /\ S # {} /\ \A j \in S : row[j] \in Terminal /\ ~dismissed[j]
  /\ dismissed' = [j \in Jobs |-> dismissed[j] \/ j \in S]
  /\ UNCHANGED <<row, notified, taskId, worker, push, chat, history, faults>>

-----------------------------------------------------------------------------
(* Push-resume: resume_for_terminal, the fan-out join, the straggler timer.*)

Siblings(j) == {i \in Jobs : BatchOf[i] = BatchOf[j] /\ row[i] # "none"}

Singleton(j) == BatchOf[j] = NoBatch \/ Siblings(j) \subseteq {j}

Outstanding(j) == \E i \in Siblings(j) : row[i] = "running"

\* A slip in _claim_batch: every caller wins.
NeverClaimed(b) == FALSE

\* _claim_batch: check and set without an await, so one caller wins.
Claimed(b) == b \in joined

\* A slip in _ensure_batch_timeout: no timer is armed.
NoTimer(b) == UNCHANGED timer

EnsureTimer(b) == timer' = IF Claimed(b) THEN timer ELSE [timer EXCEPT ![b] = "armed"]

PostNudge(n) == /\ nudge' = [nudge EXCEPT ![n] = "waiting"]
                /\ pushes' = [pushes EXCEPT ![n] = @ + 1]

ResumeSingleton(j) ==
  /\ resume[j] = "scheduled" /\ Singleton(j)
  /\ resume' = [resume EXCEPT ![j] = "nudging"]
  /\ PostNudge(j)
  /\ UNCHANGED <<durable, worker, joined, timer, chat, events, reported, woken, faults>>

\* A sibling still runs: arm the timer, unless armed or already joined.
HoldForSiblings(j) ==
  LET b == BatchOf[j] IN
  /\ resume[j] = "scheduled" /\ ~Singleton(j) /\ Outstanding(j)
  /\ resume' = [resume EXCEPT ![j] = IF Claimed(b) THEN "dropped" ELSE "held"]
  /\ EnsureTimer(b)
  /\ UNCHANGED <<durable, worker, joined, nudge, chat, history, faults>>

\* The last member: claim the join and post it, or find it already claimed.
JoinBatch(j) ==
  LET b == BatchOf[j] IN
  /\ resume[j] = "scheduled" /\ ~Singleton(j) /\ ~Outstanding(j)
  /\ \/ /\ Claimed(b)
        /\ resume' = [resume EXCEPT ![j] = "dropped"]
        /\ UNCHANGED <<joined, timer, nudge, pushes>>
     \/ /\ ~Claimed(b)
        /\ resume' = [resume EXCEPT ![j] = "joining"]
        /\ joined' = joined \cup {b}
        /\ timer' = [timer EXCEPT ![b] = "off"]
        /\ PostNudge(b)
  /\ UNCHANGED <<durable, worker, chat, events, reported, woken, faults>>

\* The timer elapses: claim the join for the members settled so far.
Straggle(b) ==
  /\ timer[b] = "armed"
  /\ timer' = [timer EXCEPT ![b] = "off"]
  /\ \/ Claimed(b) /\ UNCHANGED <<joined, nudge, pushes>>
     \/ ~Claimed(b) /\ joined' = joined \cup {b} /\ PostNudge(b)
  /\ UNCHANGED <<durable, worker, resume, chat, events, reported, woken, faults>>

-----------------------------------------------------------------------------
(* Turns of the origin session, one at a time under its lock.              *)

NudgeTurnStarts(n) ==
  /\ nudge[n] = "waiting" /\ LockFree(NudgeSession(n))
  /\ nudge' = [nudge EXCEPT ![n] = "active"]
  /\ Drain(NudgeSession(n))
  /\ UNCHANGED <<row, taskId, dismissed, worker, resume, joined, timer, chat,
                 events, pushes, woken, faults>>

NudgeTurnEnds(n) ==
  /\ nudge[n] = "active"
  /\ nudge' = [nudge EXCEPT ![n] = "ended"]
  /\ CloseFanouts(NudgeSession(n))
  /\ UNCHANGED <<durable, worker, resume, joined, timer, live, history, faults>>

\* The nudge's POST is refused: no turn runs.
NudgeFails(n) ==
  /\ nudge[n] = "waiting" /\ Fault("nudge")
  /\ nudge' = [nudge EXCEPT ![n] = "failed"]
  /\ UNCHANGED <<durable, worker, resume, joined, timer, chat, history>>

\* A turn that waits for the lock emits nothing, so the stall guard ends it
\* before it drains; its POST still answers 200.
NudgeStalls(n) ==
  /\ nudge[n] = "waiting" /\ ~LockFree(NudgeSession(n)) /\ Fault("stall")
  /\ nudge' = [nudge EXCEPT ![n] = "ended"]
  /\ UNCHANGED <<durable, worker, resume, joined, timer, chat, history>>

NudgeOf(j) == IF resume[j] = "joining" THEN BatchOf[j] ELSE j

\* The delivery task's POST answers, or was refused: then the wake stands in.
NudgeDelivered(j) ==
  /\ resume[j] \in {"nudging", "joining"} /\ nudge[NudgeOf(j)] = "ended"
  /\ resume' = [resume EXCEPT ![j] = "done"]
  /\ UNCHANGED <<durable, worker, joined, timer, nudge, chat, history, faults>>

NudgeUndelivered(j) ==
  /\ resume[j] \in {"nudging", "joining"} /\ nudge[NudgeOf(j)] = "failed"
  /\ resume' = [resume EXCEPT ![j] = "undelivered"]
  /\ Wake(j)
  /\ UNCHANGED <<durable, worker, joined, timer, nudge, chat, events, reported, pushes, faults>>

\* The delivery task's client gives up while the turn waits or runs.
NudgeTimesOut(j) ==
  /\ resume[j] \in {"nudging", "joining"} /\ nudge[NudgeOf(j)] \in {"waiting", "active"}
  /\ Fault("nudgeTimeout")
  /\ resume' = [resume EXCEPT ![j] = "abandoned"]
  /\ Wake(j)
  /\ UNCHANGED <<durable, worker, joined, timer, nudge, chat, events, reported, pushes>>

\* An operator's turn drains if it is fresh; the answer to a parked form
\* resumes the graph without draining.
OperatorTurnStarts(s, fresh) ==
  /\ LockFree(s)
  /\ live' = live \cup {s}
  /\ IF fresh THEN Drain(s) ELSE UNCHANGED <<notified, reported>>
  /\ UNCHANGED <<row, taskId, dismissed, worker, push, fanout, events, pushes, woken, faults>>

OperatorTurnEnds(s) ==
  /\ s \in live
  /\ live' = live \ {s}
  /\ CloseFanouts(s)
  /\ UNCHANGED <<durable, worker, push, history, faults>>

\* A goal continuation is another pass of the turn that holds the lock.
ContinuationDrains(s) ==
  /\ ~LockFree(s) /\ Pending(s) # {}
  /\ Drain(s)
  /\ UNCHANGED <<row, taskId, dismissed, worker, push, chat, events, pushes, woken, faults>>

-----------------------------------------------------------------------------
\* The process dies and starts again: reconcile_interrupted, and every task,
\* timer, claim and turn is gone.
Restart ==
  /\ Fault("restart")
  /\ row' = [j \in Jobs |-> IF row[j] = "running" THEN "failed" ELSE row[j]]
  /\ fire' = [j \in Jobs |-> "none"] /\ turn' = [j \in Jobs |-> "none"]
  /\ canceling' = {}
  /\ resume' = [j \in Jobs |-> "none"] /\ joined' = {}
  /\ timer' = [b \in Batches |-> "off"] /\ nudge' = [n \in Nudges |-> "none"]
  /\ live' = {}
  /\ fanout' = [b \in Batches |-> IF fanout[b] = "open" THEN "closed" ELSE fanout[b]]
  /\ UNCHANGED <<notified, taskId, dismissed, history>>

JobNext(j) ==
  \/ Spawn(j) \/ AcquireSlot(j) \/ TurnStarts(j) \/ FireReturns(j)
  \/ FireFails(j) \/ FireTimesOut(j) \/ FireRefused(j)
  \/ \E st \in Terminal : TurnEnds(j, st) \/ WorkEnds(j, st)
  \/ TurnEndsUnsettled(j) \/ WorkEndsUnsettled(j) \/ WorkUnwinds(j)
  \/ ResumeSingleton(j) \/ HoldForSiblings(j) \/ JoinBatch(j)
  \/ NudgeDelivered(j) \/ NudgeUndelivered(j) \/ NudgeTimesOut(j)

PanelNext ==
  \/ \E j \in PanelJobs : CancelWork(j) \/ CancelUnannounced(j) \/ CancelRequest(j)
                          \/ CancelSettles(j)
  \/ \E S \in SUBSET PanelJobs : Dismiss(S)

SessionNext ==
  \/ \E n \in Nudges : NudgeTurnStarts(n) \/ NudgeTurnEnds(n) \/ NudgeFails(n) \/ NudgeStalls(n)
  \/ \E s \in Sessions : \/ \E fresh \in BOOLEAN : OperatorTurnStarts(s, fresh)
                         \/ OperatorTurnEnds(s) \/ ContinuationDrains(s)

Next == \/ \E j \in Jobs : JobNext(j)
        \/ \E b \in Batches : Straggle(b)
        \/ PanelNext \/ SessionNext \/ Restart

Spec == Init /\ [][Next]_vars

(* Fairness.  The loop runs every ready task and the thread lock is FIFO,   *)
(* so a nudge that waits is served; a turn of a chat session ends (the      *)
(* stall guard ends it otherwise).  A job's own turn or work ends, but for  *)
(* the jobs of MayHang, which may hang forever.                             *)

DeliveryFairness ==
  /\ \A j \in Jobs : /\ WF_vars(ResumeSingleton(j)) /\ WF_vars(HoldForSiblings(j))
                     /\ WF_vars(JoinBatch(j)) /\ WF_vars(NudgeDelivered(j))
  /\ \A b \in Batches : WF_vars(Straggle(b))
  /\ \A n \in Nudges : SF_vars(NudgeTurnStarts(n)) /\ WF_vars(NudgeTurnEnds(n))
  /\ \A s \in Sessions : WF_vars(OperatorTurnEnds(s))

JobFairness ==
  /\ \A j \in Jobs : /\ WF_vars(AcquireSlot(j)) /\ WF_vars(TurnStarts(j))
                     /\ WF_vars(FireReturns(j)) /\ WF_vars(WorkUnwinds(j))
  /\ \A j \in Jobs \ MayHang : /\ WF_vars(\E st \in Terminal : TurnEnds(j, st))
                               /\ WF_vars(\E st \in Terminal : WorkEnds(j, st))

FairSpec == Spec /\ DeliveryFairness /\ JobFairness

-----------------------------------------------------------------------------
(* Safety.                                                                 *)

\* What the model was told of a job is what its row says, for good: no late
\* hook, cancel, delivery error or restart changes the outcome of a job once
\* a drain has handed it over.
ReportIsFinal == \A j \in Jobs : /\ notified[j] <=> reported[j] # "none"
                                 /\ notified[j] => reported[j] = row[j]

\* No more tasks are past the semaphore than BACKGROUND_MAX_CONCURRENCY, work
\* that is being unwound included.
SlotCap == Cardinality(Slots) <= MaxConcurrency

\* A running row has a task or a turn that will settle it, so a job can never
\* stick on running.
RunningHasOwner ==
  \A j \in Jobs : row[j] = "running" =>
    fire[j] = "queued" \/ (fire[j] = "posted" /\ turn[j] # "ended") \/ turn[j] = "running"

\* spawn_work announces each job once, and announces what the row says, even
\* when a cancel meets the end of the work.
WorkAnnouncedOnce == \A j \in WorkJobs : /\ Len(events[j]) <= 1
                                         /\ events[j] # << >> => events[j] = << row[j] >>

\* A fan-out is pushed at most once, and so is a job on its own, whatever
\* order the members, the straggler timer and a restart come in.
PushedOnce == \A n \in Nudges : pushes[n] <= 1

\* A completion held back for its siblings has a timer or a posted join that
\* will bring it to the model, until a turn has drained it.
HeldIsCovered ==
  \A j \in Jobs : resume[j] = "held" /\ ~notified[j] =>
    timer[BatchOf[j]] = "armed" \/ nudge[BatchOf[j]] = "waiting"

\* The name under which the push-resume of a job was posted.
Posted(j) == IF pushes[j] > 0 THEN j ELSE BatchOf[j]

\* Never both the Activity wake and a push-resume for one completion
\* (server/a2a.py:835-840): one that has woken Activity was not pushed and never
\* will be, or its push was refused and ran no turn; except that a client that
\* gives up on a push wakes Activity although the turn it posted still runs.
NeverBoth ==
  \A j \in woken : \/ resume[j] = "none" /\ nudge[j] = "none"
                   \/ resume[j] = "undelivered" /\ nudge[Posted(j)] = "failed"
                   \/ resume[j] = "abandoned"

-----------------------------------------------------------------------------
(* Steps.                                                                  *)

\* A settled row keeps its status, and a drained one is never handed out again.
SettledForGood ==
  [][\A j \in Jobs : /\ row[j] \in Terminal => row'[j] = row[j]
                     /\ notified[j] => notified'[j] /\ reported'[j] = reported[j]]_vars

-----------------------------------------------------------------------------
(* Liveness.                                                               *)

\* Every accepted job settles, unless its own turn or work hangs, even while a
\* sibling that hangs keeps its slot.
RunningSettles == \A j \in Jobs \ MayHang : row[j] = "running" ~> row[j] \in Terminal

Delivery == INSTANCE BackgroundDelivery WITH status <- row, told <- {j \in Jobs : notified[j]}

\* The registry, with all its settlers and drains, keeps the promise.
DeliverySafe == Delivery!Spec
=============================================================================
