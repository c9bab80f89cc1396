# protoAgent: formal models

TLA+ models of protoAgent, an agent server in Python: one asyncio loop that runs chat turns,
detached jobs, a scheduler, polled watches, goals and workflows, with SQLite and JSON files as its memory and
worker threads for everything that blocks. The models are checked on small instances with TLC, and
theorems about them are proved with TLAPS. Source paths below are relative to `src/`.

Contents: [the system](#1-the-system) · [plan](#2-plan) · [modules and code](#3-modules-and-the-code-they-model)
· [runs](#4-runs) · [bounds](#5-bounds) · [fairness](#6-fairness) · [proofs](#7-proofs)
· [disagreements](#8-where-code-and-words-disagree) · [left out](#9-what-is-left-out)

## 1. The system

Everything in the server process runs on one asyncio loop, so code between two `await`s is atomic
with respect to other coroutines. It is *not* atomic with respect to worker threads (`asyncio.to_thread`,
the sync tools, the console's handlers), to another process on the same files, to a browser, or to a crash.
These are where the models interleave. (One subsystem, the MCP session pool, has a loop and a thread of its own.)

### Components with a state machine of their own

| component | state | operations | interacts through | what is hard | what makes it correct |
|---|---|---|---|---|---|
| **background jobs** `background/store.py`, `background/manager.py` | rows of `jobs.db` (status, `notified`, `dismissed`, task id); in memory: fire tasks, semaphore, `_joined_batches`, straggler timers | `spawn`, `spawn_work`, `_fire`, `cancel`, `dismiss`, `resume_for_terminal`, `resume_origin_batch`, `reconcile_interrupted` | self-POSTs to the A2A server; its terminal hook settles rows; the chat driver drains reports | six settlers of one row; fan-out join against timer; client timeouts of turns that run on; restarts | a row settles once and its outcome is handed over once; a running row has somebody who will settle it; a held report is released |
| **A2A hooks** `server/a2a.py` | none of its own | `_a2a_progress`, `_handle_background_terminal`, push-resume or wake | called by the executor; calls the manager | the job's row may have been settled by somebody else | a completion resumes its session or wakes Activity, not both |
| **chat driver** `server/chat.py` | one lock per thread; the interrupts of a checkpoint | turns under the lock, drain of reports, goal continuation, hold, resume, auto-answer, retry | drains `jobs.db`; evaluates goals; feeds the steering queue | turns compete for the lock; a turn may park on a question | only a turn of the session hands out its reports; a question is not abandoned for a message |
| **conversation** `a2a_impl/executor.py`, `graph/steering.py`, `graph/middleware/steering.py`, `operator_api/chat_routes.py`, `ChatSurface.tsx` | the steering queue; the tab's bubbles, form, streams and requests | send, steer, withdraw, answer, stop, turn-end check; complete, park, fail, stall, cancel | HTTP requests of a tab; A2A tasks | requests arrive late; the check is a read followed by a decision | what is typed reaches the model, waits, or is known to have failed |
| **scheduler** `scheduler/local.py` | `jobs` table, lock file, `_inflight_ids`, fire tasks | add, update, cancel, tick, claim, settle, recover missed, stop | self-POSTs; tools and console edit the table from worker threads | a fire settles minutes after its claim; two instances on one file | one fire of a job at a time, no slot twice, a one-shot runs once, limits hold |
| **watches** `graph/watches/` | a JSON file per watch, locks per id | create, update, clear, prune, `tick_all`, `evaluate` | verifiers; reactions (a turn, hooks) | read, await the verifier, write; edits meanwhile | no edit is lost; edges fire once; deadlines end what never fires |
| **goals** `graph/goals/` | a JSON file per session | set, evaluate, abandon, re-arm, resume, clear | chat driver, verifiers, hooks | read, await, write the whole state; drives that pause and are re-entered | the budget is kept and the end told once as far as no update is lost, every drive ends |
| **workflows** `plugins/workflows/` | a record per run; waves of steps | run, gate, park, approve, reject, resume in background | subagents, console, chat | wave barrier, timeouts, two resumes of one run | a step runs once, after its dependencies, and never past its gate |
| **inbox** `inbox/store.py`, `operator_api/console_handlers.py` 703-837 | `inbox.db`, `StormGuard` window | add, list, deliver, immediate fire, take back, dismiss, prune | self-POST, event bus, Activity turn | delivered before fired; taken back after a timeout although the turn runs | an item waits, is in a turn or was read; what waits was announced |
| **event bus** `events/bus.py`, `operator_api/routes.py` 78-104, `lib/events.ts` | sequence number, ring, a queue per subscriber; the console's cursor | publish (also off the loop), subscribe with a cursor, reconnect | SSE | replay against live events; overflow; numbers restart | a console sees every retained event in order and once, unless it is overtaken |
| **MCP session pool** `tools/mcp_session_pool.py` | a slot per server: generation, lock, owner task | round trip, open, retire, retry, Stop, close | callers of other threads | a dead session is retired by many callers; close at any time | no orphan, no healthy session replaced, close frees every caller it can find |
| **fleet supervisor, workspaces** `graph/fleet/`, `graph/workspaces/` | state file, pids, ports | start, stop, reap | child processes | pids and ports | not modelled: mostly behaviour of processes |
| **device pairing, consent** `security/devices.py`, `ops/consent.py` | codes in memory, device file; grants | start, claim, revoke; plan, approve, consume | console routes | – | not modelled: each operation is one step of the loop |

### Components without one, or out of reach

Delegates and coding agents (adapters to external processes), the agent graph apart from steering (the
model and LangGraph decide the steps), checkpoint edits (the checkpointer is a library),
plugin loader / skills / configuration, knowledge and ingestion, tasks and activity (single-statement
tables), rate limiting and enforcement, the rest of the operator API and console, runtime and tools, sites, evaluations,
scripts and docs. `PROJECT.json` gives the reason for each.

### How the components meet

```
 tools, console, plugins ──(worker threads)──► scheduler table, watch and goal files, jobs.db
 scheduler loop ──self-POST──► A2A executor ──► chat driver (thread lock) ──► model
 background manager ──self-POST──► A2A executor ──terminal hook──► a2a.py ──► manager (push-resume)
 webhook ──► inbox ──self-POST──► A2A executor                    └─────► Activity wake
 chat driver ──drain──► background store        watches ──_react──► a turn, hooks
 chat driver ──evaluate──► goals ──continue──► chat driver
 tab ──message, answer, stop──► A2A executor;  tab ──steer──► queue ──before_model──► model
 every component ──publish──► event bus ──SSE──► tab
```

## 2. Plan

Order: what loses or repeats work first.

| # | module | composes | status |
|---|---|---|---|
| 1 | `BackgroundDelivery`: what the registry promises | – | done |
| 2 | `Background`: store, manager, hooks, session lock and drain | refines 1 | done, ten theorems |
| 3 | `Scheduler`: table, instances, ticks, fires | – | done, eight theorems |
| 4 | `Watches`: files, per-id locks, ticks, evaluations | – | done, six theorems |
| 5 | `Workflows`: recipes, waves, gates, records, resumes | – | done, five theorems |
| 6 | `Goals`: drives of the chat driver and the controller across its await | chat driver's lock, one-shots of 3 | done, four theorems |
| 7 | `Inbox`: intake, immediate fire, storm guard, take-back, `check_inbox` | – | done, four theorems |
| 8 | `EventFeed`: what the bus promises a console; `EventBus`: ring, queues, streams, reconnecting console | the second refines the first | done, four theorems |
| 9 | `SessionPool`: round trips, owners, close | – | done, four theorems |
| 10 | `Conversation`: turns, questions, steering queue, tab | executor, driver, middleware, routes, tab | done, five theorems |
| 11 | `Reactions`: a watch's fire replaces its pending one-shot in the scheduler (`graph/sdk.py:281`) | 3, 4 | open |
| 12 | `Fleet`: members, pids, ports | – | open; needs a model of processes |

Every safety property of a passing run is now stated by a theorem. Next worth stating: abstract specifications of the inbox
and of the conversation's mailbox, and a bound on how often a message that was not re-sent is heard. Pairing, consent
and the task stores have no step that another actor can come between (single statements, or code without `await`),
so a model would only repeat them.

## 3. Modules and the code they model

`PROJECT.json` maps every definition to the lines it stands for. Operators introduced as *a slip* (such as
`MarkCompleteAlways`) model nothing in the code: each is a plausible mistake in the
definition that follows it, used to show that a property can be violated. `MC…` modules extend a module with the model
values of its configurations.

### `BackgroundDelivery` and `Background`

`BackgroundDelivery` has two variables, `status` and `told`: jobs are accepted, settle, and their
outcome is announced to their session once. `Background` is the detailed system; its last lines
instantiate the abstract one with `status <- row, told <- {j : notified[j]}`.

| state | code |
|---|---|
| `row`, `notified`, `taskId`, `dismissed` | columns of a row of `jobs.db`; `none` is a row not there yet |
| `fire` | the task of `_fire` or `_run_work`: queued for the semaphore, past it (`posted`), being cancelled (`unwinding`) |
| `turn` | the detached turn in the A2A server, which may outlive the POST that started it |
| `canceling` | a `cancel` that awaits the answer to its CancelTask |
| `resume` | the delivery task of a completion: scheduled, posting alone (`nudging`) or for a fan-out (`joining`), held back, dropped |
| `joined`, `timer` | `_joined_batches`, `_batch_timeouts` |
| `nudge` | the push-resume turn: waiting for the session's lock, active, ended |
| `live`, `fanout` | the operator's turn that holds a lock; whether a turn's tool calls are still spawning |
| `events`, `reported`, `pushes`, `woken` | history; `resume` = `abandoned` marks a delivery whose client gave up on the push it had posted |

Settlers of a row: `FireFails`, `FireTimesOut`, `TurnEnds`, `WorkEnds`, `CancelWork`, `CancelUnannounced`,
`CancelSettles`, `Restart`. Every one of them except the reconcile and the work's own cancel goes through `MarkComplete`
(`UPDATE … WHERE status = 'running'`), whose result the callers mostly ignore.

### `Scheduler`

Time is a small clock; a cron with period `p` is due at multiples of `p`, a one-shot at its own time. A
row carries the edition (of the add or edit that wrote it) and the birth (of the add), which the code does
not have: they let properties tell a row from a later one under the same id.

| state | code |
|---|---|
| `jobs` | the table |
| `state`, `owner` | an instance off, waiting for the lock, polling or stopping; the lock file |
| `due` | the rows a tick has selected and not claimed: the `for` loop over `_claim_due_jobs` |
| `inflight`, `fire` | `_inflight_ids`; `_fire_and_settle` from POST to settle, with its snapshot of the row |
| `turns`, `served`, `slots`, `fate` | history: turns started per edition and birth, cron slots claimed, how an edition left |
| `unsettled`, `excused` | history: cron turns that were started and never settled; editions taken for fired after an error, or deleted by the settling of another edition |

A tick (`Select`, then a `Claim` per row) and the two statements of `_settle_cron_expiry` (`CountFire`, `SettleCron`)
do not await, so coroutines of the loop cannot come between (`Yielded`); the edits
run in worker threads and can.

### `Watches`

| state | code |
|---|---|
| `file` | one JSON file per id (`WatchStore`) |
| `lockOf` | `_locks`; lock objects are reused once nobody has them, so `Locks` may be small |
| `task` | a coroutine inside `evaluate` or `update`: waiting for the lock, awaiting the verifier, in `on_stalled`, in the hooks of `_react`; with the copy that it will write |
| `sweep` | the rest of `tick_all`'s snapshot: first the prunes, then the due watches, one at a time |
| `unlinking` | a clear in a worker thread, between forgetting the lock and deleting the file |
| `world`, `passed`, `rested`, `aged` | what verifiers would find now; deadlines, intervals and retention times that have gone by |
| `acked`, `sawMet`, `told`, `crossed` | history |

The evaluation is `Read` → (`Fire` | `Expire` | `Stall` → `StallWritten` | `Observe`) → `HooksReturn`; an update
is one step after the lock. Creates and clears take no lock and come at any time, as in the code. When one meets another step
under way at its id (`~Apart`), the id is `crossed` until a create finds it at rest again: the properties say of crossed ids nothing,
and of all others that nothing goes wrong. Section 8 says what does go wrong at a crossed one.

### `Workflows`

One recipe name; a recipe is a set of steps with dependencies, gates, time limits and a width.

| state | code |
|---|---|
| `saved` | what the registry holds under the name; a run keeps the recipe it was started with |
| `file` | the run's record in `run_state.py`: status, pending gate, outputs, step metadata |
| `engine` | `run_workflow` under way: what is done and failed, the wave with the phase of each of its steps, whether the run reports to a chat |
| `asked` | background resumes that have been scheduled and have not read the record yet |
| `ran`, `approved` | history: steps dispatched; steps the operator let the run dispatch |

`Spawn` forms a wave of all ready steps when none of them has an open gate; with an open gate the run parks (`Park`). `Dispatch`, `Answers`, `Told`,
`Raises` and `TimesOut` are a step's life; `Park` and `Finish` merge the outcomes into the record.

### `Goals`

| state | code |
|---|---|
| `goal` | the session's file; the arming number (not in the code) tells a goal from its restart |
| `drive` | a goal-driven turn and its continuations, streaming or plain: in line, in its turn, at the verifier with the copy it read, decided, in hooks |
| `lock`, `queued` | `_thread_lock`; one-shot jobs aimed at the session, for which a drive pauses |
| `rearming` | a re-arm in its worker thread, between read and write |
| `judged`, `told`, `quit`, `lost` | history since the last arming |

Edits and other drives' evaluations come at any moment of an evaluation. `WritesBack` is the write that ends an evaluation or a re-arm; when the
file then holds something else than the copy was read from, an update is `lost`. The history of an arming is followed as far as the properties speak
of it: evaluations and the give-up as long as nothing was lost, ends told until `MaxLost` updates were.

### `Inbox`

| state | code |
|---|---|
| `rows`, `last` | the table and its AUTOINCREMENT |
| `call` | each caller inside `_operator_inbox_add`: dedup look-up, insert, pre-mark, guard, POST, restore |
| `recent` | the `StormGuard`'s deque |
| `turn` | the turn that an item fired, which may outlive its POST |
| `reader`, `listed` | a turn between `list` and `mark_delivered` of `check_inbox` |
| `given`, `told`, `late`, `lost` | history |

### `EventFeed` and `EventBus`

`EventFeed` has three variables: how many events a process has `published`, those to be `kept`, and each console's `place`, the last event
it has learnt of. `Publish` adds an event, `Deliver` moves a console on, `Restart` begins the numbers again. What a `Deliver` may skip
is what was `Overtaken`: a ring's worth of retained events, or a queue's worth of any, came after it.

`EventBus` is the detailed system; it instantiates the feed with `published <- seq` and `place <-` the console's cursor if that counts
events of this process, else 0. Events are their sequence numbers. Its names carry `Bus` where a word would be any module's
(`BusNext`, `BusTypeOK`), because the inbox announces its items on the bus and one module proves about both.

| state | code |
|---|---|
| `seq`, `ring`, `posted` | `_seq`, `_ring`; publications of worker threads that wait in `call_soon_threadsafe` |
| `stage`, `since`, `replay`, `queue` | the generator of `/api/events` per console: its cursor, its snapshot of the ring, its queue |
| `wire` | frames sent and not dispatched |
| `cursor` | the console's `lastSeq` |
| `current`, `seen`, `kept` | history |

### `SessionPool`

One server. A call is its caller until it is posted to the pool's loop, and a task of that loop afterwards.

| state | code |
|---|---|
| `current`, `generation`, `lock` | `_Slot` |
| `opens`, `owner`, `ready`, `live` | owner tasks, whether their session came up, whether the server still answers |
| `call`, `axed`, `answer` | `roundtrip` and `_call`; cancelled tasks that have not unwound; what the caller got |
| `closer` | how far `close()` is |
| `served`, `broken`, `sends`, `tried` | history |

`close()` comes at any time, also between a call's `_ensure_loop` and its `run_coroutine_threadsafe`. Such a call is `late`; if the loop still runs
what was posted it is `stray` (the finalizer may or may not find its task), and if the loop stops first it is `Stranded`.

### `Conversation`

One session, one tab, any number of turns.

| state | code |
|---|---|
| `turn` | an `execute` from its request to the end of its stream: in line, about to call the model, in a call or tools, at an interrupt, compacting, over |
| `line` | `_thread_lock`: its holder, then the waiters, first come first served |
| `asks` | pending interrupts in the checkpoint; two gated tools of one call leave two |
| `queue` | `steering._QUEUES[session]`: items of the tab, and held messages with an id of their own |
| `posts`, `deletes`, `cancels` | requests of the tab that have not arrived |
| `streams`, `bubbles`, `form`, `checking` | what the tab reads, shows as queued, shows as a form; the bubbles a turn-end check asked about |
| `heard`, `excused` | history: how often the model was given a message; what was withdrawn or visibly failed |

`Begins` is the arrival in `execute`; `Hold`, `Resume` and `Enter` are the three outcomes of `_hold_if_hitl_pending` under the lock;
`ModelCall` contains the middleware's drain; `Complete`, `Park`, `GiveUp`, `Errs`, `Overflow`/`Retry`, `Stall` and `Cancel` are the
ways a turn ends.

## 4. Runs

Every property has a mutation of a mapped definition that violates it under the same configuration. Between them the
passing runs fire every action.

| run | instance | properties |
|---|---|---|
| `registry` | a detached turn and an incognito work job of two sessions, every fault kind, restarts | `DeliverySafe`: refinement of `BackgroundDelivery`, so each job settles once and is handed over once; `WorkAnnouncedOnce`: a cancel that meets the end of the work; `NeverBoth`: push-resume or wake, unless the client gave up on the push |
| `fanout` | a fan-out of two, one of which may hang for ever and is cancelled by the operator; failing deliveries, client timeouts, refused cancels | `HeldIsCovered`: a held report has a timer or a posted join; `PushedOnce`; `RunningSettles` (liveness) |
| `sched_table` | two instances on one file; edits, also to the same time, and reused ids; refusals, JSON-RPC errors, timeouts, failed settles, stops, crashes | `SingleFlight`, `SlotOnce`; `TurnsCapped`: no turn beyond `max_fires` but unsettled ones; `OneShotFires` (liveness): a due one-shot runs, or left in one of the ways the property names |
| `sched_settle` | limits, ttl and one-shots edited, cancelled and re-added while they fire; a refusal or a failed reschedule | `FiredHasRun`, `OneShotOnce`, `ExpiryEarned` |
| `watch_keeps` | a watch that the loop and a plugin evaluate, edited, cleared, pruned, re-created, also while it is evaluated; crash or raising verifier | `SettingsStand`, `EdgeOnly`, `StallToldOnce`, save at crossed ids; `FiresWhenMet`; `DeadlineEnds`: a late watch ends, or is a change watch that fires again and again (liveness) |
| `workflows` | recipes with gates before, after and beside steps that fail, hang or time out, and with two gates ready together; double decisions, edits of the recipe, cancel, crash | `PausedIsComplete`, `RunsOnce`, `GateHolds`; `PassEnds`, `ApprovedRuns`: an approved step runs, unless another ready gate is asked for instead (liveness) |
| `bus` | a console that reconnects and falls behind, publications from worker threads, drops, a restart | `FeedSafe`: refinement of `EventFeed`, so nothing retained is skipped that was not overtaken; `InOrder`; `EventsArrive` (liveness): a retained event arrives, unless overtaken or hidden by a larger cursor from before the restart |
| `goals` | a streaming and a plain drive of one session, both at the verifier at once; a new goal, a re-arm, a clear, a resume, a cut turn or a crash at any moment | `BudgetKept`, `GiveUpStops` unless an update was lost; `ToldOnce`, and once more at most for each lost update; `EveryDriveEnds` (liveness) |
| `inbox` | a webhook that repeats, a reader, a locked table, a refused POST, a crash | `NothingLost`, `PendingIsTold`; `NowSettles` (liveness): a now-item ends in a turn, in the queue or dismissed, unless its call was cut short |
| `pool` | two calls; servers die, refuse, raise; callers stop; close at any time | `NoOrphan`, `HealthyStays`; `CloseFrees` (liveness): every call returns but a stranded one |
| `conversation` | two messages, two questions, three turns at a time, one that nobody watches, one fault of any kind | `Kept`, `OwnAnswer`; `HeldIsHeard`, `TurnsEnd` (liveness) |

One run finds the code at odds with its own words (section 8): `steer_twice`, with `HeardOnce`.

`CHECK_DEADLOCK FALSE` stands where the system may stop: numbers, clocks and editions are bounded, runs and goals end,
a pool stays closed, and nobody has to type. `registry`, `fanout` and `watch_keeps` check deadlock.

## 5. Bounds

The bounds are conjuncts of guards (such as `faults < MaxFaults`, `made < MaxEditions`, `clock < MaxTime`, `asked + k <= MaxAsks`) and nowhere
else. No run uses symmetry.

| run | bounds | why they are enough |
|---|---|---|
| `registry` | 2 jobs, `MaxConcurrency` 1, `MaxFaults` 2 | one job of each kind, below the cap so that one queues; two faults may hit one job (a timeout, then a restart) |
| `fanout` | 2 members, 2 slots, `MaxFaults` 2 | one settles, the other is late, hangs or is cancelled: the join, the hold and the timer all occur |
| `sched_table` | 1 id, 2 instances, `MaxTime` 3, `MaxEditions` 2, limit 1, `MaxFaults` 2 | no statement relates two ids; two slots and a missed one; a row and its edit or successor; two unsettled turns beyond a limit |
| `sched_settle` | 1 id, 1 instance, `MaxTime` 4, `MaxEditions` 3, periods 1-2, limits 1-2, ttl 1 | an add, an edit and a re-add during one fire; expiry before and after a limit |
| `watch_keeps` | 1 id, the loop and one task of a plugin or console, 2 editions, 2 locks, `StallCap` 1; one update, crossing create or clear, crash or raising verifier (`MaxEvents`) | the registered lock and one that a forgotten entry left in use; a watch and its successor; streaks are compared with 1 |
| `workflows` | 3 steps, recipes `chain`, `join`, `side`, `short`, `twin`, width 1-2, one save, one background request per decision, one fault | two gates in a row, a gate behind a wave, a gate beside a free step, two gates ready together, a recipe that loses a step while a run is paused |
| `bus` | ring 2, queue 3, wire 1, 5 events, 1 posted, 2 faults | ring and queue both overflow before the numbers are used up; the queue is longer than the ring, as in the code (256 and 128) |
| `goals` | 2 drives, budget 2, stall limit 2, extension 2, cap 2, 2 armings, 1 job, 1 clear, resume, re-arm or fault (`MaxEvents`), 1 lost update (`MaxLost`) | a budget that ends in the second evaluation; a goal and its restart or successor; two drives at the verifier lose an update without any other event |
| `inbox` | 2 items, 2 callers, guard of 1 fire, 1 fault | the second fire is refused by the guard; two callers with one key |
| `pool` | 2 calls, 4 sessions, 3 faults | each call opens, retries once, and a session is retired under the other |
| `conversation` | 2 messages, 3 turns at a time, 2 questions, 2 model calls, 1 auto-answer, 1 fault | an operator turn, a held one and an autonomous one in line; a question left when the first is answered. With two faults, three questions and four turns the safety properties hold too, in a run that is too long to keep |

## 6. Fairness

No run assumes fairness of an edit, a fault, or a user, save where it is said.

- **Background.** Weak fairness of delivery tasks and timers (the loop runs what is ready) and of a session's turn
  ending (the stall guard ends it otherwise); strong fairness of a nudge getting the thread lock, because
  `asyncio.Lock` is FIFO and other turns come and go. A job's own turn ends unless it is in `MayHang`.
- **Scheduler.** The clock advances, a stopped instance is started again, the loop polls, a started turn ends.
- **Watches.** The loop, its threads and hooks run; verifiers return or raise; intervals go by; strong fairness of entering
  a per-id lock (FIFO). Nothing makes the world hold still: `FiresWhenMet` promises a reaction or that the condition
  stopped holding.
- **Workflows.** `EngineFairness`: the loop runs its tasks, a time limit passes, a subagent outside `MayHang` answers.
  `OperatorFairness`, for `ApprovedRuns`: gates that stay open are approved in the end.
- **Goals.** Strong fairness of a turn in line for its lock (FIFO); turns, verifiers, hooks and the re-arm's thread end.
- **Inbox.** Threads, POSTs (they have a timeout) and `check_inbox` come to an end. Strong fairness of a call's steps, because the loop
  runs what is ready in order although readers keep coming. A turn need not end.
- **EventBus.** The loop, the stream and the console run, and the console reconnects; nobody has to publish.
- **SessionPool.** Callers post what they began, the loop runs posted and cancelled tasks, and `close()` goes on (each of its waits has a timeout).
  No server has to answer.
- **Conversation.** A turn goes on (weak fairness of all its ordinary steps together: a call's tools may run again, but
  calls are limited by the recursion limit), requests arrive, an ended stream is read, the check is made; and the operator answers or dismisses the form, which
  `HeldIsHeard` is about. The lock is a sequence, so it needs no strong fairness. Withdrawing, steering and stopping are free.

## 7. Proofs

TLAPS proves 50 theorems in eight modules, for every value of the constants that the named assumptions allow (sentinels differ from values,
bounds are naturals, a recipe's dependencies are among its steps). `PROJECT.json` lists them. Each proof module
has an inductive invariant, proved by one step per action, and temporal steps by `PTL`.

**`BackgroundProofs`.** `TypeCorrect`. `ReportsAreFinal` is inductive once types are known: every writer
of `row` either finds the row running or changes nothing, and a notified row is terminal. `SettlesOnce` and `KeepsPromise`
(the refinement) follow from it: each action is a `Settle`, an `Accept`, an `Announce` or a stutter of the
abstract registry. `SlotsAreCapped` counts slots with the cardinality theorems and needs `Jobs` to be finite.
`RunningIsOwned` assumes that neither `rpcError` nor `storeFault` occurs; its invariant
adds `Unstarted` (a job not accepted has no task and no turn), without which `Spawn` could take over a dead one.
The rest is about hand-over. `WorkIsAnnouncedOnce` (any faults): a work job has no A2A turn and nothing is announced while its row
runs, so the step that settles the row makes the one event. `PushesOnce` (any faults): a fan-out that was posted is claimed, and a restart
that forgets the claim leaves no member, turn or timer that could post it again. `NeverBothWays` (any faults): a delivery
posts at most once, under the job's name or its fan-out's (`Postmarked`), a woken one cannot post again (`WokenAlone`), and only an end that posted nothing, a post that was refused, or a client
that gave up asks for the wake; a restart forgets what would have been posted (`Lost`). `HeldAreCovered`, when no push-resume is refused or
stalls: a delivery is held with the timer armed, and the timer only ends by the claim that posts the join.

**`SchedulerProofs`.** `TypeCorrect`; `OneOwner`, whose invariant ties polling, fires and selected rows to the lock
holder; `FiresAlone`, by "a fire's id is in `inflight`, and `due` and `inflight` do not meet"; `SlotsFireOnce` when no
write fails, by an invariant that every claimed slot of an edition still in the table, or in a snapshot, lies before its next
fire; `FiredOnesRan` when edits do not name a past time and no JSON-RPC error rides a 200, by the facts that a fire past
its turn has one counted and that a row with the claimed next fire is the claimed edition.
`TurnsAreCapped` assumes nothing: ids are reused, every fault occurs. Its invariant (`Capping`) says of each row that the turns of its birth are
no more than those counted, those unsettled and the one whose fire is under way, and that at the limit such a fire, or one that will remove the row, has the last place (`Rooms`).
`ExpiriesEarned` and `OneShotsOnce` assume `ReuseIds = FALSE` and no fault but a refused request and a failed reschedule; section 8 says what
goes wrong otherwise. They share the invariant `Counting`. Editions and births belong to one id each (`Homes`); a snapshot the loop
holds has the limits of its row, and its schedule unless the row was edited (`Kin`); a row's count is its turns but the one
under way (`Tally`, `CountRead`); a row at its limit has a counted fire that is about to remove it (`AtLimit`); a one-shot of the
table has not run, unless its fire is on the way to removing it (`OneShots`).

**`WatchesProofs`.** `TypeCorrect` needs `Phased` (a task that awaits its verifier or its stall hooks carries a watch).
`CopiesAreFresh`, `EditsStand` and `FinishedStays` assume nothing of when creates and clears come, and speak of all ids that are not `crossed`. They share the invariant `Kept`, whose parts do so too:
`Exclusive` (a lock has one holder), `Registered` (all tasks at an active watch have the lock now registered, so they
share it — a prune may forget a lock only of a finished watch), `Fresh` (what is carried is what the file holds),
`Pruned` and `Cleared` (nobody re-activates what is being deleted), `SettingsStand`, `Numbered`. `EdgesFireOnce` and
`StallsToldOnce` add `Memory`: the file, or the copy carried while `on_stalled` runs, remembers that the last check found
the watch met and that its stall was told.

**`WorkflowsProofs`.** `TypeCorrect` (with a lemma on the least step of a non-empty list), `RecordsComplete`, `StepsRunOnce`, `GatesHold`. The invariant
says, per run, that an active execution has a running record, that a step it may still dispatch has not run, that a gate it skips was approved, and that a parked
record has an outcome of all that ran; `Folded`, park and resume carry this over, also when the recipe was edited in between.
`DependenciesComeFirst` (`DependenciesFirst`: what a step depends on has an outcome, and a dispatch or a rejection made it) adds `Earned`: an outcome in
the record or in the engine is of a step that this run dispatched or that was rejected, and a queued step's dependencies are resolved.

**`GoalsProofs`.** `TypeCorrect`, including that no drive evaluates more often than the cap. `KeepsToBudget`, `AnnouncedOnce`
and `StopsWhenGivenUp` hold for edits and other evaluations at any moment. Their invariant (`CopyOK`, `ToldOK`, `GoalOK`) says
that what a drive carries to the write was active, that endings told are paid for by lost updates, but for one of a goal that is over, and that, as long as nothing was lost, an
active goal has been judged as often as its iterations count, which is below its budget, and is marked if it was given up.

**`InboxAndBusProofs`.** *Inbox:* `TypeCorrect`, `NoneLost`, `PendingAnnounced` and `ReadsNotItself` (`NoSelfRead`) from one invariant: `CallsHaveRows`, `FiredIsGiven`,
`HiddenWhileFired` (from pre-mark to restore nobody finds the item pending), `NotItsOwn`, and the two properties themselves.
*Bus:* `BusTypeCorrect` and `DispatchedInOrder` from `BusInv`: ring, replay, queue and wire rise (`RingInOrder`, `Flows`); what a console has seen lies before what is on
its wire, that before its replay, and that before its queue; its cursor is past what it has seen (`CursorCovers`). `StreamsCaughtUp` (`CaughtUp`: an open stream has all its console is
owed and that was not overtaken) adds `Bus`: what the ring has dropped has a ring's worth of retained events after it
(`RingHolds`), what a full queue drops is a queue's length behind (`SpacedIn`), and an open stream misses nothing else that comes after its cursor
*or after a frame on its way*, which will be the cursor (`Follows`; without the second half it is not inductive: a fresh tab has no cursor until its first frame).
`FeedIsKept` is the refinement: a publication on the loop, or one that a worker thread had left there, is the feed's `Publish`, a dispatch its `Deliver`, a crash its `Restart`,
and every other step a stutter. The dispatch is the hard step. While the stream is open, `Follows` says that nothing lies between the cursor and the frame that was not overtaken;
but frames are still on the wire after their stream has ended, where `Follows` is silent. So `Whole` adds that the frames of an ended stream
have no hole either (`Gapless`; it starts to hold when the stream ends and only shrinks from then on), and that a cursor of this process is an event the console has seen (`Placed`).

**`SessionPoolProofs`.** `TypeCorrect`, `NoneOrphaned`, `HealthyOnesStay`, `SentTwice` (`SentTwiceAtMost`), with `close()` between a call's check and its post too: `Locked`, `Fresh`, `UpIsLive`,
`Opening` (while a call opens, the slot is empty), `Generations` (the generation tells whether the slot still holds the session a request was sent on), `Counted`.

**`ConversationProofs`.** For every set of faults. The invariant `IInv` has two halves. `Core` is about the thread: `LockOK` (who waits or works stands in line, once, and who works
is at its head), `AsksOK` (pending questions are numbered in the order in which they came; none is pending while a turn calls the model), `ShownOK` (a question that a form, an
ended stream or an answer on its way shows is the first one pending, or is not pending any more). `LockIsKept` (`OneAtATime`) and `ThreadIsWhole` (`CalledOnWhole`) are parts of it,
and `AnswersTheirOwn` (`OwnAnswer`) follows: a turn that resumes takes the head of `asks`, which by `ShownOK` is what it answers. The other half is about messages: `Emptied` (a turn
carries what it was sent with only while it waits), `Texts` (a queued item under the tab's id is that message) and `Kept` itself, so that a `DELETE` or a stop takes nothing from the
queue but what it excuses, and a turn that ends has nothing left to lose. The lock leaves the line from any position, so the module begins with lemmas on sequences
without repetition.

**Proved and not in a run** (each was checked by TLC before it was proved): `ReportIsFinal`, `SettledForGood`, `SlotCap`, `RunningHasOwner`, `OwnerFires`, `CopyIsFresh`,
`TerminalIsFinal`, `NoSelfRead`, `SentTwiceAtMost`, `CaughtUp`, `DependenciesFirst`, `OneAtATime`, `CalledOnWhole`, and the type invariants.

**Only model-checked:** the liveness properties (`OneShotFires`, `RunningSettles`, `FiresWhenMet`, `DeadlineEnds`, `PassEnds`, `ApprovedRuns`, `EventsArrive`, `EveryDriveEnds`,
`NowSettles`, `CloseFrees`, `HeldIsHeard`, `TurnsEnd`): liveness under fairness is out of the prover's reach. `HeardOnce` is violated by the code and is not claimed.

## 8. Where code and words disagree

With a run that shows it:

- `steer_twice`: at the end of a stream the tab asks which of its steers are still queued and sends those as a fresh turn
  (`ChatSurface.tsx:1176-1201`). Nothing takes them off the queue, so the first model call of that turn folds them in again: the model gets the
  message twice, while `graph/steering.py:12-14` has it either re-sent or folded in.

Seen while modelling, without a run of their own:

*Background jobs*
- *JSON-RPC errors*: `_send_a2a_message` (`background/manager.py:386`) takes a JSON-RPC error on a 200 for a delivered turn;
  the row stays `running`, which the module's header excludes. `RunningSettles` fails if `rpcError` is among the faults, and likewise with `storeFault` (a terminal write that fails).
- *Nudge timeout*: the delivery task's client gives up while its turn waits for the lock, and requests the Activity wake; both then
  happen (`server/a2a.py:146`), against the comment at 835-840. `NeverBoth` names this case (`abandoned`) and holds in every other.
- *Stalled nudge*: a push-resume that waits for its session longer than the stall timeout is ended before it drained, and
  its POST answers 200 (`manager.py:432`); the report waits for the session's next turn.
- *Client timeout*: the slot is released while the turn runs on (`manager.py:396-400`), so more turns than slots may run.
- *Partial join*: its message says late members "will notify separately" (`manager.py:578`); they are dropped, and wait for the
  session's next turn.

*Scheduler*
- *Deleted without a turn*: a one-shot edited to the same time while it fires is deleted as fired (`scheduler/local.py:617`), and so is one whose POST
  is answered with a JSON-RPC error (`local.py:894-908`, as in the background manager); a row that an edit or a new add put in the place of a cron under fire
  may be deleted by that cron's expiry (`local.py:640-664`). `FiredHasRun` fails with `PastDates` or `rpcError`; `OneShotFires` names these cases (`excused`)
  and promises the turn in all others.
- *Uncounted turns*: a cron's turn whose POST timed out runs on but is not counted (`local.py:623-632`), nor is one whose fire ends with a stop
  or a crash of the instance, or with a failed write. A cron thus starts more turns than its `max_fires`, one for each of them: `TurnsCapped` says exactly that many.
  A one-shot is retried after each of these, though its turn may run on: `OneShotOnce` fails with `timeout`, `stop`, `crash` or `settleFault`.
- *Id reuse*: a cron cancelled and added again under its id while it fires is counted, and may be expired, by the old
  fire (`local.py:640`); `ExpiryEarned` fails with `ReuseIds` (`TurnsCapped` holds).
- *Stale reschedule*: an edit between a tick's select and its reschedule keeps the old schedule's next time for one fire
  (`local.py:731`).

*Watches*
- *Deadline of a repeating watch*: one that fires at every check returns before its deadline is compared
  (`graph/watches/controller.py:344-359`); `tests/test_watch_controller.py:681-682` and `docs/guides/watches.md:88` say a deadline ends it. `DeadlineEnds` names
  the case: a change watch that is late for ever fires again and again. A tripwire does end, because a check after the edge does not fire.
- *Clear during an evaluation*: `clear` takes no lock, so an evaluation in flight writes the watch back (`controller.py:69`), against
  `types.py:19-20`; a `create` under the same id is overwritten likewise, and the fresh lock of the next evaluation lets two of them in, which may both react to one
  edge or tell one stall, and may write the edge as seen that nobody reacted to. These are the `crossed` ids, which the properties leave out.
- *Change watches* compare reasons as well as evidence (`controller.py:318`), while `types.py:28-29` speaks of evidence; a fire with an empty
  reason records a text of its own (`controller.py:343`), so the next check sees a change. An update of
  the verifier keeps `was_met` of the old one (`controller.py:180-195`).

*Goals*
- *Edits during an evaluation*: `graph/goals/controller.py:438` writes the whole state back, and so does a re-arm. A clear or a new goal is overwritten,
  an end is told twice, a budget is exceeded, and a re-arm or a second evaluation undoes a give-up. The model counts each such write (`lost`); `BudgetKept` and `GiveUpStops` hold as
  long as there was none, and `ToldOnce` allows one more end for each.
- *Pause*: a drive pauses when a one-shot targets its session, also when it is the one whose own turn is running (`server/chat.py:1136`, against the
  comment at 1120-1122); that job is gone when the turn ends, and nothing re-enters the drive.
- *Cap*: a drive makes at most `goal_max_iterations + 2` evaluations (`chat.py:1301-1303`), so a goal with a larger or an extended budget
  (`console_handlers.py:547-548`) is left active without a drive.
- *Give-up*: `docs/guides/goal-mode.md` says iterations stay untouched, but the evaluation counts one.

*Workflows*
- Steps that failed or were rejected before a later pause are not in `failed` when the run is resumed, so it finishes as done.
- Two background resumes of one run: the second announces that the run failed while it goes on (`plugins/workflows/__init__.py:586`).
- A run that is cancelled or crashes stays `running` in its record for good.
- Two gates that are ready together: each resume answers one and asks for the other again, against `_resume`'s doc (`__init__.py:311-318`), because a resume lifts only the gate that it decides (351).
  Neither step runs, however often both are approved: the exception `AskedBeside` of `ApprovedRuns`, which recipe `twin` of the run needs.

*Inbox*
- *Retry of a now-item*: it is marked delivered before it fires and duplicates are looked up among undelivered rows (`inbox/store.py:95` against 12-13), so a retry
  of the webhook fires again (`console_handlers.py:789`). Look-up and insert are also two statements.
- A `check_inbox` between insert and pre-mark reads a now-item that then fires. A POST that times out after 30 s puts the item back while its turn
  runs. A crash between mark and POST loses it; `NothingLost` names these in `late` and `lost`.
  So does a restore that fails: the item stays delivered and no turn has it. `NowSettles` allows both losses and no other.

*Event bus*
- The stream's keepalive waits with `wait_for` on the generator itself, which a timeout cancels: the next read ends the stream, and each idle
  stretch costs a reconnect (`operator_api/routes.py:92-95`).

*Session pool*
- A call that is between `_ensure_loop` and the post when `close()` begins may be posted too late for the finalizer to find it; when the loop then stops it waits for
  ever (`tools/mcp_session_pool.py:195-196` against 43-45). It is the exception `Stranded` of `CloseFrees`; every other call returns.
- An exception that is no `McpError` retires a healthy session and sends the request again (62-77). A Stop while the pool closes is answered
  with a tool error (199-215).

*Conversation*
- Stop drops the tab's bubbles but not the server's queue: those messages fold into the next turn.
- A steer whose POST arrives after the turn-end check is shown as settled and heard only at the next turn. After a restart of the server,
  queued steers are gone, and the check shows them as folded in.
- An operator who answers a form while the turn-end check is under way makes both send a turn; the check's message is held, which
  shows the answered form again; a second answer to it goes to whichever question is then first, although `chat.py:530-533` has an answer resume exactly the question it was given to.
- The retry after an overflow asks no hold (`chat.py:1755`): it abandons a form that another turn parked on meanwhile.
- If `_clear_pending_interrupt` fails, or the process dies first, the question of a turn nobody watches stays pending, and the
  operator's next message is held on it, though `chat.py:588-590` expects the next fresh turn to supersede it.
- Answers of the console carry `hitl_resume` and no task id, so the parked task stays input-required; `ChatSurface.tsx:1441-1447` says it
  reaches a terminal state.
- A turn that waits for the thread lock longer than the stall timeout is failed by the stall guard, as if it hung.

## 9. What is left out

- **Text.** Prompts, reports, headers, event payloads, reasons, templates and evidence are members of small sets; only equality matters.
- **Cron arithmetic and time zones** (`_compute_next_fire`): slots are multiples of a period.
- **Background.** A drained report whose turn crashes afterwards (delivery is at most once by design); sub-second
  timing of the straggler timer; the SQLite store is transactional per statement.
- **Scheduler.** Plugin-provided schedulers; the result card of a scheduled turn.
- **Watches.** The trust gate of create and update, the counters that only feed the flapping warning, and a store write
  that fails (`WatchStore.set` swallows the `OSError`, so a fire would repeat). A plugin's verifier that never returns
  holds up the whole tick; the model assumes it returns or raises. The verifier's observation is taken at its return.
- **Workflows.** Validation of recipes, templates, what a subagent does; several recipes under several names.
- **Goals.** Plans, contracts and the trust gate; two sessions (they share nothing but the scheduler).
- **Inbox.** The operator's MCP sidecar (`server/operator_mcp.py`), another process on the same `inbox.db`.
- **Event bus.** In-process handlers (called in `publish`, no state); events that are not retained are published and counted, and not followed.
- **Session pool.** Several servers (a slot each, nothing shared but the loop); the tool wrapper.
- **Conversation.** Remote callers that resume a parked task by its id (the same step as `Resume`), operator turns that drive a goal (see `Goals`), ACP
  turns, slash commands and composer forms of plugins, a DELETE that fails, a second tab, a checkpoint that cannot be read. Streams are a set, because nothing depends on their order; the
  compaction after an overflow takes the lock by itself in the code, and together with the retry here.
- **Components** that `PROJECT.json` lists as not modelled, with the reason for every part.
