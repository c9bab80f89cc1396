------------------------------- MODULE Goals -------------------------------
(***************************************************************************)
(* graph/goals and the drive loops of server/chat: one session, its goal   *)
(* file and the turns that drive it.  When a turn ends and a goal is       *)
(* active, an evaluation reads the file, awaits the verifier, and writes   *)
(* its copy back; the loop then continues with another turn, or stops.     *)
(* Nothing keeps an edit, or another drive's evaluation, from coming in    *)
(* between: the copy is then written over what the file holds by now.      *)
(*                                                                         *)
(* A streaming drive holds the thread's lock from its first turn to its    *)
(* end, a plain one (/api/chat) only for each turn.  Kicks, waits and      *)
(* hand-offs are one-shot jobs of the scheduler for this session: a job's  *)
(* row stays in the table until the turn that it fired has ended.          *)
(* asyncio.Lock is FIFO; here any waiting drive may enter a free lock.     *)
(***************************************************************************)
EXTENDS Naturals, FiniteSets

CONSTANTS
  Drives,               \* the turns that can be under way at once
  Streams,              \* those of them that are streaming ones
  Budgets, Limits,      \* max_iterations, no_progress_limit of new goals
  Signs, NoSign,        \* fingerprints of progress
  Adds,                 \* what a rearm adds to the budget
  HardCap,              \* evaluations in one drive: goal_max_iterations + 2
  Kicks,                \* whether a set by the operator is kicked
  NoGoal, NoRearm, Idle, Free,
  MaxArmings, MaxJobs,
  MaxEvents,            \* clears, resumes, rearms and faults, together
  MaxLost,              \* lost updates of an arming up to which it is followed
  Faults                \* the fault kinds that occur

Armings == 1 .. MaxArmings

\* The arming tells a goal, or a restart of it, from a later one.
GoalRecords == [arming : Armings, iteration : Nat, max : Nat \ {0}, limit : Nat \ {0}, streak : Nat,
                status : {"active", "achieved", "exhausted", "unachievable"},
                sign : Signs \cup {NoSign}, abandoned : BOOLEAN]

\* A drive under way: `driven` in its first turn, when a goal was active.
Driving == [pc : {"waiting", "turn", "ended", "verify", "decided", "hooks"},
            fired : BOOLEAN, driven : BOOLEAN, looping : BOOLEAN, guard : 0 .. HardCap,
            copy : GoalRecords \cup {NoGoal}]

Rearmings == [copy : GoalRecords, add : Adds]

ASSUME GoalsAssumption ==
  /\ IsFiniteSet(Drives) /\ Streams \subseteq Drives /\ Free \notin Drives
  /\ Budgets \subseteq Nat \ {0} /\ Limits \subseteq Nat \ {0} /\ NoSign \notin Signs
  /\ NoGoal \notin GoalRecords /\ NoRearm \notin Rearmings /\ Idle \notin Driving /\ HardCap \in Nat \ {0}
  /\ {MaxArmings, MaxJobs, MaxEvents} \subseteq Nat /\ MaxLost \in Nat \ {0} /\ Adds \subseteq Nat
  /\ Kicks \subseteq BOOLEAN /\ Faults \subseteq {"cut", "crash"}

VARIABLES
  goal,       \* the session's file
  drive,
  lock,       \* _thread_lock: the drive that holds it
  queued,     \* one-shot jobs for this session that have not fired
  rearming,   \* a rearm in its worker thread, between its read and its write
  armed, events,          \* how many armings, and clears, resumes, rearms and faults there were
  \* History since the last arming.
  lost,       \* how often a copy was written over a goal that was not the one read
  told,       \* how often a goal was finished, with its hooks
  judged,     \* how often it was evaluated, as long as nothing was lost
  quit        \* abandon_goal was acknowledged, as long as nothing was lost

bounds  == <<armed, events>>
history == <<lost, told, judged, quit>>
vars    == <<goal, drive, lock, queued, rearming, bounds, history>>

TypeOK ==
  /\ goal \in GoalRecords \cup {NoGoal}
  /\ drive \in [Drives -> Driving \cup {Idle}] /\ lock \in Drives \cup {Free}
  /\ queued \in Nat /\ rearming \in Rearmings \cup {NoRearm}
  /\ armed \in 0 .. MaxArmings /\ events \in 0 .. MaxEvents
  /\ lost \in 0 .. MaxLost /\ told \in Nat /\ judged \in Nat /\ quit \in BOOLEAN

Init ==
  /\ goal = NoGoal /\ drive = [d \in Drives |-> Idle] /\ lock = Free
  /\ queued = 0 /\ rearming = NoRearm
  /\ armed = 0 /\ events = 0
  /\ lost = 0 /\ told = 0 /\ judged = 0 /\ quit = FALSE

Event       == events < MaxEvents /\ events' = events + 1
Fault(kind) == kind \in Faults /\ Event

IsActive(g) == g # NoGoal /\ g.status = "active"
In(d, pc)   == drive[d] # Idle /\ drive[d].pc = pc
Firing      == {d \in Drives : drive[d] # Idle /\ drive[d].fired}

\* A copy is written back: when the file holds something else than what was
\* read, that is lost.
WritesBack(copy, evaluated, finished) ==
  IF lost < MaxLost /\ goal = copy
    THEN /\ lost' = lost /\ told' = told + finished
         /\ judged' = (IF lost = 0 THEN judged + evaluated ELSE 0) /\ quit' = quit
    ELSE /\ lost' = (IF lost < MaxLost THEN lost + 1 ELSE lost)
         /\ told' = (IF lost' < MaxLost THEN told + finished ELSE 0)
         /\ judged' = 0 /\ quit' = FALSE

-----------------------------------------------------------------------------
(* Setting, clearing and re-arming: each call of the store is atomic.      *)

New(a, max, limit) ==
  [arming |-> a, iteration |-> 0, max |-> max, limit |-> limit, streak |-> 0,
   status |-> "active", sign |-> NoSign, abandoned |-> FALSE]

Arms == /\ armed < MaxArmings /\ armed' = armed + 1
        /\ lost' = 0 /\ told' = 0 /\ judged' = 0 /\ quit' = FALSE

Sets(max, limit) == Arms /\ goal' = New(armed + 1, max, limit)

\* POST /api/goals, or a plugin (also from a goal hook).
PostSet(max, limit, kick) ==
  /\ Sets(max, limit)
  /\ IF kick THEN queued < MaxJobs /\ queued' = queued + 1 ELSE UNCHANGED queued
  /\ UNCHANGED <<drive, lock, rearming, events>>

Clear ==
  /\ Event /\ goal # NoGoal
  /\ goal' = NoGoal
  /\ UNCHANGED <<drive, lock, queued, rearming, armed, history>>

\* POST .../resume.
Resume ==
  /\ Event /\ IsActive(goal) /\ queued < MaxJobs
  /\ queued' = queued + 1
  /\ UNCHANGED <<goal, drive, lock, rearming, armed, history>>

\* rearm runs in a thread of its own: it reads the goal, and writes it back.
RearmReads(add) ==
  /\ Event /\ rearming = NoRearm /\ goal # NoGoal
  /\ IF IsActive(goal) THEN add > 0 ELSE armed < MaxArmings
  /\ rearming' = [copy |-> goal, add |-> add]
  /\ UNCHANGED <<goal, drive, lock, queued, armed, history>>

Extended(g, add) == [g EXCEPT !.max = g.max + add]

Restarted(g, a, add) ==
  [g EXCEPT !.arming = a, !.status = "active", !.abandoned = FALSE, !.iteration = 0,
            !.streak = 0, !.sign = NoSign, !.max = g.max + add]

RearmExtends ==
  /\ rearming # NoRearm /\ IsActive(rearming.copy)
  /\ goal' = Extended(rearming.copy, rearming.add)
  /\ WritesBack(rearming.copy, 0, 0)
  /\ rearming' = NoRearm
  /\ UNCHANGED <<drive, lock, queued, bounds>>

RearmRestarts ==
  /\ rearming # NoRearm /\ ~IsActive(rearming.copy)
  /\ Arms
  /\ goal' = Restarted(rearming.copy, armed + 1, rearming.add)
  /\ queued' = queued + 1
  /\ rearming' = NoRearm
  /\ UNCHANGED <<drive, lock, events>>

-----------------------------------------------------------------------------
(* A turn of the session.                                                  *)

Waiting(fired, driven) ==
  [pc |-> "waiting", fired |-> fired, driven |-> driven, looping |-> FALSE, guard |-> 0,
   copy |-> NoGoal]

\* A slip at the end of a drive: the thread's lock is not released.
LeaveLocked(d) == drive' = [drive EXCEPT ![d] = Idle] /\ UNCHANGED lock

Leave(d) ==
  /\ drive' = [drive EXCEPT ![d] = Idle]
  /\ lock' = IF lock = d THEN Free ELSE lock

\* A message, or `/goal ...`, which sets a goal before the turn.
Arrive(d) ==
  /\ drive[d] = Idle
  /\ drive' = [drive EXCEPT ![d] = Waiting(FALSE, d \notin Streams /\ IsActive(goal))]
  /\ UNCHANGED <<goal, lock, queued, rearming, bounds, history>>

ArriveSetting(d, max, limit) ==
  /\ drive[d] = Idle /\ Sets(max, limit)
  /\ drive' = [drive EXCEPT ![d] = Waiting(FALSE, d \notin Streams)]
  /\ UNCHANGED <<lock, queued, rearming, events>>

\* The scheduler fires a job: a streaming turn.
Fire(d) ==
  /\ drive[d] = Idle /\ d \in Streams /\ queued > 0
  /\ queued' = queued - 1
  /\ drive' = [drive EXCEPT ![d] = Waiting(TRUE, FALSE)]
  /\ UNCHANGED <<goal, lock, rearming, bounds, history>>

\* A streaming turn looks for the goal under the lock, a plain one looked before.
Enter(d) ==
  /\ In(d, "waiting") /\ lock = Free /\ lock' = d
  /\ drive' = [drive EXCEPT ![d] =
       [drive[d] EXCEPT !.pc = "turn", !.driven = IF d \in Streams THEN IsActive(goal) ELSE drive[d].driven]]
  /\ UNCHANGED <<goal, queued, rearming, bounds, history>>

\* A message that finds an open question on the thread is held for it.
Held(d) ==
  /\ In(d, "waiting") /\ lock = Free /\ ~drive[d].fired /\ ~drive[d].looping
  /\ Leave(d)
  /\ UNCHANGED <<goal, queued, rearming, bounds, history>>

\* set_goal, abandon_goal, and `wait`, schedule_task or a watch's reaction.
ToolSet(d, max, limit) ==
  /\ In(d, "turn") /\ Sets(max, limit)
  /\ UNCHANGED <<drive, lock, queued, rearming, events>>

\* A slip in abandon_goal: it is acknowledged and not recorded.
NotAbandoned(g) == g

Abandoned(g) == [g EXCEPT !.abandoned = TRUE]

Abandon(d) ==
  /\ In(d, "turn") /\ IsActive(goal)
  /\ goal' = Abandoned(goal)
  /\ quit' = (lost = 0)
  /\ UNCHANGED <<drive, lock, queued, rearming, bounds, judged, told, lost>>

HandOff(d) ==
  /\ In(d, "turn") /\ queued < MaxJobs
  /\ queued' = queued + 1
  /\ UNCHANGED <<goal, drive, lock, rearming, bounds, history>>

\* A question is asked of the operator.  Of a first turn that nobody watches or
\* that a goal drives it is answered for them; any other one is parked, and so
\* is a streaming drive that goes on.
Parks(d) ==
  /\ In(d, "turn")
  /\ IF drive[d].looping THEN d \in Streams ELSE ~drive[d].driven /\ ~drive[d].fired
  /\ Leave(d)
  /\ UNCHANGED <<goal, queued, rearming, bounds, history>>

TurnEnds(d) ==
  /\ In(d, "turn")
  /\ drive' = [drive EXCEPT ![d] = [drive[d] EXCEPT !.pc = "ended", !.driven = FALSE]]
  /\ lock' = IF d \in Streams THEN lock ELSE Free
  /\ UNCHANGED <<goal, queued, rearming, bounds, history>>

-----------------------------------------------------------------------------
(* The drive loop, after a turn.                                           *)

\* A slip in the loop: a goal that is over is judged again.
JudgedThough(d) == In(d, "ended") /\ drive[d].guard < HardCap /\ goal # NoGoal

\* The loop's cap, and active_goal.
Judgeable(d) == In(d, "ended") /\ drive[d].guard < HardCap /\ IsActive(goal)

EndsDrive(d) ==
  /\ In(d, "ended") /\ ~Judgeable(d)
  /\ Leave(d)
  /\ UNCHANGED <<goal, queued, rearming, bounds, history>>

\* evaluate reads the goal and awaits the verifier.
Judge(d) ==
  /\ Judgeable(d)
  /\ drive' = [drive EXCEPT ![d] = [drive[d] EXCEPT !.pc = "verify", !.copy = goal, !.guard = drive[d].guard + 1]]
  /\ UNCHANGED <<goal, lock, queued, rearming, bounds, history>>

Over(g, status) == [g EXCEPT !.status = status]

\* Not met, and not given up: the iteration and the streak are counted.
Counted(g, sign) ==
  [g EXCEPT !.iteration = g.iteration + 1, !.sign = sign,
            !.streak = IF sign = g.sign THEN g.streak + 1 ELSE 0]

\* A slip in the budget: one iteration too many.
SpentLate(g) == g.iteration > g.max

Spent(g)   == g.iteration >= g.max
Stalled(g) == g.streak >= g.limit

Copy(d) == drive[d].copy

Written(d, g, pc, finished) ==
  /\ goal' = g
  /\ drive' = [drive EXCEPT ![d] = [drive[d] EXCEPT !.pc = pc, !.copy = NoGoal]]
  /\ WritesBack(Copy(d), 1, finished)
  /\ UNCHANGED <<lock, queued, rearming, bounds>>

\* _finish: the goal is over; its hooks are awaited and it is announced.
Finishes(d, g, status) == Written(d, Over(g, status), "hooks", 1)

Met(d) == In(d, "verify") /\ Finishes(d, Copy(d), "achieved")

GivesUp(d) == In(d, "verify") /\ Copy(d).abandoned /\ Finishes(d, Copy(d), "unachievable")

Continues(d, sign) ==
  /\ In(d, "verify") /\ ~Copy(d).abandoned
  /\ LET g == Counted(Copy(d), sign) IN ~Spent(g) /\ ~Stalled(g) /\ Written(d, g, "decided", 0)

RunsOut(d, sign) ==
  /\ In(d, "verify") /\ ~Copy(d).abandoned
  /\ LET g == Counted(Copy(d), sign) IN Spent(g) /\ Finishes(d, g, "exhausted")

StallsOut(d, sign) ==
  /\ In(d, "verify") /\ ~Copy(d).abandoned
  /\ LET g == Counted(Copy(d), sign) IN
       ~Spent(g) /\ Stalled(g) /\ Finishes(d, g, "unachievable")

HooksDone(d) ==
  /\ In(d, "hooks") /\ Leave(d)
  /\ UNCHANGED <<goal, queued, rearming, bounds, history>>

\* The job of a turn is in the table until the turn is over.
AwaitingSelfResume == queued > 0 \/ Firing # {}

Pause(d) ==
  /\ In(d, "decided") /\ AwaitingSelfResume
  /\ Leave(d)
  /\ UNCHANGED <<goal, queued, rearming, bounds, history>>

\* The next turn: a streaming drive has the lock, a plain one waits for it.
GoOn(d) ==
  /\ In(d, "decided") /\ ~AwaitingSelfResume
  /\ drive' = [drive EXCEPT ![d] =
       [drive[d] EXCEPT !.pc = IF d \in Streams THEN "turn" ELSE "waiting", !.looping = TRUE]]
  /\ UNCHANGED <<goal, lock, queued, rearming, bounds, history>>

-----------------------------------------------------------------------------
(* Interruptions.                                                          *)

\* The tab or the task is closed, or the turn raises.
Cut(d) ==
  /\ Fault("cut") /\ drive[d] # Idle
  /\ Leave(d)
  /\ UNCHANGED <<goal, queued, rearming, armed, history>>

\* The rows of jobs that were firing are still there.
Crash ==
  /\ Fault("crash")
  /\ drive' = [d \in Drives |-> Idle] /\ lock' = Free
  /\ queued' = queued + Cardinality(Firing)
  /\ rearming' = NoRearm
  /\ UNCHANGED <<goal, armed, history>>

-----------------------------------------------------------------------------
Next ==
  \/ \E max \in Budgets, limit \in Limits :
       \/ \E kick \in Kicks : PostSet(max, limit, kick)
       \/ \E d \in Drives : ArriveSetting(d, max, limit) \/ ToolSet(d, max, limit)
  \/ Clear \/ Resume \/ RearmExtends \/ RearmRestarts
  \/ \E add \in Adds : RearmReads(add)
  \/ \E d \in Drives :
       \/ Arrive(d) \/ Fire(d) \/ Enter(d) \/ Held(d) \/ Abandon(d) \/ HandOff(d)
       \/ Parks(d) \/ TurnEnds(d) \/ EndsDrive(d) \/ Judge(d)
       \/ Met(d) \/ GivesUp(d) \/ HooksDone(d) \/ Pause(d) \/ GoOn(d) \/ Cut(d)
       \/ \E sign \in Signs : Continues(d, sign) \/ RunsOut(d, sign) \/ StallsOut(d, sign)
  \/ Crash

Spec == Init /\ [][Next]_vars

Verdict(d) ==
  \/ Met(d) \/ GivesUp(d)
  \/ \E sign \in Signs : Continues(d, sign) \/ RunsOut(d, sign) \/ StallsOut(d, sign)

\* What a drive does next by itself, wherever it is.
RunsOn(d) ==
  TurnEnds(d) \/ EndsDrive(d) \/ Judge(d) \/ Verdict(d) \/ HooksDone(d) \/ Pause(d) \/ GoOn(d)

\* Turns end, verifiers and hooks return, a queued turn gets the lock, and a
\* rearm's thread runs on.
DriveFairness ==
  /\ \A d \in Drives : SF_vars(Enter(d)) /\ WF_vars(RunsOn(d))
  /\ WF_vars(RearmExtends \/ RearmRestarts)

FairSpec == Spec /\ DriveFairness

-----------------------------------------------------------------------------
(* Properties.                                                             *)

\* An arming is evaluated no more often than its budget allows, over all the
\* drives that share it, and it is over when the budget is spent; whatever is
\* set, cleared, given up or extended while an evaluation awaits its verifier.
\* The one exception is what `lost` counts: an evaluation or a rearm wrote its
\* copy over a goal that was not the one it had read (goals/controller.py:438).
BudgetKept ==
  goal # NoGoal /\ lost = 0 =>
    /\ judged <= goal.max
    /\ judged = goal.max => goal.status # "active"

\* Hooks fire, and the end is announced, once for an arming, also when two
\* drives evaluate it at once: each further time has its own lost update.
ToldOnce == lost < MaxLost => told <= 1 + lost

\* When the agent has been told that the goal stops after this turn, no
\* evaluation goes on with it, be it under way by then or of a later drive,
\* unless it, or one before it, writes its copy over a goal not read.
GiveUpStops ==
  [][\A d \in Drives : In(d, "verify") /\ drive'[d] # Idle /\ drive'[d].pc = "decided"
        => ~quit \/ lost' > 0]_vars

\* Every drive ends, whatever is set, extended or queued meanwhile.
EveryDriveEnds == \A d \in Drives : (drive[d] # Idle) ~> (drive[d] = Idle)
=============================================================================
