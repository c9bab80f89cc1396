------------------------------ MODULE Watches ------------------------------
(***************************************************************************)
(* graph/watches: conditions that a cadence loop polls.  An evaluation     *)
(* reads a watch's file, awaits its verifier, and writes the whole watch   *)
(* back; a per-id asyncio.Lock keeps evaluations and updates of one watch  *)
(* apart.  Create and clear take no lock, and clear forgets it.            *)
(*                                                                         *)
(* Time is what has come to pass: deadlines that passed, watches that      *)
(* rested for their interval, finished ones older than the retention.      *)
(* asyncio.Lock is FIFO; here any waiting task may enter a free lock.      *)
(***************************************************************************)
EXTENDS Naturals

CONSTANTS
  Ids,
  Tick, Callers,        \* the task of tick_all; those of evaluate_now and update
  Panel,                \* a worker thread that clears for an operator
  Locks,                \* lock objects
  Verifiers, Evidence, Reasons,
  NoEvidence, NoReason, \* empty strings
  Findings,             \* what the verifiers may find
  Deadlines, NoDeadline,
  Specs, Edits,         \* what create and update are asked for
  NoWatch, NoLock, NoEdit, Idle,
  StallCap,             \* streaks are not counted further than this
  MaxEditions,
  MaxEvents,            \* updates, creates and clears that cross, and faults, together
  Faults                \* the fault kinds that occur

Tasks    == {Tick} \cup Callers
Editions == 1 .. MaxEditions
Fields   == {"verifier", "trigger", "repeat", "paced", "deadline", "stallAfter"}

Settings == [verifier : Verifiers, trigger : {"met", "change"}, repeat : BOOLEAN, paced : BOOLEAN,
             deadline : Deadlines \cup {NoDeadline}, stallAfter : 0 .. StallCap]

\* An update: the fields it passes, and their values.
EditSet == [fields : SUBSET Fields, to : Settings]

\* A persisted watch; the edition tells it from a later one of the same id.
Watch == [edition : Editions, status : {"active", "met", "expired"}, set : Settings,
          wasMet : BOOLEAN, checked : BOOLEAN,
          evidence : Evidence \cup {NoEvidence},
          reason : Reasons \cup {NoReason, "met", "change", "deadline"},
          streak : 0 .. StallCap, notified : BOOLEAN]

Results == [met : BOOLEAN, evidence : Evidence \cup {NoEvidence}, reason : Reasons \cup {NoReason}]

\* A task at a watch.  It holds the watch's lock in every phase but waiting.
Busy == [pc : {"waiting", "verify", "stall", "hooks"}, id : Ids, lock : Locks,
         copy : Watch \cup {NoWatch}, edit : Edits \cup {NoEdit}]

ASSUME WatchesAssumption ==
  /\ Tick \notin Callers /\ Tick # Panel
  /\ Findings \subseteq Results /\ Specs \subseteq Settings /\ Edits \subseteq EditSet /\ NoEdit \notin Edits
  /\ NoWatch \notin Watch /\ NoLock \notin Locks /\ Idle \notin Busy /\ NoDeadline \notin Deadlines
  /\ {StallCap, MaxEditions, MaxEvents} \subseteq Nat
  /\ Faults \subseteq {"crash", "raise"}

VARIABLES
  file,       \* the store: one file per id
  lockOf,     \* _locks
  task,
  sweep,      \* what tick_all still has to do of its snapshot
  unlinking,  \* a thread has forgotten the lock and not deleted the file yet
  world,      \* what each verifier would find now
  passed,     \* the deadlines that have passed
  rested,     \* ids whose interval_s has gone by since their last check
  aged,       \* ids whose finished watch is past keep_terminal_h
  made, events,         \* how many watches were created, and events there were
  acked,      \* history: the edition and settings last acknowledged for an id
  sawMet,     \* history: the last check of this edition and trigger found it met
  told,       \* history: on_stalled fired in this stall episode
  crossed     \* history: ids for which a create or a clear met another step
              \* that was under way; such an id is so until it is created anew

env     == <<world, passed, rested, aged>>
bounds  == <<made, events>>
history == <<acked, sawMet, told, crossed>>
vars    == <<file, lockOf, task, sweep, unlinking, env, bounds, history>>

NoSweep == [on |-> FALSE, prune |-> {}, due |-> {}]

TypeOK ==
  /\ file \in [Ids -> Watch \cup {NoWatch}]
  /\ lockOf \in [Ids -> Locks \cup {NoLock}]
  /\ task \in [Tasks -> Busy \cup {Idle}]
  /\ sweep \in [on : BOOLEAN, prune : SUBSET Ids, due : SUBSET Ids]
  /\ unlinking \subseteq {Tick, Panel} \X Ids
  /\ world \in [Verifiers -> Findings]
  /\ passed \subseteq Deadlines /\ rested \subseteq Ids /\ aged \subseteq Ids
  /\ made \in 0 .. MaxEditions /\ events \in 0 .. MaxEvents
  /\ acked \in [Ids -> [edition : Editions, set : Settings] \cup {NoWatch}]
  /\ sawMet \in [Ids -> BOOLEAN] /\ told \in [Ids -> BOOLEAN] /\ crossed \subseteq Ids

Init ==
  /\ file = [i \in Ids |-> NoWatch] /\ lockOf = [i \in Ids |-> NoLock]
  /\ task = [t \in Tasks |-> Idle] /\ sweep = NoSweep /\ unlinking = {}
  /\ world \in [Verifiers -> Findings]
  /\ passed = {} /\ rested = {} /\ aged = {}
  /\ made = 0 /\ events = 0
  /\ acked = [i \in Ids |-> NoWatch]
  /\ sawMet = [i \in Ids |-> FALSE] /\ told = [i \in Ids |-> FALSE]
  /\ crossed = {}

Event       == events < MaxEvents /\ events' = events + 1
Fault(kind) == kind \in Faults /\ Event

Active(i) == file[i] # NoWatch /\ file[i].status = "active"
At(i)     == {t \in Tasks : task[t] # Idle /\ task[t].id = i}
Users(l)  == {t \in Tasks : task[t] # Idle /\ task[t].lock = l}
TickClears == \E i \in Ids : <<Tick, i>> \in unlinking

\* Nobody is between two steps at i: no evaluation or update, no prune of it,
\* no clear.
Apart(i) == At(i) = {} /\ i \notin sweep.prune /\ \A c \in {Tick, Panel} : <<c, i>> \notin unlinking

\* A history of an id; of one that is crossed nothing more is noted.
Noted(h, i, now) == [h EXCEPT ![i] = IF i \in crossed THEN @ ELSE now]

NewHistory(i, a) == /\ acked' = [acked EXCEPT ![i] = a]
                    /\ sawMet' = [sawMet EXCEPT ![i] = FALSE]
                    /\ told' = [told EXCEPT ![i] = FALSE]

Crosses(i) == Event /\ crossed' = crossed \cup {i} /\ NewHistory(i, NoWatch)

-----------------------------------------------------------------------------
(* Create, clear and prune: they take no lock.                             *)

Created(n, s) == [edition |-> n, status |-> "active", set |-> s, wasMet |-> FALSE,
                  checked |-> FALSE, evidence |-> NoEvidence, reason |-> NoReason,
                  streak |-> 0, notified |-> FALSE]

\* Time counts anew for the watch.
Restarts(i) == rested' = rested \ {i} /\ aged' = aged \ {i} /\ UNCHANGED <<world, passed>>

Create(i, s) ==
  /\ made < MaxEditions /\ made' = made + 1
  /\ file' = [file EXCEPT ![i] = Created(made + 1, s)]
  /\ IF Apart(i)
     THEN /\ crossed' = crossed \ {i} /\ NewHistory(i, [edition |-> made + 1, set |-> s])
          /\ UNCHANGED events
     ELSE Crosses(i)
  /\ Restarts(i)
  /\ UNCHANGED <<lockOf, task, sweep, unlinking>>

\* clear in a thread: the lock is popped, then the file is deleted.  A clear on
\* the loop is the two steps with nothing in between.
PopLock(c, i) ==
  /\ lockOf' = [lockOf EXCEPT ![i] = NoLock]
  /\ unlinking' = unlinking \cup {<<c, i>>}
  /\ UNCHANGED <<file, task, env, made>>

Clear(i) ==
  /\ file[i] # NoWatch /\ <<Panel, i>> \notin unlinking
  /\ PopLock(Panel, i) /\ UNCHANGED sweep
  /\ IF Apart(i) THEN UNCHANGED <<events, history>> ELSE Crosses(i)

\* prune_terminal goes by the snapshot that tick_all took.
Prune(i) ==
  /\ i \in sweep.prune /\ ~TickClears
  /\ sweep' = [sweep EXCEPT !.prune = @ \ {i}]
  /\ PopLock(Tick, i) /\ UNCHANGED <<events, history>>

\* A clear ends what was acknowledged; a prune may only end what has finished.
Unlink(c, i) ==
  /\ <<c, i>> \in unlinking /\ unlinking' = unlinking \ {<<c, i>>}
  /\ file' = [file EXCEPT ![i] = NoWatch]
  /\ acked' = IF c = Tick /\ Active(i) THEN acked ELSE Noted(acked, i, NoWatch)
  /\ Restarts(i)
  /\ UNCHANGED <<lockOf, task, sweep, bounds, sawMet, told, crossed>>

-----------------------------------------------------------------------------
(* Tasks at a watch: the lock, updates, evaluations.                       *)

\* _lock_for: the registered lock, or a new one, whichever.
LockFor(i) ==
  LET new == {l \in Locks : Users(l) = {} /\ \A j \in Ids : lockOf[j] # l}
  IN IF lockOf[i] # NoLock THEN {lockOf[i]} ELSE {l \in new : l = CHOOSE k \in new : TRUE}

Begin(t, i, e) ==
  /\ task[t] = Idle
  /\ \E l \in LockFor(i) :
       /\ lockOf' = [lockOf EXCEPT ![i] = l]
       /\ task' = [task EXCEPT ![t] = [pc |-> "waiting", id |-> i, lock |-> l,
                                       copy |-> NoWatch, edit |-> e]]
  /\ UNCHANGED <<file, unlinking, env, made>>

\* A clear may be between the pop of the lock and the deletion of the file.
MayCross(i) == IF <<Panel, i>> \in unlinking THEN Crosses(i) ELSE UNCHANGED <<events, history>>

EvaluateNow(t, i) == t # Tick /\ Begin(t, i, NoEdit) /\ MayCross(i) /\ UNCHANGED sweep

Update(t, i, e) ==
  /\ t # Tick /\ Event
  /\ IF <<Panel, i>> \in unlinking THEN Crosses(i) ELSE UNCHANGED history
  /\ Begin(t, i, e) /\ UNCHANGED sweep

TickEvaluate(i) ==
  /\ i \in sweep.due /\ sweep.prune = {} /\ ~TickClears
  /\ sweep' = [sweep EXCEPT !.due = @ \ {i}]
  /\ Begin(Tick, i, NoEdit) /\ MayCross(i)

Leave(t) == task' = [task EXCEPT ![t] = Idle]

\* A slip: the lock is not awaited.
AcquiresAnyway(t) == task[t] # Idle /\ task[t].pc = "waiting"

\* The lock is free and t is let in.
Acquires(t) ==
  /\ task[t] # Idle /\ task[t].pc = "waiting"
  /\ {u \in Users(task[t].lock) : task[u].pc # "waiting"} = {}

\* The settings after an update, and the watch: a passed threshold starts a
\* new stall episode, another trigger a new edge.
Pick(e, f, new, old) == IF f \in e.fields THEN new ELSE old

EditedSettings(s, e) ==
  [verifier   |-> Pick(e, "verifier", e.to.verifier, s.verifier),
   trigger    |-> Pick(e, "trigger", e.to.trigger, s.trigger),
   repeat     |-> Pick(e, "repeat", e.to.repeat, s.repeat),
   paced      |-> Pick(e, "paced", e.to.paced, s.paced),
   deadline   |-> Pick(e, "deadline", e.to.deadline, s.deadline),
   stallAfter |-> Pick(e, "stallAfter", e.to.stallAfter, s.stallAfter)]

Edited(w, e) ==
  LET s == EditedSettings(w.set, e)
  IN [w EXCEPT !.set = s,
               !.wasMet = @ /\ s.trigger = w.set.trigger,
               !.streak = Pick(e, "stallAfter", 0, @),
               !.notified = Pick(e, "stallAfter", FALSE, @)]

\* update, once it has the lock; it awaits nothing.
ApplyUpdate(t) ==
  /\ Acquires(t) /\ task[t].edit # NoEdit
  /\ LET i == task[t].id  e == task[t].edit IN
       IF ~Active(i) THEN UNCHANGED <<file, history>>
       ELSE LET w == Edited(file[i], e) IN
            /\ file' = [file EXCEPT ![i] = w]
            /\ acked' = Noted(acked, i, [edition |-> w.edition, set |-> w.set])
            /\ sawMet' = Noted(sawMet, i, sawMet[i] /\ w.set.trigger = file[i].set.trigger)
            /\ told' = Noted(told, i, told[i] /\ "stallAfter" \notin e.fields)
            /\ UNCHANGED crossed
  /\ Leave(t)
  /\ UNCHANGED <<lockOf, sweep, unlinking, env, bounds>>

\* _evaluate_unlocked up to the await of the verifier.
Read(t) ==
  /\ Acquires(t) /\ task[t].edit = NoEdit
  /\ IF Active(task[t].id)
     THEN task' = [task EXCEPT ![t] = [@ EXCEPT !.pc = "verify", !.copy = file[task[t].id]]]
     ELSE Leave(t)
  /\ UNCHANGED <<file, lockOf, sweep, unlinking, env, bounds, history>>

\* What the verifier of t's watch answers.
Result(t) == world[task[t].copy.set.verifier]

Changed(w, r) == r.evidence # w.evidence \/ r.reason # w.reason

\* A slip: the level fires, not the edge.
FiresOnLevel(w, r) == IF w.set.trigger = "change" THEN Changed(w, r) /\ w.checked ELSE r.met

FiresOn(w, r) ==
  IF w.set.trigger = "change" THEN Changed(w, r) /\ w.checked ELSE r.met /\ ~w.wasMet

\* The reason a fire records: the verifier's, or a text of its own.
Spoken(w, r) == IF r.reason = NoReason THEN w.set.trigger ELSE r.reason

Finished(w, status, reason, r) ==
  [w EXCEPT !.status = status, !.wasMet = r.met, !.reason = reason,
            !.evidence = IF r.evidence = NoEvidence THEN @ ELSE r.evidence]

StaysArmed(w, r) ==
  [w EXCEPT !.wasMet = r.met, !.checked = TRUE, !.reason = Spoken(w, r),
            !.evidence = r.evidence, !.streak = 0, !.notified = FALSE]

Streak(w, r) == IF Changed(w, r) THEN 0 ELSE IF w.streak < StallCap THEN w.streak + 1 ELSE w.streak

\* A slip: the episode's notice is not remembered.
StallsAgain(w, r) == w.set.stallAfter > 0 /\ Streak(w, r) >= w.set.stallAfter

Stalls(w, r) ==
  w.set.stallAfter > 0 /\ Streak(w, r) >= w.set.stallAfter /\ ~w.notified

Observed(w, r) ==
  [w EXCEPT !.wasMet = r.met, !.checked = TRUE, !.reason = r.reason, !.evidence = r.evidence,
            !.streak = Streak(w, r), !.notified = Stalls(w, r) \/ (@ /\ ~Changed(w, r))]

\* t's verifier answers; the history notes what it found.
Answers(t) ==
  /\ task[t] # Idle /\ task[t].pc = "verify"
  /\ sawMet' = Noted(sawMet, task[t].id, Result(t).met)
  /\ UNCHANGED <<lockOf, sweep, unlinking, bounds, acked, crossed>>

\* The watch is written as just checked.
Write(t, w) == file' = [file EXCEPT ![task[t].id] = w] /\ Restarts(task[t].id)

\* A slip: repeating watches do not expire.
OverdueOnce(w) == ~w.set.repeat /\ w.set.deadline \in passed
Overdue(w)     == w.set.deadline \in passed

\* on_stalled was told of this episode, which a change of the value ends.
EpisodeGoesOn(t, stalls) ==
  LET i == task[t].id
  IN told' = Noted(told, i, stalls \/ (told[i] /\ ~Changed(task[t].copy, Result(t))))

\* The observation trips the watch, which finishes or stays armed; _react
\* enqueues the turn and awaits the hooks with the lock held.
Fire(t) ==
  /\ Answers(t)
  /\ LET w == task[t].copy  r == Result(t) IN
       /\ FiresOn(w, r)
       /\ IF w.set.repeat
          THEN Write(t, StaysArmed(w, r))
          ELSE Write(t, Finished(w, "met", Spoken(w, r), r))
  /\ told' = Noted(told, task[t].id, FALSE)
  /\ task' = [task EXCEPT ![t].pc = "hooks"]

\* It does not trip and the deadline has passed.
Expire(t) ==
  /\ Answers(t)
  /\ LET w == task[t].copy  r == Result(t) IN
       /\ ~FiresOn(w, r) /\ Overdue(w)
       /\ Write(t, Finished(w, "expired", "deadline", r))
  /\ task' = [task EXCEPT ![t].pc = "hooks"]
  /\ UNCHANGED told

\* It stalls: the hooks of on_stalled run before the watch is written.
Stall(t) ==
  /\ Answers(t)
  /\ LET w == task[t].copy  r == Result(t) IN
       /\ ~FiresOn(w, r) /\ ~Overdue(w) /\ Stalls(w, r)
       /\ task' = [task EXCEPT ![t] = [@ EXCEPT !.pc = "stall", !.copy = Observed(w, r)]]
  /\ EpisodeGoesOn(t, TRUE)
  /\ UNCHANGED <<file, env>>

StallWritten(t) ==
  /\ task[t] # Idle /\ task[t].pc = "stall"
  /\ Write(t, task[t].copy) /\ Leave(t)
  /\ UNCHANGED <<lockOf, sweep, unlinking, bounds, history>>

\* Nothing to tell: the observation is recorded.
Observe(t) ==
  /\ Answers(t)
  /\ LET w == task[t].copy  r == Result(t) IN
       ~FiresOn(w, r) /\ ~Overdue(w) /\ ~Stalls(w, r) /\ Write(t, Observed(w, r))
  /\ EpisodeGoesOn(t, FALSE)
  /\ Leave(t)

\* The verifier raises: nothing is written, and the tick goes on.
VerifierRaises(t) ==
  /\ Fault("raise") /\ task[t] # Idle /\ task[t].pc = "verify" /\ Leave(t)
  /\ UNCHANGED <<file, lockOf, sweep, unlinking, env, made, history>>

HooksReturn(t) ==
  /\ task[t] # Idle /\ task[t].pc = "hooks" /\ Leave(t)
  /\ UNCHANGED <<file, lockOf, sweep, unlinking, env, bounds, history>>

-----------------------------------------------------------------------------
(* tick_all, time and the world.                                           *)

\* The snapshot: what finished long ago, and the active watches that are due.
Scan ==
  /\ ~sweep.on /\ task[Tick] = Idle
  /\ sweep' = [on |-> TRUE,
               prune |-> {i \in Ids : file[i] # NoWatch /\ ~Active(i) /\ i \in aged},
               due |-> {i \in Ids : /\ Active(i)
                                    /\ ~file[i].set.paced \/ ~file[i].checked \/ i \in rested}]
  /\ UNCHANGED <<file, lockOf, task, unlinking, env, bounds, history>>

\* A slip: the loop makes one pass.
TickStops ==
  /\ sweep.on /\ sweep.prune = {} /\ sweep.due = {} /\ ~TickClears /\ task[Tick] = Idle
  /\ UNCHANGED vars

TickDone ==
  /\ sweep.on /\ sweep.prune = {} /\ sweep.due = {} /\ ~TickClears /\ task[Tick] = Idle
  /\ sweep' = NoSweep
  /\ UNCHANGED <<file, lockOf, task, unlinking, env, bounds, history>>

Rest(i) ==
  /\ Active(i) /\ rested' = rested \cup {i}
  /\ UNCHANGED <<file, lockOf, task, sweep, unlinking, world, passed, aged, bounds, history>>

Age(i) ==
  /\ file[i] # NoWatch /\ ~Active(i) /\ aged' = aged \cup {i}
  /\ UNCHANGED <<file, lockOf, task, sweep, unlinking, world, passed, rested, bounds, history>>

Pass(d) ==
  /\ passed' = passed \cup {d}
  /\ UNCHANGED <<file, lockOf, task, sweep, unlinking, world, rested, aged, bounds, history>>

WorldMoves(v) ==
  /\ \E r \in Findings : world' = [world EXCEPT ![v] = r]
  /\ UNCHANGED <<file, lockOf, task, sweep, unlinking, passed, rested, aged, bounds, history>>

\* The files stay.  An on_stalled that was not written will be told again.
Crash ==
  /\ Fault("crash")
  /\ task' = [t \in Tasks |-> Idle] /\ lockOf' = [i \in Ids |-> NoLock]
  /\ sweep' = NoSweep /\ unlinking' = {}
  /\ told' = [i \in Ids |-> told[i] /\ \A t \in At(i) : task[t].pc # "stall"]
  /\ sawMet' = [i \in Ids |-> file[i] # NoWatch /\ file[i].wasMet /\ i \notin crossed]
  /\ UNCHANGED <<file, env, made, acked, crossed>>

-----------------------------------------------------------------------------
EvaluationStep(t) == \/ Read(t) \/ ApplyUpdate(t) \/ Fire(t) \/ Expire(t) \/ Stall(t)
                     \/ StallWritten(t) \/ Observe(t) \/ HooksReturn(t)

Next ==
  \/ \E i \in Ids : \/ \E s \in Specs : Create(i, s)
                    \/ Clear(i) \/ Prune(i) \/ TickEvaluate(i) \/ Rest(i) \/ Age(i)
                    \/ \E c \in {Tick, Panel} : Unlink(c, i)
                    \/ \E t \in Callers : EvaluateNow(t, i) \/ \E e \in Edits : Update(t, i, e)
  \/ \E t \in Tasks : EvaluationStep(t) \/ VerifierRaises(t)
  \/ Scan \/ TickDone \/ Crash
  \/ \E d \in Deadlines : Pass(d)
  \/ \E v \in Verifiers : WorldMoves(v)

Spec == Init /\ [][Next]_vars

\* What tick_all does next, and what a task in an evaluation does next.
TickRuns ==
  Scan \/ TickDone \/ \E i \in Ids : Prune(i) \/ Unlink(Tick, i) \/ TickEvaluate(i)

RunsOn(t) ==
  Fire(t) \/ Expire(t) \/ Stall(t) \/ Observe(t) \/ StallWritten(t) \/ HooksReturn(t)

\* The loop and a clear's thread run, verifiers and hooks return, intervals go
\* by, and a lock, which is FIFO, lets in whoever waits.
Fairness ==
  /\ WF_vars(TickRuns)
  /\ \A i \in Ids : WF_vars(Rest(i)) /\ WF_vars(Unlink(Panel, i))
  /\ \A t \in Tasks : SF_vars(Read(t) \/ ApplyUpdate(t)) /\ WF_vars(RunsOn(t))

FairSpec == Spec /\ Fairness

-----------------------------------------------------------------------------
(* Properties.                                                             *)

\* The properties that go on to say "not crossed" leave out the watches of which
\* the code loses an update: create and clear take no lock, clear in its thread
\* forgets the lock that an evaluation holds (graph/watches/controller.py:69), and
\* an evaluation that was under way then writes its watch back.

\* While a verifier runs, the copy that its evaluation will write back is what
\* the file holds: nobody else wrote the watch since it was read; unless a create
\* or a clear crossed it.
CopyIsFresh ==
  \A t \in Tasks : task[t] # Idle /\ task[t].pc = "verify" /\ task[t].id \notin crossed
                     => file[task[t].id] = task[t].copy

\* The file holds the edition and the settings that the last create or update
\* acknowledged, and no file is there after a clear or a prune: no evaluation
\* writes an edit away, none brings a watch back, and no prune takes a live one;
\* unless a create or a clear crossed another step at the watch.
SettingsStand ==
  \A i \in Ids \ crossed : acked[i] = IF file[i] = NoWatch THEN NoWatch
                                      ELSE [edition |-> file[i].edition, set |-> file[i].set]

\* A watch that finished stays as it finished until it is deleted or replaced;
\* unless a create or a clear crossed an evaluation of it.
TerminalIsFinal ==
  [][\A i \in Ids \ crossed : file[i] # NoWatch /\ ~Active(i) =>
       file'[i] \in {file[i], NoWatch} \/ file'[i].edition # file[i].edition]_vars

Starts(t, phase) ==
  task[t] # Idle /\ task[t].pc = "verify" /\ task'[t] # Idle /\ task'[t].pc = phase

\* A tripwire fires on the edge: only if the check before, of whichever task,
\* did not find it met; unless a clear that crossed let two evaluations in.
EdgeOnly ==
  [][\A t \in Tasks :
       Starts(t, "hooks") /\ task[t].copy.set.trigger = "met" /\ task[t].id \notin crossed
         => file'[task[t].id].status = "expired" \/ ~sawMet[task[t].id]]_vars

\* on_stalled is told once in a stall episode, or again after a crash before
\* the telling was written, or where a create or a clear crossed.
StallToldOnce ==
  [][\A t \in Tasks : Starts(t, "stall") /\ task[t].id \notin crossed => ~told[task[t].id]]_vars

\* A tripwire that is not satisfied yet and whose condition comes to hold
\* reacts, unless the condition, the watch or its trigger changes first, or a
\* create or a clear crossed: an evaluation from before it may then write the
\* edge as seen.
Holds(i) ==
  Active(i) /\ file[i].set.trigger = "met" /\ world[file[i].set.verifier].met
Reacting(i) == \E t \in At(i) : task[t].pc = "hooks"
FiresWhenMet ==
  \A i \in Ids : (Holds(i) /\ ~file[i].wasMet) ~> (Reacting(i) \/ ~Holds(i) \/ i \in crossed)

\* A watch whose deadline has passed ends; one that watches for a change may
\* instead fire, at every check that finds one: it stays late for ever only if it
\* fires again and again, since a check that fires does not look at the deadline
\* (graph/watches/controller.py:344-359).
Late(i) == Active(i) /\ file[i].set.deadline \in passed
DeadlineEnds ==
  \A i \in Ids : Late(i) ~> (~Late(i) \/ (file[i].set.trigger = "change" /\ Reacting(i)))
=============================================================================
