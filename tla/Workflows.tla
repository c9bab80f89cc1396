----------------------------- MODULE Workflows -----------------------------
(***************************************************************************)
(* plugins/workflows: runs of a recipe, a graph of steps that each are a   *)
(* turn of a subagent.  The engine runs the ready steps as a wave, bounded *)
(* by a semaphore, and folds their results in when the last of them has    *)
(* returned; before a wave it parks the run at a step with `gate: human`.  *)
(* The record of a run is a file: it is what survives a crash, and what a  *)
(* resume goes on from, with the recipe that is saved by then.             *)
(*                                                                         *)
(* One recipe name.  Steps are numbered by their place in its list.        *)
(***************************************************************************)
EXTENDS Naturals, FiniteSets

CONSTANTS
  Runs,          \* run ids
  Steps,         \* the places in a recipe's list of steps
  Recipes,       \* the recipes that are saved under the name
  NoRecipe, NoRun, Idle,
  Streaming,     \* whether a run reports its steps to a chat (on_step)
  MayHang,       \* steps whose subagent may never answer
  MaxSaves, MaxAsks,   \* how often the recipe is saved, a run asked to resume
  Faults, MaxFaults    \* the fault kinds that occur, and how many

ASSUME WorkflowsAssumption ==
  /\ Steps \subseteq Nat \ {0} /\ IsFiniteSet(Steps) /\ MayHang \subseteq Steps
  /\ \A c \in Recipes :
       /\ c \in [steps : SUBSET Steps, deps : [Steps -> SUBSET Steps],
                 gated : SUBSET Steps, timed : SUBSET Steps, width : Nat \ {0}]
       /\ \A s \in c.steps : c.deps[s] \subseteq c.steps
  /\ NoRecipe \notin Recipes /\ Streaming \subseteq BOOLEAN
  /\ MaxSaves \in Nat /\ MaxAsks \in Nat /\ MaxFaults \in Nat
  /\ Faults \subseteq {"cancel", "crash"}

VARIABLES
  saved,      \* the recipe that the registry holds under the name
  file,       \* the record of each run
  engine,     \* the execution of each run that is under way
  asked,      \* resumes in the background that have not started
  ran,        \* history: the steps each run has dispatched
  approved,   \* history: the steps the operator let each run dispatch
  saves, faults

vars == <<saved, file, engine, asked, ran, approved, saves, faults>>

Outcomes  == {"none", "out", "gap", "error", "rejected"}
Phases    == {"none", "queued", "running", "saved", "out", "gap", "error"}
Decisions == {"approve", "reject"}     \* an edit is an approval with a prompt

Records == [status : {"running", "paused", "done", "failed"},
            pending : Steps \cup {0},
            outputs : [Steps -> Outcomes],
            meta : [Steps -> {"none", "running", "done", "failed"}]]

Executions == [recipe : Recipes, done : [Steps -> Outcomes], failed : SUBSET Steps,
               pending : SUBSET Steps, skip : SUBSET Steps,
               wave : [Steps -> Phases], streamed : BOOLEAN]

ASSUME WorkflowsSentinels == NoRun \notin Records /\ Idle \notin Executions

TypeOK ==
  /\ saved \in Recipes \cup {NoRecipe}
  /\ file \in [Runs -> Records \cup {NoRun}]
  /\ engine \in [Runs -> Executions \cup {Idle}]
  /\ asked \in [Runs -> [Decisions -> 0 .. MaxAsks]]
  /\ ran \in [Runs -> SUBSET Steps] /\ approved \in [Runs -> SUBSET Steps]
  /\ saves \in 0 .. MaxSaves /\ faults \in 0 .. MaxFaults

Nothing == [s \in Steps |-> "none"]

Init ==
  /\ saved \in Recipes
  /\ file = [r \in Runs |-> NoRun]
  /\ engine = [r \in Runs |-> Idle]
  /\ asked = [r \in Runs |-> [h \in Decisions |-> 0]]
  /\ ran = [r \in Runs |-> {}] /\ approved = [r \in Runs |-> {}]
  /\ saves = 0 /\ faults = 0

Exists(r)  == file[r] # NoRun
Status(r)  == IF Exists(r) THEN file[r].status ELSE "none"
Active(r)  == engine[r] # Idle

Fault(kind) == kind \in Faults /\ faults < MaxFaults /\ faults' = faults + 1

-----------------------------------------------------------------------------
(* The registry: only a recipe that validates is saved.                    *)

Save(c) ==
  /\ saves < MaxSaves /\ c # saved
  /\ saved' = c /\ saves' = saves + 1
  /\ UNCHANGED <<file, engine, asked, ran, approved, faults>>

Delete ==
  /\ saves < MaxSaves /\ saved # NoRecipe
  /\ saved' = NoRecipe /\ saves' = saves + 1
  /\ UNCHANGED <<file, engine, asked, ran, approved, faults>>

-----------------------------------------------------------------------------
(* The engine.                                                             *)

Resolved(done) == {s \in Steps : done[s] # "none"}

\* An execution before its first wave: what is seeded is not run again.
Execution(recipe, done, failed, skip, streamed) ==
  [recipe |-> recipe, done |-> done, failed |-> failed,
   pending |-> recipe.steps \ Resolved(done), skip |-> skip,
   wave |-> Nothing, streamed |-> streamed]

WaveOver(e) == \A s \in Steps : e.wave[s] \in {"none", "out", "gap", "error"}

\* The gather has returned: the results of the wave are folded in.
Folded(e) ==
  [e EXCEPT !.done = [s \in Steps |-> IF e.wave[s] # "none" THEN e.wave[s] ELSE e.done[s]],
            !.failed = @ \cup {s \in Steps : e.wave[s] = "error"},
            !.pending = @ \ Resolved(e.wave),
            !.wave = Nothing]

Ready(e) == {s \in e.pending : e.recipe.deps[s] \subseteq Resolved(e.done)}

\* Slips in the gate: only the first ready step is asked for, or the decision
\* that resumed the run is not remembered.
GatesOfFirst(e) == {s \in (Ready(e) \cap e.recipe.gated) \ e.skip : \A t \in Ready(e) : s <= t}
GatesAskedAgain(e) == Ready(e) \cap e.recipe.gated

Gates(e) == (Ready(e) \cap e.recipe.gated) \ e.skip

First(S) == CHOOSE s \in S : \A t \in S : s <= t

\* WorkflowRunStore.start.  (Its prune deletes records of finished runs only,
\* which nothing here reads.)
Start(r, streamed) ==
  /\ file[r] = NoRun /\ saved # NoRecipe
  /\ file' = [file EXCEPT ![r] = [status |-> "running", pending |-> 0,
                                  outputs |-> Nothing, meta |-> Nothing]]
  /\ engine' = [engine EXCEPT ![r] = Execution(saved, Nothing, {}, {}, streamed)]
  /\ UNCHANGED <<saved, asked, ran, approved, saves, faults>>

Spawn(r) ==
  /\ Active(r) /\ WaveOver(engine[r])
  /\ LET e == Folded(engine[r]) IN
       /\ Gates(e) = {} /\ Ready(e) # {}
       /\ engine' = [engine EXCEPT ![r] =
            [e EXCEPT !.wave = [s \in Steps |-> IF s \in Ready(e) THEN "queued" ELSE "none"]]]
  /\ UNCHANGED <<saved, file, asked, ran, approved, saves, faults>>

\* A slip in pause: the outputs of this pass are not merged into the record.
MergeNothing(outputs, done) == outputs

\* step_outputs.update(completed).
Merged(outputs, done) == [s \in Steps |-> IF done[s] # "none" THEN done[s] ELSE outputs[s]]

Parked(record, e) ==
  [record EXCEPT !.status = "paused", !.pending = First(Gates(e)),
                 !.outputs = Merged(@, e.done)]

\* Failed steps are mirrored into the record, which becomes terminal.
Finished(record, e) ==
  [record EXCEPT !.status = IF e.failed = {} THEN "done" ELSE "failed",
                 !.outputs = [s \in Steps |-> IF s \in e.failed THEN e.done[s] ELSE @[s]],
                 !.meta = [s \in Steps |-> IF s \in e.failed THEN "failed" ELSE @[s]]]

\* A gate among the ready steps: the first in the list, before any is spawned.
Park(r) ==
  /\ Active(r) /\ WaveOver(engine[r])
  /\ LET e == Folded(engine[r]) IN
       /\ Gates(e) # {}
       /\ file' = [file EXCEPT ![r] = Parked(file[r], e)]
  /\ engine' = [engine EXCEPT ![r] = Idle]
  /\ UNCHANGED <<saved, asked, ran, approved, saves, faults>>

Finish(r) ==
  /\ Active(r) /\ WaveOver(engine[r])
  /\ LET e == Folded(engine[r]) IN
       /\ e.pending = {}
       /\ file' = [file EXCEPT ![r] = Finished(file[r], e)]
  /\ engine' = [engine EXCEPT ![r] = Idle]
  /\ UNCHANGED <<saved, asked, ran, approved, saves, faults>>

-----------------------------------------------------------------------------
(* A step of a wave.                                                       *)

Moves(r, s, phase) == engine' = [engine EXCEPT ![r].wave[s] = phase]

Holding(e) == {s \in Steps : e.wave[s] \in {"running", "saved"}}
Queued(e)  == {s \in Steps : e.wave[s] = "queued"}

\* The semaphore is FIFO.  _run_step marks the step and calls the subagent.
Dispatch(r, s) ==
  /\ Active(r) /\ s \in Queued(engine[r]) /\ s = First(Queued(engine[r]))
  /\ Cardinality(Holding(engine[r])) < engine[r].recipe.width
  /\ Moves(r, s, "running")
  /\ file' = [file EXCEPT ![r].meta[s] = "running"]
  /\ ran' = [ran EXCEPT ![r] = @ \cup {s}]
  /\ UNCHANGED <<saved, asked, approved, saves, faults>>

\* The subagent answers and step_done records it; the chat is told next.
Answers(r, s) ==
  /\ Active(r) /\ engine[r].wave[s] = "running"
  /\ Moves(r, s, IF engine[r].streamed THEN "saved" ELSE "out")
  /\ file' = [file EXCEPT ![r] = [@ EXCEPT !.outputs[s] = "out", !.meta[s] = "done"]]
  /\ UNCHANGED <<saved, asked, ran, approved, saves, faults>>

Told(r, s) ==
  /\ Active(r) /\ engine[r].wave[s] = "saved"
  /\ Moves(r, s, "out")
  /\ UNCHANGED <<saved, file, asked, ran, approved, saves, faults>>

\* The error is the step's output in the engine; the record learns it later.
Raises(r, s) ==
  /\ Active(r) /\ engine[r].wave[s] = "running"
  /\ Moves(r, s, "error")
  /\ UNCHANGED <<saved, file, asked, ran, approved, saves, faults>>

\* A slip in the step: its time limit is not applied.
NeverTimesOut(r, s) == FALSE /\ UNCHANGED vars

\* wait_for: the step is cut off, even while the chat is told.
TimesOut(r, s) ==
  /\ Active(r) /\ engine[r].wave[s] \in {"running", "saved"} /\ s \in engine[r].recipe.timed
  /\ Moves(r, s, "gap")
  /\ UNCHANGED <<saved, file, asked, ran, approved, saves, faults>>

-----------------------------------------------------------------------------
(* Resuming a paused run.                                                  *)

\* A slip in the precheck: a second resume is let in while the run goes on.
ResumableWhileItRuns(r) == Status(r) \in {"paused", "running"} /\ saved # NoRecipe

\* _resume_precheck; a run without a recipe is refused next.
Resumable(r) == Status(r) = "paused" /\ saved # NoRecipe

\* The record flips to running; its outputs seed the execution, and the gate
\* that was decided is not asked for again.
Continue(r, decision) ==
  LET p    == file[r].pending
      held == file[r].outputs
      no   == decision = "reject" /\ p \in saved.steps
      done == IF no THEN [held EXCEPT ![p] = "rejected"] ELSE held
  IN /\ file' = [file EXCEPT ![r] = [@ EXCEPT !.status = "running", !.pending = 0]]
     /\ engine' = [engine EXCEPT ![r] =
          Execution(saved, done, IF no THEN {p} ELSE {}, {p}, FALSE)]
     /\ approved' = [approved EXCEPT ![r] =
          IF decision = "approve" /\ p \in saved.steps THEN @ \cup {p} ELSE @ \ {p}]

\* In the request itself.
Resume(r, decision) ==
  /\ Resumable(r) /\ Continue(r, decision)
  /\ UNCHANGED <<saved, asked, ran, saves, faults>>

\* In the background: the precheck of the request, and that of its task.
Ask(r, decision) ==
  /\ Status(r) = "paused" /\ asked[r][decision] < MaxAsks
  /\ asked' = [asked EXCEPT ![r][decision] = @ + 1]
  /\ UNCHANGED <<saved, file, engine, ran, approved, saves, faults>>

Taken(r, decision) ==
  asked[r][decision] > 0 /\ asked' = [asked EXCEPT ![r][decision] = @ - 1]

ResumeAsked(r, decision) ==
  /\ Taken(r, decision) /\ Resumable(r) /\ Continue(r, decision)
  /\ UNCHANGED <<saved, ran, saves, faults>>

\* The task raises: `run-finished` is announced as failed.
RefuseAsked(r, decision) ==
  /\ Taken(r, decision) /\ ~Resumable(r)
  /\ UNCHANGED <<saved, file, engine, ran, approved, saves, faults>>

-----------------------------------------------------------------------------
(* Interruptions: the records stay as they are.                            *)

\* The chat turn or the request that runs the workflow is cancelled.
CancelRun(r) ==
  /\ Fault("cancel") /\ Active(r)
  /\ engine' = [engine EXCEPT ![r] = Idle]
  /\ UNCHANGED <<saved, file, asked, ran, approved, saves>>

Crash ==
  /\ Fault("crash")
  /\ engine' = [r \in Runs |-> Idle]
  /\ asked' = [r \in Runs |-> [h \in Decisions |-> 0]]
  /\ UNCHANGED <<saved, file, ran, approved, saves>>

-----------------------------------------------------------------------------
Next ==
  \/ \E c \in Recipes : Save(c)
  \/ Delete
  \/ \E r \in Runs, b \in Streaming : Start(r, b)
  \/ \E r \in Runs : Spawn(r) \/ Park(r) \/ Finish(r)
  \/ \E r \in Runs, s \in Steps :
       Dispatch(r, s) \/ Answers(r, s) \/ Told(r, s) \/ Raises(r, s) \/ TimesOut(r, s)
  \/ \E r \in Runs, h \in Decisions :
       Resume(r, h) \/ Ask(r, h) \/ ResumeAsked(r, h) \/ RefuseAsked(r, h)
  \/ \E r \in Runs : CancelRun(r)
  \/ Crash

Spec == Init /\ [][Next]_vars

\* The loop runs its tasks; a subagent answers unless it may hang; a limit
\* passes.  Nothing is assumed of the operator, save where it is said.
EngineFairness ==
  \A r \in Runs :
    /\ WF_vars(Spawn(r)) /\ WF_vars(Park(r)) /\ WF_vars(Finish(r))
    /\ \A s \in Steps :
         /\ WF_vars(Dispatch(r, s)) /\ WF_vars(Told(r, s)) /\ WF_vars(TimesOut(r, s))
         /\ s \notin MayHang => WF_vars(Answers(r, s) \/ Raises(r, s))

\* An operator who approves every gate that stays open.
OperatorFairness == \A r \in Runs : WF_vars(Resume(r, "approve"))

FairSpec == Spec /\ EngineFairness /\ OperatorFairness

-----------------------------------------------------------------------------
(* Properties.                                                             *)

Dispatched(r, s) == Active(r) /\ engine[r].wave[s] = "queued" /\ s \in ran'[r] /\ engine'[r] # Idle
                    /\ engine'[r].wave[s] = "running"

\* No step of a run is dispatched twice, however often the run is parked and
\* resumed, asked to resume twice at once, cancelled or crashed, and whether
\* the step answered, failed or was cut off.
RunsOnce == [][\A r \in Runs, s \in Steps : Dispatched(r, s) => s \notin ran[r]]_vars

\* A gated step is dispatched only if the operator let this run do so, also
\* when it becomes ready together with other steps or after another gate.
GateHolds ==
  [][\A r \in Runs, s \in Steps :
       Dispatched(r, s) /\ s \in engine[r].recipe.gated => s \in approved[r]]_vars

\* A step is dispatched only when each of its dependencies has an outcome, one
\* that this run earned by dispatching it or that the operator's rejection put
\* there, through gates, resumes and recipes that change in between.
DependenciesFirst ==
  [][\A r \in Runs, s \in Steps : Dispatched(r, s) =>
       \A d \in engine[r].recipe.deps[s] :
         LET was == engine[r].done[d] IN was = "rejected" \/ (was # "none" /\ d \in ran[r])]_vars

\* The engine's pass over a run ends, though a subagent with a time limit hangs.
Bounded(e) == e.recipe.steps \cap MayHang \subseteq e.recipe.timed
PassEnds == \A r \in Runs : (Active(r) /\ Bounded(engine[r])) ~> ~Active(r)

\* Another gate is ready beside the step and is asked for instead: a resume
\* lifts the gate it decides and no other (__init__.py:351), so two gates that
\* are ready together are asked for in turn, without end, and neither step runs.
AskedBeside(r, s) ==
  /\ Status(r) = "paused" /\ saved # NoRecipe
  /\ LET ready == {t \in saved.steps : saved.deps[t] \subseteq Resolved(file[r].outputs)}
     IN s \in ready /\ file[r].pending \in (ready \cap saved.gated) \ {s}

\* What the operator approves is run, unless another gate that is ready beside
\* it is asked for instead, the run is interrupted, the operator rejects the
\* step later, or the recipe loses it.
Interrupted(r) == Status(r) = "running" /\ ~Active(r)
ApprovedRuns ==
  \A r \in Runs, s \in Steps :
    (s \in approved[r]) ~>
      \/ s \in ran[r] \/ AskedBeside(r, s) \/ s \notin approved[r] \/ Interrupted(r)
      \/ saved = NoRecipe \/ s \notin saved.steps

\* A record is in the hands of one execution: it is running if there is one,
\* and a paused record holds an outcome of every step that was dispatched.
PausedIsComplete ==
  \A r \in Runs :
    /\ Active(r) => Status(r) = "running"
    /\ Status(r) = "paused" => \A s \in ran[r] : file[r].outputs[s] # "none"
=============================================================================
