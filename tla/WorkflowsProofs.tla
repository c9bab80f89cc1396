-------------------------- MODULE WorkflowsProofs --------------------------
(* Theorems about workflow runs, for every set of recipes, any number of   *)
(* runs and steps, and every combination of faults.                        *)
EXTENDS Workflows, WellFoundedInduction, TLAPS

USE WorkflowsAssumption

(***************************************************************************)
(* The first step of a list.                                               *)
(***************************************************************************)

Less == {p \in Nat \X Nat : p[1] < p[2]}

LEMMA FirstType ==
  ASSUME NEW S, S \subseteq Steps, S # {}
  PROVE  First(S) \in S
  <1>1. IsWellFoundedOn(Less, Nat)
    BY NatLessThanWellFounded DEF OpToRel, Less
  <1>2. S \subseteq Nat
    OBVIOUS
  <1>3. PICK s \in S : \A t \in S : ~(<<t, s>> \in Less)
    BY <1>1, <1>2, WFMin
  <1>4. ASSUME NEW t \in S
        PROVE  s <= t
    <2>1. s \in Nat /\ t \in Nat
      BY <1>2
    <2>2. ~(t < s)
      BY <1>3, <2>1 DEF Less
    <2>. QED  BY <2>1, <2>2
  <1>. QED  BY <1>4 DEF First

(***************************************************************************)
(* What holds of an execution: R are the steps its run has dispatched, A   *)
(* those the operator let it dispatch.                                     *)
(***************************************************************************)

Executing(e, R, A) ==
  /\ \A s \in Steps : e.wave[s] # "none" => s \in e.pending
  /\ \A s \in e.pending : e.done[s] = "none"
  /\ \A s \in R : e.done[s] # "none" \/ e.wave[s] \notin {"none", "queued"}
  /\ \A s \in e.skip \cap e.pending : s \in A
  /\ \A s \in Steps : e.wave[s] = "queued" /\ s \in e.recipe.gated => s \in A

LEMMA RecipeType ==
  ASSUME NEW c \in Recipes
  PROVE  /\ c.steps \subseteq Steps /\ c.gated \subseteq Steps
         /\ c.timed \subseteq Steps /\ c.width \in Nat
  OBVIOUS

LEMMA NothingType == Nothing \in [Steps -> {"none"}]
  BY DEF Nothing

LEMMA ExecutionType ==
  ASSUME NEW c \in Recipes, NEW done \in [Steps -> Outcomes], NEW failed \in SUBSET Steps,
         NEW skip \in SUBSET Steps, NEW b \in BOOLEAN
  PROVE  Execution(c, done, failed, skip, b) \in Executions
  BY RecipeType, NothingType DEF Execution, Executions, Phases, Nothing

LEMMA FoldedType ==
  ASSUME NEW e \in Executions, WaveOver(e)
  PROVE  /\ Folded(e) \in Executions
         /\ Folded(e).recipe = e.recipe /\ Folded(e).skip = e.skip
         /\ Folded(e).wave = Nothing
         /\ Folded(e).pending = e.pending \ Resolved(e.wave)
         /\ Folded(e).done = [s \in Steps |-> IF e.wave[s] # "none" THEN e.wave[s] ELSE e.done[s]]
  <1>1. [s \in Steps |-> IF e.wave[s] # "none" THEN e.wave[s] ELSE e.done[s]]
          \in [Steps -> Outcomes]
    BY DEF WaveOver, Executions, Outcomes
  <1>2. Nothing \in [Steps -> Phases]
    BY NothingType DEF Phases, Nothing
  <1>. QED  BY <1>1, <1>2 DEF Folded, Executions

LEMMA FoldedExecuting ==
  ASSUME NEW e \in Executions, WaveOver(e), NEW R \in SUBSET Steps, NEW A, Executing(e, R, A)
  PROVE  /\ Executing(Folded(e), R, A)
         /\ R \subseteq Resolved(Folded(e).done)
  <1>. DEFINE f == Folded(e)
  <1>1. /\ f.recipe = e.recipe /\ f.skip = e.skip /\ f.wave = Nothing
        /\ f.pending = e.pending \ Resolved(e.wave)
        /\ f.done = [s \in Steps |-> IF e.wave[s] # "none" THEN e.wave[s] ELSE e.done[s]]
    BY FoldedType
  <1>2. e.pending \subseteq Steps
    BY DEF Executions
  <1>. HIDE DEF f
  <1>3. \A s \in Steps : f.wave[s] = "none"
    BY <1>1 DEF Nothing
  <1>4. ASSUME NEW s \in f.pending
        PROVE  f.done[s] = "none"
    BY <1>1, <1>2, <1>4 DEF Executing, Resolved
  <1>5. ASSUME NEW s \in R
        PROVE  f.done[s] # "none"
    BY <1>1, <1>5 DEF Executing, WaveOver
  <1>6. \A s \in f.skip \cap f.pending : s \in A
    BY <1>1 DEF Executing
  <1>. QED  BY <1>3, <1>4, <1>5, <1>6 DEF Executing, Resolved, f

(***************************************************************************)
(* The invariant: a run that executes is running in its record, and what a *)
(* parked run has dispatched has an outcome in it.                         *)
(***************************************************************************)

RunOK(r) ==
  /\ file[r] = NoRun => ran[r] = {}
  /\ Active(r) => Status(r) = "running" /\ Executing(engine[r], ran[r], approved[r])
  /\ Status(r) = "paused" => ran[r] \subseteq Resolved(file[r].outputs) /\ file[r].pending \in Steps

IInv == TypeOK /\ \A r \in Runs : RunOK(r)

\* An action of one run leaves the others alone.
Only(r) ==
  \A q \in Runs \ {r} : /\ file'[q] = file[q] /\ engine'[q] = engine[q]
                        /\ ran'[q] = ran[q] /\ approved'[q] = approved[q]

LEMMA OthersKeep ==
  ASSUME IInv, NEW r \in Runs, Only(r), TypeOK', RunOK(r)'
  PROVE  IInv'
  BY DEF IInv, Only, RunOK, Active, Status, Exists

LEMMA Facts ==
  ASSUME TypeOK, NEW r \in Runs
  PROVE  /\ Active(r) => engine[r] \in Executions
         /\ file[r] # NoRun => file[r] \in Records
         /\ Status(r) # "none" => file[r] \in Records /\ Status(r) = file[r].status
         /\ ran[r] \in SUBSET Steps /\ approved[r] \in SUBSET Steps
  BY DEF TypeOK, Active, Status, Exists

LEMMA InitOK == Init => IInv
  <1>. SUFFICES ASSUME Init
                PROVE  IInv
    OBVIOUS
  <1>1. TypeOK
    BY DEF Init, TypeOK, Decisions
  <1>. QED  BY <1>1 DEF Init, IInv, RunOK, Active, Status, Exists

LEMMA StartOK ==
  ASSUME IInv, NEW r \in Runs, NEW b \in Streaming, Start(r, b)
  PROVE  IInv'
  <1>. DEFINE f == [status |-> "running", pending |-> 0, outputs |-> Nothing, meta |-> Nothing]
              e == Execution(saved, Nothing, {}, {}, b)
  <1>1. f \in Records
    BY NothingType DEF Records, Outcomes, Nothing
  <1>2. Nothing \in [Steps -> Outcomes] /\ saved \in Recipes
    BY NothingType DEF Outcomes, Nothing, Start, IInv, TypeOK
  <1>3. e \in Executions
    BY <1>2, ExecutionType
  <1>4. ran[r] = {} /\ NoRun \notin Records /\ Idle \notin Executions
    BY WorkflowsSentinels DEF Start, IInv, RunOK
  <1>5. /\ file' = [file EXCEPT ![r] = f] /\ engine' = [engine EXCEPT ![r] = e]
        /\ UNCHANGED <<saved, asked, ran, approved, saves, faults>>
    BY DEF Start
  <1>6. Executing(e, {}, approved[r])
    BY <1>2, RecipeType DEF Execution, Executing, Nothing, Resolved
  <1>. HIDE DEF f, e
  <1>7. TypeOK'
    BY <1>1, <1>3, <1>5 DEF IInv, TypeOK
  <1>8. Only(r) /\ file'[r] = f /\ engine'[r] = e /\ ran'[r] = {} /\ approved'[r] = approved[r]
    BY <1>4, <1>5 DEF Only, IInv, TypeOK
  <1>9. RunOK(r)'
    BY <1>1, <1>3, <1>4, <1>6, <1>8 DEF RunOK, Active, Status, Exists, f
  <1>. QED  BY <1>7, <1>8, <1>9, OthersKeep

LEMMA SpawnOK ==
  ASSUME IInv, NEW r \in Runs, Spawn(r)
  PROVE  IInv'
  <1>. DEFINE e == Folded(engine[r])
              w == [s \in Steps |-> IF s \in Ready(e) THEN "queued" ELSE "none"]
              g == [e EXCEPT !.wave = w]
  <1>1. engine[r] \in Executions /\ WaveOver(engine[r]) /\ ran[r] \in SUBSET Steps
        /\ Executing(engine[r], ran[r], approved[r]) /\ Status(r) = "running"
    BY Facts DEF IInv, Spawn, RunOK
  <1>2. e \in Executions /\ Executing(e, ran[r], approved[r])
        /\ ran[r] \subseteq Resolved(e.done)
    BY <1>1, FoldedType, FoldedExecuting
  <1>3. /\ Gates(e) = {} /\ engine' = [engine EXCEPT ![r] = g]
        /\ UNCHANGED <<saved, file, asked, ran, approved, saves, faults>>
    BY DEF Spawn
  <1>. HIDE DEF e
  <1>4. w \in [Steps -> Phases]
    BY DEF Phases
  <1>5. g \in Executions /\ g.wave = w /\ g.done = e.done /\ g.pending = e.pending
        /\ g.skip = e.skip /\ g.recipe = e.recipe
    BY <1>2, <1>4 DEF Executions
  <1>6. Executing(g, ran[r], approved[r])
    <2>1. \A s \in ran[r] : e.done[s] # "none"
      BY <1>2 DEF Resolved
    <2>2. ASSUME NEW s \in Steps, w[s] = "queued", s \in e.recipe.gated
          PROVE  s \in approved[r]
      BY <1>2, <1>3, <2>2 DEF Gates, Ready, Executing
    <2>3. \A s \in Steps : w[s] # "none" => s \in e.pending
      BY DEF Ready
    <2>. QED  BY <1>2, <1>5, <2>1, <2>2, <2>3 DEF Executing
  <1>. HIDE DEF w, g
  <1>7. TypeOK'
    BY <1>3, <1>5 DEF IInv, TypeOK
  <1>8. Only(r) /\ engine'[r] = g
    BY <1>3 DEF Only, IInv, TypeOK
  <1>9. RunOK(r)'
    BY <1>1, <1>3, <1>6, <1>8 DEF IInv, RunOK, Active, Status, Exists
  <1>. QED  BY <1>7, <1>8, <1>9, OthersKeep

LEMMA ParkOK ==
  ASSUME IInv, NEW r \in Runs, Park(r)
  PROVE  IInv'
  <1>. DEFINE e == Folded(engine[r])
              f == Parked(file[r], e)
  <1>1. engine[r] \in Executions /\ WaveOver(engine[r]) /\ ran[r] \in SUBSET Steps
        /\ Executing(engine[r], ran[r], approved[r]) /\ file[r] \in Records
    BY Facts DEF IInv, Park, RunOK
  <1>2. e \in Executions /\ ran[r] \subseteq Resolved(e.done)
    BY <1>1, FoldedType, FoldedExecuting
  <1>3. /\ Gates(e) # {} /\ file' = [file EXCEPT ![r] = f] /\ engine' = [engine EXCEPT ![r] = Idle]
        /\ UNCHANGED <<saved, asked, ran, approved, saves, faults>>
    BY DEF Park
  <1>. HIDE DEF e
  <1>4. First(Gates(e)) \in Steps
    <2>1. Gates(e) \subseteq Steps
      BY <1>2 DEF Gates, Ready, Executions
    <2>. QED  BY <1>3, <2>1, FirstType
  <1>5. Merged(file[r].outputs, e.done) \in [Steps -> Outcomes]
    BY <1>1, <1>2 DEF Merged, Records, Executions
  <1>6. f \in Records /\ f.outputs = Merged(file[r].outputs, e.done)
        /\ f.pending = First(Gates(e)) /\ f.status = "paused"
    BY <1>1, <1>4, <1>5 DEF Records, Parked
  <1>7. ran[r] \subseteq Resolved(f.outputs)
    BY <1>2, <1>6 DEF Merged, Resolved
  <1>. HIDE DEF f
  <1>8. TypeOK'
    BY <1>3, <1>6 DEF IInv, TypeOK
  <1>9. Only(r) /\ engine'[r] = Idle /\ file'[r] = f /\ ran'[r] = ran[r]
    BY <1>3 DEF Only, IInv, TypeOK
  <1>10. RunOK(r)'
    BY <1>4, <1>6, <1>7, <1>9, WorkflowsSentinels DEF RunOK, Active, Status, Exists
  <1>. QED  BY <1>8, <1>9, <1>10, OthersKeep

LEMMA FinishOK ==
  ASSUME IInv, NEW r \in Runs, Finish(r)
  PROVE  IInv'
  <1>. DEFINE e == Folded(engine[r])
              f == Finished(file[r], e)
  <1>1. engine[r] \in Executions /\ WaveOver(engine[r]) /\ file[r] \in Records
    BY Facts DEF IInv, Finish, RunOK
  <1>2. e \in Executions
    BY <1>1, FoldedType
  <1>3. /\ file' = [file EXCEPT ![r] = f] /\ engine' = [engine EXCEPT ![r] = Idle]
        /\ UNCHANGED <<saved, asked, ran, approved, saves, faults>>
    BY DEF Finish
  <1>. HIDE DEF e
  <1>4. f \in Records /\ f.status \in {"done", "failed"}
    BY <1>1, <1>2 DEF Records, Executions, Finished
  <1>. HIDE DEF f
  <1>5. TypeOK'
    BY <1>3, <1>4 DEF IInv, TypeOK
  <1>6. Only(r) /\ engine'[r] = Idle /\ file'[r] = f
    BY <1>3 DEF Only, IInv, TypeOK
  <1>7. RunOK(r)'
    BY <1>4, <1>6, WorkflowsSentinels DEF RunOK, Active, Status, Exists
  <1>. QED  BY <1>5, <1>6, <1>7, OthersKeep

\* A step of the wave goes on; a record that is written keeps its status and
\* gets no outcome taken away.
Kept(r) == file'[r] \in Records /\ file'[r].status = file[r].status

LEMMA MovesOK ==
  ASSUME IInv, NEW r \in Runs, NEW s \in Steps, NEW phase \in Phases,
         Active(r), Moves(r, s, phase), phase # "queued", engine[r].wave[s] # "none",
         phase # "none" \/ s \notin ran'[r], TypeOK', Kept(r),
         file' = [file EXCEPT ![r] = file'[r]],
         ran' \in {ran, [ran EXCEPT ![r] = @ \cup {s}]}, UNCHANGED approved
  PROVE  IInv'
  <1>. DEFINE e == engine[r]
              g == [e EXCEPT !.wave[s] = phase]
  <1>1. e \in Executions /\ Executing(e, ran[r], approved[r]) /\ Status(r) = "running"
        /\ file[r] \in Records
    BY Facts DEF IInv, RunOK
  <1>2. g \in Executions /\ g.done = e.done /\ g.pending = e.pending /\ g.skip = e.skip
        /\ g.recipe = e.recipe /\ g.wave = [e.wave EXCEPT ![s] = phase]
    BY <1>1 DEF Executions
  <1>3. e.wave \in [Steps -> Phases]
    BY <1>1 DEF Executions
  <1>4. engine' = [engine EXCEPT ![r] = g]
    BY DEF Moves
  <1>. HIDE DEF g
  <1>5. Only(r) /\ engine'[r] = g /\ approved'[r] = approved[r]
        /\ ran'[r] \subseteq ran[r] \cup {s}
    BY <1>4 DEF Only, IInv, TypeOK
  <1>6. Executing(g, ran'[r], approved[r])
    <2>1. ASSUME NEW t \in ran'[r]
          PROVE  g.done[t] # "none" \/ g.wave[t] \notin {"none", "queued"}
      <3>1. CASE t = s
        BY <1>2, <1>3, <3>1, <2>1
      <3>2. CASE t # s
        <4>1. t \in ran[r] /\ t \in Steps
          BY <1>5, <3>2 DEF IInv, TypeOK
        <4>. QED  BY <1>1, <1>2, <1>3, <4>1, <3>2 DEF Executing
      <3>. QED  BY <3>1, <3>2
    <2>2. \A t \in Steps : g.wave[t] # "none" => t \in g.pending
      BY <1>1, <1>2, <1>3 DEF Executing
    <2>3. \A t \in Steps : g.wave[t] = "queued" => e.wave[t] = "queued"
      BY <1>2, <1>3
    <2>. QED  BY <1>1, <1>2, <2>1, <2>2, <2>3 DEF Executing
  <1>7. RunOK(r)'
    BY <1>1, <1>5, <1>6, WorkflowsSentinels DEF Kept, RunOK, Active, Status, Exists
  <1>. QED  BY <1>5, <1>7, OthersKeep

LEMMA WaveType ==
  ASSUME TypeOK, NEW r \in Runs, NEW s \in Steps, NEW phase \in Phases,
         Active(r), Moves(r, s, phase)
  PROVE  engine' \in [Runs -> Executions \cup {Idle}]
  <1>1. engine[r] \in Executions
    BY Facts
  <1>2. [engine[r] EXCEPT !.wave[s] = phase] \in Executions
    BY <1>1 DEF Executions
  <1>. QED  BY <1>2 DEF Moves, TypeOK

LEMMA DispatchOK ==
  ASSUME IInv, NEW r \in Runs, NEW s \in Steps, Dispatch(r, s)
  PROVE  IInv'
  <1>. DEFINE f == [file[r] EXCEPT !.meta[s] = "running"]
  <1>1. /\ Active(r) /\ Moves(r, s, "running") /\ engine[r].wave[s] = "queued"
        /\ file' = [file EXCEPT ![r] = f] /\ ran' = [ran EXCEPT ![r] = @ \cup {s}]
        /\ UNCHANGED <<saved, asked, approved, saves, faults>>
    BY DEF Dispatch, Queued
  <1>2. file[r] \in Records
    BY <1>1, Facts DEF IInv, RunOK
  <1>3. f \in Records /\ f.status = file[r].status
    BY <1>2 DEF Records
  <1>. HIDE DEF f
  <1>4. Kept(r) /\ file' = [file EXCEPT ![r] = file'[r]]
    BY <1>1, <1>3 DEF Kept, IInv, TypeOK
  <1>5. TypeOK'
    <2>1. engine' \in [Runs -> Executions \cup {Idle}]
      BY <1>1, WaveType DEF IInv, Phases
    <2>2. file' \in [Runs -> Records \cup {NoRun}]
      BY <1>1, <1>3 DEF IInv, TypeOK
    <2>3. ran' \in [Runs -> SUBSET Steps]
      BY <1>1 DEF IInv, TypeOK
    <2>. QED  BY <1>1, <2>1, <2>2, <2>3 DEF IInv, TypeOK
  <1>. QED  BY <1>1, <1>4, <1>5, MovesOK DEF Phases

LEMMA AnswersOK ==
  ASSUME IInv, NEW r \in Runs, NEW s \in Steps, Answers(r, s)
  PROVE  IInv'
  <1>. DEFINE f == [file[r] EXCEPT !.outputs[s] = "out", !.meta[s] = "done"]
              phase == IF engine[r].streamed THEN "saved" ELSE "out"
  <1>1. /\ Active(r) /\ Moves(r, s, phase) /\ engine[r].wave[s] = "running"
        /\ file' = [file EXCEPT ![r] = f]
        /\ UNCHANGED <<saved, asked, ran, approved, saves, faults>>
    BY DEF Answers
  <1>2. file[r] \in Records
    BY <1>1, Facts DEF IInv, RunOK
  <1>3. f \in Records /\ f.status = file[r].status
    BY <1>2 DEF Records, Outcomes
  <1>4. phase \in Phases /\ phase \notin {"queued", "none"}
    BY DEF Phases
  <1>. HIDE DEF f, phase
  <1>5. Kept(r) /\ file' = [file EXCEPT ![r] = file'[r]]
    BY <1>1, <1>3 DEF Kept, IInv, TypeOK
  <1>6. TypeOK'
    <2>1. engine' \in [Runs -> Executions \cup {Idle}]
      BY <1>1, <1>4, WaveType DEF IInv
    <2>. QED  BY <1>1, <1>3, <2>1 DEF IInv, TypeOK
  <1>. QED  BY <1>1, <1>4, <1>5, <1>6, MovesOK

LEMMA ReturnsOK ==
  ASSUME IInv, NEW r \in Runs, NEW s \in Steps, NEW phase \in {"out", "error", "gap"},
         Active(r), Moves(r, s, phase), engine[r].wave[s] \in {"running", "saved"},
         UNCHANGED <<saved, file, asked, ran, approved, saves, faults>>
  PROVE  IInv'
  <1>1. Kept(r) /\ file' = [file EXCEPT ![r] = file'[r]]
    BY Facts DEF Kept, IInv, RunOK, TypeOK
  <1>2. TypeOK'
    <2>1. phase \in Phases /\ TypeOK
      BY DEF IInv, Phases
    <2>2. engine' \in [Runs -> Executions \cup {Idle}]
      BY <2>1, WaveType
    <2>. QED  BY <2>1, <2>2 DEF TypeOK
  <1>. QED  BY <1>1, <1>2, MovesOK DEF Phases

(***************************************************************************)
(* Resuming and being interrupted.                                         *)
(***************************************************************************)

LEMMA ContinueOK ==
  ASSUME IInv, NEW r \in Runs, NEW decision \in Decisions, Resumable(r), Continue(r, decision),
         asked' \in [Runs -> [Decisions -> 0 .. MaxAsks]],
         UNCHANGED <<saved, ran, saves, faults>>
  PROVE  IInv'
  <1>. DEFINE p    == file[r].pending
              held == file[r].outputs
              no   == decision = "reject" /\ p \in saved.steps
              done == IF no THEN [held EXCEPT ![p] = "rejected"] ELSE held
              lost == IF no THEN {p} ELSE {}
              e    == Execution(saved, done, lost, {p}, FALSE)
              f    == [file[r] EXCEPT !.status = "running", !.pending = 0]
              a    == IF decision = "approve" /\ p \in saved.steps
                        THEN approved[r] \cup {p} ELSE approved[r] \ {p}
  <1>1. /\ Status(r) = "paused" /\ saved \in Recipes /\ file[r] \in Records
        /\ ran[r] \in SUBSET Steps /\ approved[r] \in SUBSET Steps /\ p \in Steps
        /\ ran[r] \subseteq Resolved(held) /\ held \in [Steps -> Outcomes]
    BY Facts DEF IInv, RunOK, Resumable, TypeOK, Records
  <1>2. /\ file' = [file EXCEPT ![r] = f] /\ engine' = [engine EXCEPT ![r] = e]
        /\ approved' = [approved EXCEPT ![r] = a]
    BY DEF Continue
  <1>3. f \in Records /\ f.status = "running"
    BY <1>1 DEF Records
  <1>4. done \in [Steps -> Outcomes] /\ Resolved(held) \subseteq Resolved(done)
        /\ (no => p \in Resolved(done))
    BY <1>1 DEF Outcomes, Resolved
  <1>5. e \in Executions
    <2>1. saved \in Recipes /\ done \in [Steps -> Outcomes] /\ lost \in SUBSET Steps
          /\ {p} \in SUBSET Steps /\ FALSE \in BOOLEAN
      BY <1>1, <1>4
    <2>. HIDE DEF done, lost, p
    <2>. QED  BY <2>1, ExecutionType
  <1>6. a \in SUBSET Steps
    BY <1>1
  <1>7. p \in saved.steps \ Resolved(done) => p \in a
    BY <1>4 DEF Decisions
  <1>. HIDE DEF f, no, lost, done, a
  <1>8. Executing(e, ran[r], a)
    <2>1. /\ e.recipe = saved /\ e.done = done /\ e.skip = {p}
          /\ e.pending = saved.steps \ Resolved(done) /\ e.wave = Nothing
      BY DEF Execution
    <2>2. \A s \in Steps : e.wave[s] = "none"
      BY <2>1 DEF Nothing
    <2>3. saved.steps \subseteq Steps
      BY <1>1, RecipeType
    <2>4. \A s \in ran[r] : e.done[s] # "none"
      BY <1>1, <1>4, <2>1 DEF Resolved
    <2>5. \A s \in e.pending : e.done[s] = "none"
      BY <2>1, <2>3 DEF Resolved
    <2>6. \A s \in e.skip \cap e.pending : s \in a
      BY <1>7, <2>1
    <2>. QED  BY <2>2, <2>4, <2>5, <2>6 DEF Executing
  <1>. HIDE DEF e, p, held
  <1>9. TypeOK'
    BY <1>2, <1>3, <1>5, <1>6 DEF IInv, TypeOK
  <1>10. Only(r) /\ file'[r] = f /\ engine'[r] = e /\ approved'[r] = a /\ ran'[r] = ran[r]
    BY <1>2 DEF Only, IInv, TypeOK
  <1>11. RunOK(r)'
    BY <1>3, <1>5, <1>8, <1>10, WorkflowsSentinels DEF RunOK, Active, Status, Exists
  <1>. QED  BY <1>9, <1>10, <1>11, OthersKeep

LEMMA TakenType ==
  ASSUME TypeOK, NEW r \in Runs, NEW decision \in Decisions, Taken(r, decision)
  PROVE  asked' \in [Runs -> [Decisions -> 0 .. MaxAsks]]
  BY DEF TypeOK, Taken

\* An interruption takes executions away and leaves the records.
LEMMA InterruptedOK ==
  ASSUME IInv, TypeOK', UNCHANGED <<file, ran, approved>>,
         \A r \in Runs : engine'[r] \in {engine[r], Idle}
  PROVE  IInv'
  <1>1. ASSUME NEW r \in Runs
        PROVE  RunOK(r)'
    BY <1>1 DEF IInv, RunOK, Active, Status, Exists
  <1>. QED  BY <1>1 DEF IInv

LEMMA NextOK ==
  ASSUME IInv, [Next]_vars
  PROVE  IInv'
  <1>1. ASSUME NEW c \in Recipes, Save(c)
        PROVE  IInv'
    BY <1>1, InterruptedOK DEF Save, IInv, TypeOK
  <1>2. CASE Delete
    BY <1>2, InterruptedOK DEF Delete, IInv, TypeOK
  <1>3. ASSUME NEW r \in Runs, NEW b \in Streaming, Start(r, b)
        PROVE  IInv'
    BY <1>3, StartOK
  <1>4. ASSUME NEW r \in Runs, Spawn(r) \/ Park(r) \/ Finish(r)
        PROVE  IInv'
    BY <1>4, SpawnOK, ParkOK, FinishOK
  <1>5. ASSUME NEW r \in Runs, NEW s \in Steps, Dispatch(r, s) \/ Answers(r, s)
        PROVE  IInv'
    BY <1>5, DispatchOK, AnswersOK
  <1>6. ASSUME NEW r \in Runs, NEW s \in Steps, Told(r, s) \/ Raises(r, s) \/ TimesOut(r, s)
        PROVE  IInv'
    BY <1>6, ReturnsOK DEF Told, Raises, TimesOut
  <1>7. ASSUME NEW r \in Runs, NEW h \in Decisions, Resume(r, h)
        PROVE  IInv'
    BY <1>7, ContinueOK DEF Resume, IInv, TypeOK
  <1>8. ASSUME NEW r \in Runs, NEW h \in Decisions, ResumeAsked(r, h)
        PROVE  IInv'
    <2>1. asked' \in [Runs -> [Decisions -> 0 .. MaxAsks]]
      BY <1>8, TakenType DEF ResumeAsked, IInv
    <2>. QED  BY <1>8, <2>1, ContinueOK DEF ResumeAsked
  <1>9. ASSUME NEW r \in Runs, NEW h \in Decisions, Ask(r, h) \/ RefuseAsked(r, h)
        PROVE  IInv'
    <2>1. asked' \in [Runs -> [Decisions -> 0 .. MaxAsks]]
      <3>1. CASE Ask(r, h)
        <4>1. asked[r][h] + 1 \in 0 .. MaxAsks
          BY <3>1 DEF Ask, IInv, TypeOK
        <4>. QED  BY <3>1, <4>1 DEF Ask, IInv, TypeOK
      <3>2. CASE RefuseAsked(r, h)
        BY <3>2, TakenType DEF RefuseAsked, IInv
      <3>. QED  BY <1>9, <3>1, <3>2
    <2>2. UNCHANGED <<saved, file, engine, ran, approved, saves, faults>>
      BY <1>9 DEF Ask, RefuseAsked
    <2>3. TypeOK'
      BY <2>1, <2>2 DEF IInv, TypeOK
    <2>. QED  BY <2>2, <2>3, InterruptedOK
  <1>10. ASSUME NEW r \in Runs, CancelRun(r)
         PROVE  IInv'
    <2>1. TypeOK'
      BY <1>10 DEF CancelRun, Fault, IInv, TypeOK
    <2>. QED  BY <1>10, <2>1, InterruptedOK DEF CancelRun, IInv, TypeOK
  <1>11. CASE Crash
    <2>1. TypeOK'
      BY <1>11 DEF Crash, Fault, IInv, TypeOK
    <2>. QED  BY <1>11, <2>1, InterruptedOK DEF Crash
  <1>12. CASE UNCHANGED vars
    <2>1. TypeOK'
      BY <1>12 DEF vars, IInv, TypeOK
    <2>. QED  BY <1>12, <2>1, InterruptedOK DEF vars
  <1>. QED  BY <1>1, <1>2, <1>3, <1>4, <1>5, <1>6, <1>7, <1>8, <1>9, <1>10, <1>11, <1>12 DEF Next

LEMMA Invariance == Spec => []IInv
  BY InitOK, NextOK, PTL DEF Spec

(***************************************************************************)
(* Theorems.                                                               *)
(***************************************************************************)

\* The variables keep their types.
THEOREM TypeCorrect == Spec => []TypeOK
  <1>1. IInv => TypeOK
    BY DEF IInv
  <1>. QED  BY <1>1, Invariance, PTL

\* At most one execution has a record in hand, and a parked record holds an
\* outcome of every step that was dispatched: what a resume starts from.
THEOREM RecordsComplete == Spec => []PausedIsComplete
  <1>1. IInv => PausedIsComplete
    BY Facts DEF IInv, RunOK, PausedIsComplete, Resolved
  <1>. QED  BY <1>1, Invariance, PTL

\* No step is dispatched twice in a run, whatever is resumed, asked twice,
\* edited, cancelled or crashed.
THEOREM StepsRunOnce == Spec => RunsOnce
  <1>. DEFINE Once == \A r \in Runs, s \in Steps : Dispatched(r, s) => s \notin ran[r]
  <1>1. ASSUME IInv, NEW r \in Runs, NEW s \in Steps, Dispatched(r, s)
        PROVE  s \notin ran[r]
    BY <1>1, Facts DEF Dispatched, IInv, RunOK, Executing
  <1>2. IInv => [Once]_vars
    BY <1>1
  <1>. QED  BY <1>2, Invariance, PTL DEF RunsOnce

\* No step behind a human gate is dispatched that the operator did not let
\* this run dispatch.
THEOREM GatesHold == Spec => GateHolds
  <1>. DEFINE Held == \A r \in Runs, s \in Steps :
                        Dispatched(r, s) /\ s \in engine[r].recipe.gated => s \in approved[r]
  <1>1. ASSUME IInv, NEW r \in Runs, NEW s \in Steps, Dispatched(r, s),
               s \in engine[r].recipe.gated
        PROVE  s \in approved[r]
    BY <1>1 DEF Dispatched, IInv, RunOK, Executing
  <1>2. IInv => [Held]_vars
    BY <1>1
  <1>. QED  BY <1>2, Invariance, PTL DEF GateHolds

(***************************************************************************)
(* Outcomes are earned.  What a wave holds or has returned was dispatched, *)
(* what is folded in came from a wave, and what a resume starts from came  *)
(* from a record that such executions wrote; only a rejection adds to it.  *)
(***************************************************************************)

Made(outcome) == outcome \notin {"none", "rejected"}

Earns(e, R) ==
  /\ \A s \in Steps : Made(e.done[s]) => s \in R
  /\ \A s \in Steps : e.wave[s] \notin {"none", "queued"} => s \in R
  /\ \A s \in Steps : e.wave[s] = "queued" => e.recipe.deps[s] \subseteq Resolved(e.done)

Earned(r) ==
  /\ Exists(r) => \A s \in Steps : Made(file[r].outputs[s]) => s \in ran[r]
  /\ Active(r) => Earns(engine[r], ran[r])

LEMMA FoldedEarns ==
  ASSUME NEW e \in Executions, WaveOver(e), NEW R \in SUBSET Steps, Earns(e, R)
  PROVE  Earns(Folded(e), R)
  <1>. DEFINE f == Folded(e)
  <1>1. /\ f.wave = Nothing
        /\ f.done = [s \in Steps |-> IF e.wave[s] # "none" THEN e.wave[s] ELSE e.done[s]]
    BY FoldedType
  <1>. HIDE DEF f
  <1>2. ASSUME NEW s \in Steps, Made(f.done[s])
        PROVE  s \in R
    BY <1>1, <1>2 DEF Earns, WaveOver, Made
  <1>3. \A s \in Steps : f.wave[s] = "none"
    BY <1>1 DEF Nothing
  <1>. QED  BY <1>2, <1>3 DEF Earns, f

\* An execution before its first wave has earned what it is seeded with.
LEMMA ExecutionEarns ==
  ASSUME NEW c, NEW done, NEW failed, NEW skip, NEW b, NEW R,
         \A s \in Steps : Made(done[s]) => s \in R
  PROVE  Earns(Execution(c, done, failed, skip, b), R)
  BY DEF Earns, Execution, Nothing

\* The wave of an execution goes on with a step that was dispatched.
LEMMA MovesEarns ==
  ASSUME NEW e \in Executions, NEW s \in Steps, NEW phase \in Phases \ {"queued"}, NEW R, NEW Q,
         Earns(e, R), R \subseteq Q, s \in Q
  PROVE  Earns([e EXCEPT !.wave[s] = phase], Q)
  <1>. DEFINE g == [e EXCEPT !.wave[s] = phase]
  <1>1. g.done = e.done /\ g.recipe = e.recipe /\ g.wave = [e.wave EXCEPT ![s] = phase]
    BY DEF Executions
  <1>2. e.wave \in [Steps -> Phases]
    BY DEF Executions
  <1>. HIDE DEF g
  <1>. QED  BY <1>1, <1>2 DEF Earns, g

LEMMA SpawnEarned ==
  ASSUME IInv, NEW r \in Runs, Earned(r), Spawn(r)
  PROVE  Earned(r)'
  <1>. DEFINE e == Folded(engine[r])
              w == [s \in Steps |-> IF s \in Ready(e) THEN "queued" ELSE "none"]
              g == [e EXCEPT !.wave = w]
  <1>1. engine[r] \in Executions /\ WaveOver(engine[r]) /\ ran[r] \in SUBSET Steps
        /\ Earns(engine[r], ran[r])
    BY Facts DEF IInv, Spawn, Earned
  <1>2. e \in Executions /\ Earns(e, ran[r])
    BY <1>1, FoldedType, FoldedEarns
  <1>3. engine' = [engine EXCEPT ![r] = g] /\ UNCHANGED <<file, ran>>
    BY DEF Spawn
  <1>. HIDE DEF e
  <1>4. g.wave = w /\ g.done = e.done /\ g.recipe = e.recipe
    BY <1>2 DEF Executions
  <1>5. Earns(g, ran[r])
    BY <1>2, <1>4 DEF Earns, Ready
  <1>. HIDE DEF w, g
  <1>6. engine'[r] = g
    BY <1>3 DEF IInv, TypeOK
  <1>. QED  BY <1>3, <1>5, <1>6 DEF Earned, Exists

LEMMA ParkEarned ==
  ASSUME IInv, NEW r \in Runs, Earned(r), Park(r) \/ Finish(r)
  PROVE  Earned(r)'
  <1>. DEFINE e == Folded(engine[r])
  <1>1. engine[r] \in Executions /\ WaveOver(engine[r]) /\ ran[r] \in SUBSET Steps
        /\ Earns(engine[r], ran[r]) /\ file[r] \in Records /\ file[r] # NoRun
    BY Facts, WorkflowsSentinels DEF IInv, Park, Finish, Earned, RunOK
  <1>2. e \in Executions /\ Earns(e, ran[r])
    BY <1>1, FoldedType, FoldedEarns
  <1>3. /\ file' = [file EXCEPT ![r] = Parked(file[r], e)] \/ file' = [file EXCEPT ![r] = Finished(file[r], e)]
        /\ engine' = [engine EXCEPT ![r] = Idle] /\ UNCHANGED ran
    BY DEF Park, Finish
  <1>. HIDE DEF e
  <1>4. \A s \in Steps : Made(file[r].outputs[s]) => s \in ran[r]
    BY <1>1 DEF Earned, Exists
  <1>5. ASSUME NEW s \in Steps
        PROVE  /\ Made(Parked(file[r], e).outputs[s]) => s \in ran[r]
               /\ Made(Finished(file[r], e).outputs[s]) => s \in ran[r]
    <2>1. Made(e.done[s]) => s \in ran[r]
      BY <1>2 DEF Earns
    <2>2. Parked(file[r], e).outputs = Merged(file[r].outputs, e.done)
      BY <1>1 DEF Parked, Records
    <2>3. Finished(file[r], e).outputs
            = [t \in Steps |-> IF t \in e.failed THEN e.done[t] ELSE file[r].outputs[t]]
      BY <1>1 DEF Finished, Records
    <2>. QED  BY <1>4, <2>1, <2>2, <2>3 DEF Merged
  <1>6. /\ file'[r] = Parked(file[r], e) \/ file'[r] = Finished(file[r], e)
        /\ engine'[r] = Idle /\ ran'[r] = ran[r]
    BY <1>3 DEF IInv, TypeOK
  <1>. QED  BY <1>5, <1>6 DEF Earned, Active

LEMMA StepEarned ==
  ASSUME IInv, NEW r \in Runs, NEW s \in Steps, Earned(r),
         Dispatch(r, s) \/ Answers(r, s) \/ Told(r, s) \/ Raises(r, s) \/ TimesOut(r, s)
  PROVE  Earned(r)'
  <1>1. /\ Active(r) /\ engine[r] \in Executions /\ Earns(engine[r], ran[r])
        /\ file[r] \in Records /\ file[r] # NoRun /\ ran[r] \in SUBSET Steps
    BY Facts, WorkflowsSentinels DEF IInv, RunOK, Earned, Dispatch, Answers, Told, Raises, TimesOut
  <1>2. PICK phase \in Phases \ {"queued"} : Moves(r, s, phase)
    BY DEF Dispatch, Answers, Told, Raises, TimesOut, Phases
  <1>3. ran[r] \subseteq ran'[r] /\ s \in ran'[r]
    <2>1. CASE Dispatch(r, s)
      BY <2>1 DEF Dispatch, IInv, TypeOK
    <2>2. CASE Answers(r, s) \/ Told(r, s) \/ Raises(r, s) \/ TimesOut(r, s)
      BY <1>1, <2>2 DEF Answers, Told, Raises, TimesOut, Earns
    <2>. QED  BY <2>1, <2>2
  <1>4. \A t \in Steps : Made(file'[r].outputs[t]) => t \in ran'[r]
    <2>1. \A t \in Steps : Made(file[r].outputs[t]) => t \in ran[r]
      BY <1>1 DEF Earned, Exists
    <2>2. CASE Answers(r, s)
      <3>1. file'[r] = [file[r] EXCEPT !.outputs[s] = "out", !.meta[s] = "done"]
        BY <2>2 DEF Answers, IInv, TypeOK
      <3>2. file'[r].outputs = [file[r].outputs EXCEPT ![s] = "out"]
        BY <1>1, <3>1 DEF Records
      <3>3. file[r].outputs \in [Steps -> Outcomes]
        BY <1>1 DEF Records
      <3>. QED  BY <1>3, <2>1, <3>2, <3>3
    <2>3. CASE Dispatch(r, s)
      <3>1. file'[r] = [file[r] EXCEPT !.meta[s] = "running"]
        BY <2>3 DEF Dispatch, IInv, TypeOK
      <3>2. file'[r].outputs = file[r].outputs
        BY <1>1, <3>1 DEF Records
      <3>. QED  BY <1>3, <2>1, <3>2
    <2>4. CASE Told(r, s) \/ Raises(r, s) \/ TimesOut(r, s)
      BY <1>3, <2>1, <2>4 DEF Told, Raises, TimesOut
    <2>. QED  BY <2>2, <2>3, <2>4
  <1>5. Earns([engine[r] EXCEPT !.wave[s] = phase], ran'[r])
    BY <1>1, <1>3, MovesEarns
  <1>6. engine'[r] = [engine[r] EXCEPT !.wave[s] = phase]
    BY <1>2 DEF Moves, IInv, TypeOK
  <1>. QED  BY <1>4, <1>5, <1>6 DEF Earned

LEMMA ContinueEarned ==
  ASSUME IInv, NEW r \in Runs, NEW decision \in Decisions, Resumable(r), Continue(r, decision),
         UNCHANGED ran, Earned(r)
  PROVE  Earned(r)'
  <1>. DEFINE p    == file[r].pending
              held == file[r].outputs
              no   == decision = "reject" /\ p \in saved.steps
              done == IF no THEN [held EXCEPT ![p] = "rejected"] ELSE held
              lost == IF no THEN {p} ELSE {}
              e    == Execution(saved, done, lost, {p}, FALSE)
              f    == [file[r] EXCEPT !.status = "running", !.pending = 0]
  <1>1. /\ file[r] \in Records /\ Exists(r) /\ held \in [Steps -> Outcomes]
        /\ \A s \in Steps : Made(held[s]) => s \in ran[r]
    BY Facts DEF IInv, Resumable, Status, Earned, Records, Exists
  <1>2. file' = [file EXCEPT ![r] = f] /\ engine' = [engine EXCEPT ![r] = e]
    BY DEF Continue
  <1>3. f.outputs = held
    BY <1>1 DEF Records
  <1>4. \A s \in Steps : Made(done[s]) => s \in ran[r]
    BY <1>1 DEF Made
  <1>. HIDE DEF f, done, lost, p, held
  <1>5. Earns(e, ran[r])
    BY <1>4, ExecutionEarns
  <1>. HIDE DEF e
  <1>6. file'[r] = f /\ engine'[r] = e
    BY <1>2 DEF IInv, TypeOK
  <1>. QED  BY <1>1, <1>3, <1>5, <1>6 DEF Earned

LEMMA StartEarned ==
  ASSUME IInv, NEW r \in Runs, NEW b \in Streaming, Start(r, b)
  PROVE  Earned(r)'
  <1>1. \A s \in Steps : ~Made(Nothing[s])
    BY DEF Nothing, Made
  <1>2. Earns(Execution(saved, Nothing, {}, {}, b), ran[r])
    BY <1>1, ExecutionEarns
  <1>3. /\ file'[r].outputs = Nothing /\ ran' = ran
        /\ engine'[r] = Execution(saved, Nothing, {}, {}, b)
    BY DEF Start, IInv, TypeOK
  <1>. QED  BY <1>1, <1>2, <1>3 DEF Earned

LEMMA EarnedInductive ==
  ASSUME IInv, \A r \in Runs : Earned(r), [Next]_vars
  PROVE  \A r \in Runs : Earned(r)'
  <1>. SUFFICES ASSUME NEW q \in Runs
                PROVE  Earned(q)'
    OBVIOUS
  <1>0. Earned(q)
    OBVIOUS
  <1>1. ASSUME file'[q] = file[q], ran'[q] = ran[q], engine'[q] \in {engine[q], Idle}
        PROVE  Earned(q)'
    BY <1>0, <1>1 DEF Earned, Exists, Active
  <1>2. CASE \/ Delete \/ Crash \/ UNCHANGED vars
             \/ \E c \in Recipes : Save(c)
             \/ \E r \in Runs, h \in Decisions : Ask(r, h) \/ RefuseAsked(r, h)
             \/ \E r \in Runs : CancelRun(r)
    BY <1>1, <1>2 DEF Delete, Crash, vars, Save, Ask, RefuseAsked, CancelRun, IInv, TypeOK
  <1>3. ASSUME NEW r \in Runs, NEW b \in Streaming, Start(r, b)
        PROVE  Earned(q)'
    <2>1. r # q => file'[q] = file[q] /\ ran'[q] = ran[q] /\ engine'[q] = engine[q]
      BY <1>3 DEF Start, IInv, TypeOK
    <2>. QED  BY <1>1, <1>3, <2>1, StartEarned
  <1>4. ASSUME NEW r \in Runs, Spawn(r) \/ Park(r) \/ Finish(r)
        PROVE  Earned(q)'
    <2>1. r # q => file'[q] = file[q] /\ ran'[q] = ran[q] /\ engine'[q] = engine[q]
      BY <1>4 DEF Spawn, Park, Finish, IInv, TypeOK
    <2>. QED  BY <1>0, <1>1, <1>4, <2>1, SpawnEarned, ParkEarned
  <1>5. ASSUME NEW r \in Runs, NEW s \in Steps,
               Dispatch(r, s) \/ Answers(r, s) \/ Told(r, s) \/ Raises(r, s) \/ TimesOut(r, s)
        PROVE  Earned(q)'
    <2>1. r # q => file'[q] = file[q] /\ ran'[q] = ran[q] /\ engine'[q] = engine[q]
      BY <1>5 DEF Dispatch, Answers, Told, Raises, TimesOut, Moves, IInv, TypeOK
    <2>. QED  BY <1>0, <1>1, <1>5, <2>1, StepEarned
  <1>6. ASSUME NEW r \in Runs, NEW h \in Decisions, Resume(r, h) \/ ResumeAsked(r, h)
        PROVE  Earned(q)'
    <2>1. Resumable(r) /\ Continue(r, h) /\ UNCHANGED ran
      BY <1>6 DEF Resume, ResumeAsked
    <2>2. r # q => file'[q] = file[q] /\ ran'[q] = ran[q] /\ engine'[q] = engine[q]
      BY <2>1 DEF Continue, IInv, TypeOK
    <2>. QED  BY <1>0, <1>1, <2>1, <2>2, ContinueEarned
  <1>. QED  BY <1>2, <1>3, <1>4, <1>5, <1>6 DEF Next

\* A step is dispatched only when the outcome of each of its dependencies is
\* there, and this run has earned it or the operator has rejected the step.
THEOREM DependenciesComeFirst == Spec => DependenciesFirst
  <1>. DEFINE AllEarned == \A r \in Runs : Earned(r)
              Fed == \A r \in Runs, s \in Steps : Dispatched(r, s) =>
                       \A d \in engine[r].recipe.deps[s] :
                         LET was == engine[r].done[d]
                         IN  was = "rejected" \/ (was # "none" /\ d \in ran[r])
  <1>1. Init => AllEarned
    BY DEF Init, Earned, Exists, Active
  <1>2. IInv /\ AllEarned /\ [Next]_vars => AllEarned'
    BY EarnedInductive
  <1>3. ASSUME AllEarned, NEW r \in Runs, NEW s \in Steps, Dispatched(r, s),
               NEW d \in engine[r].recipe.deps[s]
        PROVE  engine[r].done[d] = "rejected" \/ (engine[r].done[d] # "none" /\ d \in ran[r])
    <2>1. d \in Resolved(engine[r].done)
      BY <1>3 DEF Earned, Earns, Dispatched
    <2>. QED  BY <1>3, <2>1 DEF Earned, Earns, Dispatched, Resolved, Made
  <1>4. AllEarned => [Fed]_vars
    BY <1>3
  <1>. QED  BY <1>1, <1>2, <1>4, Invariance, PTL DEF Spec, DependenciesFirst
=============================================================================
