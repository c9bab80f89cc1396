---------------------------- MODULE GoalsProofs ----------------------------
(* Theorems about a session's goal, for any number of drives of either     *)
(* kind, any budgets and limits, and every combination of faults.  Edits   *)
(* and other evaluations may come between an evaluation's read and write.  *)
EXTENDS Goals, FiniteSetTheorems, TLAPS

USE GoalsAssumption

(***************************************************************************)
(* Types.                                                                  *)
(***************************************************************************)

LEMMA DriveType ==
  ASSUME TypeOK, NEW d \in Drives, drive[d] # Idle
  PROVE  drive[d] \in Driving
  BY DEF TypeOK

LEMMA InType ==
  ASSUME TypeOK, NEW d \in Drives, NEW pc, In(d, pc)
  PROVE  drive[d] \in Driving /\ drive[d].pc = pc
  BY DEF In, TypeOK

\* A drive that moves, and whatever else stays within its type.
LEMMA Moves ==
  ASSUME TypeOK, NEW d \in Drives, NEW s \in Driving \cup {Idle},
         drive' = [drive EXCEPT ![d] = s]
  PROVE  drive' \in [Drives -> Driving \cup {Idle}]
  BY DEF TypeOK

LEMMA LeaveType ==
  ASSUME TypeOK, NEW d \in Drives, Leave(d)
  PROVE  drive' \in [Drives -> Driving \cup {Idle}] /\ lock' \in Drives \cup {Free}
  BY DEF TypeOK, Leave

LEMMA GoalOps ==
  ASSUME NEW g \in GoalRecords
  PROVE  /\ \A add \in Adds : Extended(g, add) \in GoalRecords
         /\ \A a \in Armings, add \in Adds : Restarted(g, a, add) \in GoalRecords
         /\ Abandoned(g) \in GoalRecords
  <1>1. ASSUME NEW add \in Adds
        PROVE  Extended(g, add) \in GoalRecords
    BY DEF Extended, GoalRecords
  <1>2. ASSUME NEW a \in Armings, NEW add \in Adds
        PROVE  Restarted(g, a, add) \in GoalRecords
    <2>1. g.max + add \in Nat \ {0}
      <3>1. g.max \in Nat \ {0} /\ add \in Nat
        BY DEF GoalRecords
      <3>. QED  BY <3>1
    <2>2. "active" \in {"active", "achieved", "exhausted", "unachievable"}
      OBVIOUS
    <2>. QED  BY <2>1, <2>2 DEF Restarted, GoalRecords
  <1>3. Abandoned(g) \in GoalRecords
    BY DEF Abandoned, GoalRecords
  <1>. QED  BY <1>1, <1>2, <1>3

LEMMA CountedType ==
  ASSUME NEW g \in GoalRecords, NEW sign \in Signs
  PROVE  /\ Counted(g, sign) \in GoalRecords
         /\ Counted(g, sign).arming = g.arming
         /\ Counted(g, sign).max = g.max
         /\ Counted(g, sign).iteration = g.iteration + 1
  <1>1. (IF sign = g.sign THEN g.streak + 1 ELSE 0) \in Nat /\ g.iteration + 1 \in Nat
    BY DEF GoalRecords
  <1>. QED  BY <1>1 DEF Counted, GoalRecords

LEMMA OverType ==
  ASSUME NEW g \in GoalRecords, NEW s \in {"achieved", "exhausted", "unachievable"}
  PROVE  Over(g, s) \in GoalRecords
  BY DEF Over, GoalRecords

LEMMA Bounds == MaxArmings \in Nat /\ MaxJobs \in Nat /\ MaxEvents \in Nat /\ MaxLost \in Nat \ {0} /\ Adds \subseteq Nat
  OBVIOUS

LEMMA NewType ==
  ASSUME NEW a \in Armings, NEW max \in Budgets, NEW limit \in Limits
  PROVE  New(a, max, limit) \in GoalRecords
  BY DEF New, GoalRecords

LEMMA EventType == TypeOK /\ Event => events' \in 0 .. MaxEvents
  BY Bounds DEF TypeOK, Event

LEMMA ArmsType ==
  TypeOK /\ Arms => /\ armed' \in 0 .. MaxArmings /\ armed + 1 \in Armings
                    /\ lost' \in 0 .. MaxLost /\ told' \in Nat
                    /\ judged' \in Nat /\ quit' \in BOOLEAN
  <1>. SUFFICES ASSUME TypeOK, Arms
                PROVE  /\ armed' \in 0 .. MaxArmings /\ armed + 1 \in Armings
                       /\ lost' \in 0 .. MaxLost /\ told' \in Nat
                       /\ judged' \in Nat /\ quit' \in BOOLEAN
    OBVIOUS
  <1>1. armed \in 0 .. MaxArmings /\ armed < MaxArmings /\ armed' = armed + 1
    BY DEF TypeOK, Arms
  <1>2. armed + 1 \in 1 .. MaxArmings /\ armed + 1 \in 0 .. MaxArmings
    BY <1>1, Bounds
  <1>3. lost' = 0 /\ 0 \in 0 .. MaxLost /\ told' = 0 /\ judged' = 0 /\ quit' = FALSE
    BY Bounds DEF Arms
  <1>. QED  BY <1>1, <1>2, <1>3 DEF Armings

LEMMA WritesBackType ==
  ASSUME TypeOK, NEW copy, NEW e \in {0, 1}, NEW f \in {0, 1}, WritesBack(copy, e, f)
  PROVE  lost' \in 0 .. MaxLost /\ told' \in Nat /\ judged' \in Nat /\ quit' \in BOOLEAN
  <1>1. lost' \in 0 .. MaxLost
    BY Bounds DEF TypeOK, WritesBack
  <1>2. told' \in Nat /\ judged' \in Nat
    BY DEF TypeOK, WritesBack
  <1>3. quit' \in BOOLEAN
    BY DEF TypeOK, WritesBack
  <1>. QED  BY <1>1, <1>2, <1>3

LEMMA SetsType ==
  ASSUME TypeOK, NEW max \in Budgets, NEW limit \in Limits, Sets(max, limit)
  PROVE  goal' \in GoalRecords
  BY ArmsType, NewType DEF Sets

LEMMA WaitingType ==
  ASSUME NEW fired \in BOOLEAN, NEW driven \in BOOLEAN
  PROVE  Waiting(fired, driven) \in Driving
  BY DEF Waiting, Driving

LEMMA WrittenType ==
  ASSUME TypeOK, NEW d \in Drives, In(d, "verify"), NEW g \in GoalRecords,
         NEW pc \in {"decided", "hooks"}, NEW f \in {0, 1}, Written(d, g, pc, f)
  PROVE  TypeOK'
  <1>0. drive[d] \in Driving
    BY InType
  <1>1. [drive[d] EXCEPT !.pc = pc, !.copy = NoGoal] \in Driving
    BY <1>0 DEF Driving
  <1>2. drive' \in [Drives -> Driving \cup {Idle}]
    BY <1>1, Moves DEF Written
  <1>3. lost' \in 0 .. MaxLost /\ told' \in Nat /\ judged' \in Nat /\ quit' \in BOOLEAN
    BY WritesBackType DEF Written
  <1>. QED  BY <1>2, <1>3 DEF Written, TypeOK, bounds

LEMMA EditsType ==
  ASSUME TypeOK,
         \/ \E max \in Budgets, limit \in Limits, kick \in Kicks : PostSet(max, limit, kick)
         \/ Clear \/ Resume \/ RearmExtends \/ RearmRestarts
         \/ \E add \in Adds : RearmReads(add)
  PROVE  TypeOK'
  <1>1. ASSUME NEW max \in Budgets, NEW limit \in Limits, NEW kick \in Kicks,
               PostSet(max, limit, kick)
        PROVE  TypeOK'
    BY <1>1, SetsType, ArmsType DEF PostSet, Sets, TypeOK
  <1>2. CASE Clear
    BY <1>2, EventType DEF Clear, TypeOK, history
  <1>3. CASE Resume
    BY <1>3, EventType DEF Resume, TypeOK, history
  <1>4. ASSUME NEW add \in Adds, RearmReads(add)
        PROVE  TypeOK'
    <2>1. rearming' \in Rearmings
      BY <1>4 DEF RearmReads, Rearmings, TypeOK
    <2>. QED  BY <1>4, <2>1, EventType DEF RearmReads, TypeOK, history
  <1>5. ASSUME rearming # NoRearm
        PROVE  rearming.copy \in GoalRecords /\ rearming.add \in Adds
    BY <1>5 DEF TypeOK, Rearmings
  <1>6. CASE RearmExtends
    <2>1. goal' \in GoalRecords
      BY <1>5, <1>6, GoalOps DEF RearmExtends
    <2>2. lost' \in 0 .. MaxLost /\ told' \in Nat /\ judged' \in Nat /\ quit' \in BOOLEAN
      BY <1>6, WritesBackType DEF RearmExtends
    <2>. QED  BY <1>6, <2>1, <2>2 DEF RearmExtends, bounds, TypeOK
  <1>7. CASE RearmRestarts
    <2>1. armed + 1 \in Armings
      BY <1>7, ArmsType DEF RearmRestarts
    <2>2. goal' \in GoalRecords
      BY <1>5, <1>7, <2>1, GoalOps DEF RearmRestarts
    <2>. QED  BY <1>7, <2>2, ArmsType DEF RearmRestarts, TypeOK
  <1>. QED  BY <1>1, <1>2, <1>3, <1>4, <1>6, <1>7

LEMMA TurnsType ==
  ASSUME TypeOK, NEW d \in Drives,
         \/ \E max \in Budgets, limit \in Limits :
              ArriveSetting(d, max, limit) \/ ToolSet(d, max, limit)
         \/ Arrive(d) \/ Fire(d) \/ Enter(d) \/ Abandon(d) \/ HandOff(d)
         \/ Held(d) \/ Parks(d) \/ TurnEnds(d)
  PROVE  TypeOK'
  <1>1. ASSUME NEW max \in Budgets, NEW limit \in Limits, ArriveSetting(d, max, limit)
        PROVE  TypeOK'
    <2>1. Waiting(FALSE, d \notin Streams) \in Driving
      BY WaitingType
    <2>. QED  BY <1>1, <2>1, Moves, SetsType, ArmsType DEF ArriveSetting, Sets, TypeOK
  <1>2. ASSUME NEW max \in Budgets, NEW limit \in Limits, ToolSet(d, max, limit)
        PROVE  TypeOK'
    BY <1>2, SetsType, ArmsType DEF ToolSet, Sets, TypeOK
  <1>3. CASE Arrive(d)
    <2>1. Waiting(FALSE, d \notin Streams /\ IsActive(goal)) \in Driving
      BY WaitingType DEF IsActive
    <2>. QED  BY <1>3, <2>1, Moves DEF Arrive, TypeOK, bounds, history
  <1>4. CASE Fire(d)
    <2>1. Waiting(TRUE, FALSE) \in Driving
      BY WaitingType
    <2>2. drive' \in [Drives -> Driving \cup {Idle}]
      BY <1>4, <2>1, Moves DEF Fire
    <2>3. queued' \in Nat
      BY <1>4 DEF Fire, TypeOK
    <2>. QED  BY <1>4, <2>2, <2>3 DEF Fire, TypeOK, bounds, history
  <1>5. CASE Enter(d)
    <2>1. [drive[d] EXCEPT !.pc = "turn",
             !.driven = IF d \in Streams THEN IsActive(goal) ELSE drive[d].driven] \in Driving
      BY <1>5, InType DEF Enter, Driving, IsActive
    <2>. QED  BY <1>5, <2>1, Moves DEF Enter, TypeOK, bounds, history
  <1>6. CASE Abandon(d)
    <2>1. goal' \in GoalRecords
      BY <1>6, GoalOps DEF Abandon, IsActive, TypeOK
    <2>. QED  BY <1>6, <2>1 DEF Abandon, TypeOK, bounds
  <1>7. CASE HandOff(d)
    BY <1>7 DEF HandOff, TypeOK, bounds, history
  <1>8. CASE Held(d) \/ Parks(d)
    BY <1>8, LeaveType DEF Held, Parks, TypeOK, bounds, history
  <1>9. CASE TurnEnds(d)
    <2>1. [drive[d] EXCEPT !.pc = "ended", !.driven = FALSE] \in Driving
      BY <1>9, InType DEF TurnEnds, Driving
    <2>. QED  BY <1>9, <2>1, Moves DEF TurnEnds, TypeOK, bounds, history
  <1>. QED  BY <1>1, <1>2, <1>3, <1>4, <1>5, <1>6, <1>7, <1>8, <1>9

\* An evaluation holds the goal that it read.
Copied == \A d \in Drives : In(d, "verify") => Copy(d) # NoGoal

LEMMA CopyType ==
  ASSUME TypeOK, Copied, NEW d \in Drives, In(d, "verify")
  PROVE  Copy(d) \in GoalRecords /\ Copy(d).arming \in Armings
  <1>1. Copy(d) # NoGoal
    BY DEF Copied
  <1>2. drive[d] \in Driving
    BY InType
  <1>. QED  BY <1>1, <1>2 DEF Copy, Driving, GoalRecords

LEMMA VerdictsType ==
  ASSUME TypeOK, Copied, NEW d \in Drives, Verdict(d)
  PROVE  TypeOK'
  <1>1. In(d, "verify")
    BY DEF Verdict, Met, GivesUp, Continues, RunsOut, StallsOut
  <1>2. /\ Copy(d) \in GoalRecords
        /\ \A sign \in Signs : Counted(Copy(d), sign) \in GoalRecords
    BY <1>1, CopyType, CountedType
  <1>3. ASSUME NEW g \in GoalRecords, NEW s \in {"achieved", "exhausted", "unachievable"},
               Finishes(d, g, s)
        PROVE  TypeOK'
    BY <1>1, <1>3, OverType, WrittenType DEF Finishes
  <1>4. CASE Met(d) \/ GivesUp(d)
    BY <1>2, <1>3, <1>4 DEF Met, GivesUp
  <1>5. ASSUME NEW sign \in Signs, Continues(d, sign)
        PROVE  TypeOK'
    BY <1>1, <1>2, <1>5, WrittenType DEF Continues
  <1>6. ASSUME NEW sign \in Signs, RunsOut(d, sign) \/ StallsOut(d, sign)
        PROVE  TypeOK'
    BY <1>2, <1>3, <1>6 DEF RunsOut, StallsOut
  <1>. QED  BY <1>4, <1>5, <1>6 DEF Verdict

LEMMA LoopType ==
  ASSUME TypeOK, NEW d \in Drives,
         EndsDrive(d) \/ Judge(d) \/ HooksDone(d) \/ Pause(d) \/ GoOn(d) \/ Cut(d)
  PROVE  TypeOK'
  <1>1. CASE EndsDrive(d)
    BY <1>1, LeaveType DEF EndsDrive, TypeOK, bounds, history
  <1>2. CASE Judge(d)
    <2>1. In(d, "ended") /\ drive[d] \in Driving /\ goal \in GoalRecords
      BY <1>2, InType DEF Judge, Judgeable, IsActive, TypeOK
    <2>2. drive[d].guard + 1 \in 0 .. HardCap
      BY <1>2, <2>1 DEF Judge, Judgeable, Driving
    <2>3. [drive[d] EXCEPT !.pc = "verify", !.copy = goal, !.guard = drive[d].guard + 1] \in Driving
      BY <2>1, <2>2 DEF Driving
    <2>. QED  BY <1>2, <2>3, Moves DEF Judge, TypeOK, bounds, history
  <1>3. CASE HooksDone(d)
    BY <1>3, LeaveType DEF HooksDone, TypeOK, bounds, history
  <1>4. CASE Pause(d)
    BY <1>4, LeaveType DEF Pause, TypeOK, bounds, history
  <1>5. CASE GoOn(d)
    <2>0. drive[d] \in Driving
      BY <1>5, InType DEF GoOn
    <2>1. [drive[d] EXCEPT !.pc = IF d \in Streams THEN "turn" ELSE "waiting",
                           !.looping = TRUE] \in Driving
      <3>1. CASE d \in Streams
        BY <2>0, <3>1 DEF Driving
      <3>2. CASE d \notin Streams
        BY <2>0, <3>2 DEF Driving
      <3>. QED  BY <3>1, <3>2
    <2>. QED  BY <1>5, <2>1, Moves DEF GoOn, TypeOK, bounds, history
  <1>6. CASE Cut(d)
    BY <1>6, LeaveType, EventType DEF Cut, Fault, TypeOK, history
  <1>. QED  BY <1>1, <1>2, <1>3, <1>4, <1>5, <1>6

LEMMA CrashType ==
  ASSUME TypeOK, Crash
  PROVE  TypeOK'
  <1>1. Cardinality(Firing) \in Nat
    <2>1. IsFiniteSet(Firing)
      BY FS_Subset DEF Firing
    <2>. QED  BY <2>1, FS_CardinalityType
  <1>2. queued' \in Nat
    BY <1>1 DEF Crash, TypeOK
  <1>3. drive' \in [Drives -> Driving \cup {Idle}] /\ lock' \in Drives \cup {Free}
    BY DEF Crash
  <1>. QED  BY <1>2, <1>3, EventType DEF Crash, Fault, TypeOK, history

LEMMA StepType ==
  ASSUME TypeOK, Copied, [Next]_vars
  PROVE  TypeOK'
  <1>1. CASE UNCHANGED vars
    BY <1>1 DEF vars, bounds, history, TypeOK
  <1>2. ASSUME NEW d \in Drives, NEW sign \in Signs,
               Continues(d, sign) \/ RunsOut(d, sign) \/ StallsOut(d, sign)
        PROVE  TypeOK'
    BY <1>2, VerdictsType DEF Verdict
  <1>3. ASSUME NEW d \in Drives, Met(d) \/ GivesUp(d)
        PROVE  TypeOK'
    BY <1>3, VerdictsType DEF Verdict
  <1>. QED  BY <1>1, <1>2, <1>3, EditsType, TurnsType, LoopType, CrashType DEF Next

(***************************************************************************)
(* Who is in the middle of an evaluation.                                  *)
(***************************************************************************)

\* What an action may do to the drives without touching an evaluation.
Steady == \A d \in Drives : In(d, "verify")' => In(d, "verify") /\ Copy(d)' = Copy(d)

\* Drives but one are left alone, and that one is not being evaluated.
LEMMA OneMoves ==
  ASSUME TypeOK, NEW d \in Drives, NEW s, s = Idle \/ s.pc # "verify",
         drive' = [drive EXCEPT ![d] = s]
  PROVE  Steady
  BY DEF TypeOK, Steady, In, Copy

LEMMA Standing ==
  ASSUME drive' = drive
  PROVE  Steady
  BY DEF Steady, In, Copy

\* The actions that leave the goal and its history alone.
Quiet(d) ==
  \/ Resume \/ Arrive(d) \/ Fire(d) \/ Enter(d) \/ HandOff(d) \/ Held(d) \/ Parks(d) \/ TurnEnds(d)
  \/ EndsDrive(d) \/ HooksDone(d) \/ Pause(d) \/ GoOn(d) \/ Cut(d)

LEMMA QuietSteady ==
  ASSUME TypeOK, NEW d \in Drives, Quiet(d)
  PROVE  Steady /\ UNCHANGED <<goal, rearming, history>>
  <1>1. CASE Resume
    BY <1>1, Standing DEF Resume, history
  <1>2. CASE Arrive(d) \/ Fire(d)
    BY <1>2, OneMoves DEF Arrive, Fire, Waiting, bounds, history
  <1>3. CASE Enter(d)
    <2>1. drive[d] \in Driving
      BY <1>3, InType DEF Enter
    <2>2. [drive[d] EXCEPT !.pc = "turn",
             !.driven = IF d \in Streams THEN IsActive(goal) ELSE drive[d].driven].pc = "turn"
      BY <2>1 DEF Driving
    <2>. QED  BY <1>3, <2>2, OneMoves DEF Enter, bounds, history
  <1>4. CASE HandOff(d)
    BY <1>4, Standing DEF HandOff, bounds, history
  <1>5. CASE TurnEnds(d)
    <2>1. drive[d] \in Driving
      BY <1>5, InType DEF TurnEnds
    <2>2. [drive[d] EXCEPT !.pc = "ended", !.driven = FALSE].pc = "ended"
      BY <2>1 DEF Driving
    <2>. QED  BY <1>5, <2>2, OneMoves DEF TurnEnds, bounds, history
  <1>6. CASE GoOn(d)
    <2>1. drive[d] \in Driving
      BY <1>6, InType DEF GoOn
    <2>2. [drive[d] EXCEPT !.pc = IF d \in Streams THEN "turn" ELSE "waiting",
                           !.looping = TRUE].pc \in {"turn", "waiting"}
      BY <2>1 DEF Driving
    <2>. QED  BY <1>6, <2>2, OneMoves DEF GoOn, bounds, history
  <1>7. CASE Held(d) \/ Parks(d) \/ EndsDrive(d) \/ HooksDone(d) \/ Pause(d) \/ Cut(d)
    BY <1>7, OneMoves DEF Held, Parks, EndsDrive, HooksDone, Pause, Cut, Leave, bounds, history
  <1>. QED  BY <1>1, <1>2, <1>3, <1>4, <1>5, <1>6, <1>7 DEF Quiet

LEMMA JudgeOnly ==
  ASSUME TypeOK, NEW d \in Drives, Judge(d)
  PROVE  /\ IsActive(goal)
         /\ \A e \in Drives : In(e, "verify")' => e = d \/ In(e, "verify")
         /\ Copy(d)' = goal
         /\ \A e \in Drives \ {d} : Copy(e)' = Copy(e)
  BY InType DEF Judge, Judgeable, In, Copy, TypeOK, Driving

LEMMA VerdictSteady ==
  ASSUME TypeOK, NEW d \in Drives, In(d, "verify"), NEW g,
         NEW pc \in {"decided", "hooks"}, NEW f, Written(d, g, pc, f)
  PROVE  \A e \in Drives : In(e, "verify")' => e # d /\ In(e, "verify") /\ Copy(e)' = Copy(e)
  <1>1. drive[d] \in Driving
    BY InType
  <1>2. [drive[d] EXCEPT !.pc = pc, !.copy = NoGoal].pc # "verify"
    BY <1>1 DEF Driving
  <1>. QED  BY <1>2 DEF Written, In, Copy, TypeOK

LEMMA CopiedStep ==
  ASSUME TypeOK, Copied, [Next]_vars
  PROVE  Copied'
  <1>1. ASSUME Steady
        PROVE  Copied'
    BY <1>1 DEF Steady, Copied
  <1>2. CASE UNCHANGED vars
    BY <1>1, <1>2, Standing DEF vars
  <1>3. ASSUME NEW max \in Budgets, NEW limit \in Limits, NEW kick \in Kicks,
               PostSet(max, limit, kick)
        PROVE  Copied'
    BY <1>1, <1>3, Standing DEF PostSet
  <1>4. ASSUME NEW max \in Budgets, NEW limit \in Limits, NEW d \in Drives,
               ArriveSetting(d, max, limit) \/ ToolSet(d, max, limit)
        PROVE  Copied'
    BY <1>1, <1>4, Standing, OneMoves DEF ArriveSetting, ToolSet, Waiting
  <1>5. CASE Clear \/ RearmExtends \/ RearmRestarts \/ Resume
    BY <1>1, <1>5, Standing DEF Clear, RearmExtends, RearmRestarts, Resume
  <1>6. ASSUME NEW add \in Adds, RearmReads(add)
        PROVE  Copied'
    BY <1>1, <1>6, Standing DEF RearmReads
  <1>7. ASSUME NEW d \in Drives, Quiet(d)
        PROVE  Copied'
    BY <1>1, <1>7, QuietSteady
  <1>8. ASSUME NEW d \in Drives, Abandon(d)
        PROVE  Copied'
    BY <1>1, <1>8, Standing DEF Abandon
  <1>9. ASSUME NEW d \in Drives, Judge(d)
        PROVE  Copied'
    BY <1>9, JudgeOnly DEF Copied, IsActive
  <1>10. ASSUME NEW d \in Drives, Verdict(d)
         PROVE  Copied'
    <2>1. In(d, "verify")
      BY <1>10 DEF Verdict, Met, GivesUp, Continues, RunsOut, StallsOut
    <2>2. \E g, pc, f : pc \in {"decided", "hooks"} /\ Written(d, g, pc, f)
      BY <1>10 DEF Verdict, Met, GivesUp, Continues, RunsOut, StallsOut, Finishes
    <2>. QED  BY <2>1, <2>2, VerdictSteady DEF Copied
  <1>11. CASE Crash
    BY <1>11 DEF Crash, Copied, In
  <1>12. ASSUME NEW d \in Drives, NEW sign \in Signs,
                Continues(d, sign) \/ RunsOut(d, sign) \/ StallsOut(d, sign)
         PROVE  Copied'
    BY <1>10, <1>12 DEF Verdict
  <1>. QED  BY <1>2, <1>3, <1>4, <1>5, <1>6, <1>7, <1>8, <1>9, <1>10, <1>11, <1>12
         DEF Next, Quiet, Verdict

LEMMA InitType == Init => TypeOK /\ Copied
  <1>. SUFFICES ASSUME Init
                PROVE  TypeOK /\ Copied
    OBVIOUS
  <1>1. armed \in 0 .. MaxArmings /\ events \in 0 .. MaxEvents /\ lost \in 0 .. MaxLost
    BY Bounds DEF Init
  <1>2. TypeOK
    BY <1>1 DEF Init, TypeOK
  <1>. QED  BY <1>2 DEF Init, Copied, In

\* TypeCorrect.  The state stays within its types: above all, no drive makes
\* more evaluations than the loop's cap, whatever is set or extended meanwhile.
THEOREM TypeCorrect == Spec => []TypeOK
  <1>1. Init => TypeOK /\ Copied
    BY InitType
  <1>2. TypeOK /\ Copied /\ [Next]_vars => (TypeOK /\ Copied)'
    BY StepType, CopiedStep
  <1>. QED  BY <1>1, <1>2, PTL DEF Spec

(***************************************************************************)
(* The invariant: as long as nothing was lost, the goal's counters are     *)
(* what its history says; and endings announced are paid for.              *)
(***************************************************************************)

CopyOK == \A d \in Drives : In(d, "verify") => IsActive(Copy(d))

ToldOK == lost < MaxLost => told <= 1 + lost /\ (IsActive(goal) => told <= lost)

GoalOK ==
  goal # NoGoal /\ lost = 0 =>
    /\ judged <= goal.max
    /\ IsActive(goal) =>
         /\ judged = goal.iteration /\ goal.iteration < goal.max
         /\ quit => goal.abandoned

IInv == TypeOK /\ Copied /\ CopyOK /\ ToldOK /\ GoalOK

LEMMA CopyOKSteady ==
  ASSUME CopyOK, Steady
  PROVE  CopyOK'
  <1>. SUFFICES ASSUME NEW d \in Drives, In(d, "verify")'
                PROVE  IsActive(Copy(d))'
    BY DEF CopyOK
  <1>1. Copy(d)' = Copy(d) /\ IsActive(Copy(d))
    BY DEF Steady, CopyOK
  <1>. QED  BY <1>1 DEF IsActive

LEMMA QuietKeeps ==
  ASSUME IInv, TypeOK', Copied', Steady, UNCHANGED <<goal, history>>
  PROVE  IInv'
  BY CopyOKSteady DEF IInv, ToldOK, GoalOK, IsActive, history

LEMMA GoalType ==
  ASSUME TypeOK, goal # NoGoal
  PROVE  /\ goal \in GoalRecords /\ goal.max \in Nat \ {0} /\ goal.iteration \in Nat
         /\ judged \in Nat
  BY DEF TypeOK, GoalRecords

\* A new arming begins with an empty history and an empty count.
LEMMA ArmsKeeps ==
  ASSUME IInv, TypeOK', Copied', Steady, Arms, goal' \in GoalRecords, goal'.iteration = 0
  PROVE  IInv'
  <1>1. lost' = 0 /\ told' = 0 /\ judged' = 0 /\ quit' = FALSE
    BY DEF Arms
  <1>2. goal'.max \in Nat /\ goal'.max > 0
    BY DEF GoalRecords
  <1>3. ToldOK' /\ GoalOK'
    BY <1>1, <1>2 DEF ToldOK, GoalOK
  <1>. QED  BY <1>3, CopyOKSteady DEF IInv

LEMMA SetKeeps ==
  ASSUME IInv, NEW max \in Budgets, NEW limit \in Limits, Sets(max, limit),
         TypeOK', Copied', Steady
  PROVE  IInv'
  <1>1. goal' \in GoalRecords /\ goal'.iteration = 0
    BY SetsType DEF IInv, Sets, New
  <1>. QED  BY <1>1, ArmsKeeps DEF Sets

\* A copy of an active goal comes back as g: over what it was read from, or as
\* a lost update.
LEMMA WriteKeeps ==
  ASSUME IInv, NEW copy \in GoalRecords, IsActive(copy), NEW g \in GoalRecords, goal' = g,
         NEW e \in {0, 1}, NEW f \in {0, 1}, WritesBack(copy, e, f),
         g.max >= copy.max,
         g.status = "active" => /\ f = 0 /\ g.abandoned = copy.abandoned
                                /\ g.iteration = copy.iteration + e
                                /\ copy.iteration < copy.max => g.iteration < g.max
  PROVE  ToldOK' /\ GoalOK'
  <1>0. /\ lost \in Nat /\ told \in Nat /\ judged \in Nat /\ MaxLost \in Nat /\ MaxLost > 0
        /\ lost <= MaxLost
        /\ copy.max \in Nat /\ copy.iteration \in Nat /\ g.max \in Nat /\ g.iteration \in Nat
    BY Bounds DEF IInv, TypeOK, GoalRecords
  <1>1. CASE lost < MaxLost /\ goal = copy
    <2>1. /\ lost' = lost /\ told' = told + f /\ quit' = quit
          /\ lost = 0 => judged' = judged + e
      BY <1>1 DEF WritesBack
    <2>2. told <= lost
      BY <1>1 DEF IInv, ToldOK
    <2>3. ToldOK'
      BY <1>0, <2>1, <2>2 DEF ToldOK, IsActive
    <2>4. ASSUME lost = 0
          PROVE  /\ judged = copy.iteration /\ copy.iteration < copy.max
                 /\ quit => copy.abandoned
      BY <1>1, <2>4 DEF IInv, GoalOK, IsActive
    <2>5. GoalOK'
      BY <1>0, <2>1, <2>4 DEF GoalOK, IsActive
    <2>. QED  BY <2>3, <2>5
  <1>2. CASE ~(lost < MaxLost /\ goal = copy)
    <2>1. /\ lost' = (IF lost < MaxLost THEN lost + 1 ELSE lost)
          /\ lost' < MaxLost => told' = told + f
      BY <1>2 DEF WritesBack
    <2>2. lost' > 0
      BY <1>0, <2>1
    <2>3. ToldOK'
      <3>1. SUFFICES ASSUME lost' < MaxLost
                     PROVE  told' <= 1 + lost' /\ (IsActive(goal') => told' <= lost')
        BY DEF ToldOK, IsActive
      <3>2. lost < MaxLost /\ lost' = lost + 1 /\ told' = told + f
        BY <1>0, <2>1, <3>1
      <3>3. told <= 1 + lost
        BY <3>2 DEF IInv, ToldOK
      <3>4. IsActive(goal') => f = 0
        BY DEF IsActive
      <3>. QED  BY <1>0, <3>2, <3>3, <3>4
    <2>. QED  BY <2>2, <2>3 DEF GoalOK
  <1>. QED  BY <1>1, <1>2

LEMMA PlainEditsKeep ==
  ASSUME IInv, TypeOK', Copied',
         Clear \/ RearmExtends \/ RearmRestarts \/ \E add \in Adds : RearmReads(add)
  PROVE  IInv'
  <1>0. Steady
    BY Standing DEF Clear, RearmExtends, RearmRestarts, RearmReads
  <1>1. CASE Clear
    BY <1>0, <1>1, CopyOKSteady DEF Clear, history, IInv, ToldOK, GoalOK, IsActive
  <1>2. ASSUME NEW add \in Adds, RearmReads(add)
        PROVE  IInv'
    BY <1>0, <1>2, QuietKeeps DEF RearmReads
  <1>3. ASSUME rearming # NoRearm
        PROVE  rearming.copy \in GoalRecords /\ rearming.add \in Nat
    BY <1>3, Bounds DEF IInv, TypeOK, Rearmings
  <1>4. CASE RearmExtends
    <2>. DEFINE copy == rearming.copy
                g    == Extended(rearming.copy, rearming.add)
    <2>1. /\ copy \in GoalRecords /\ rearming.add \in Nat /\ IsActive(copy)
          /\ goal' = g /\ WritesBack(copy, 0, 0)
      BY <1>3, <1>4 DEF RearmExtends
    <2>2. /\ g \in GoalRecords /\ g.max = copy.max + rearming.add
          /\ g.abandoned = copy.abandoned /\ g.iteration = copy.iteration
      BY <2>1 DEF Extended, GoalRecords
    <2>3. copy.max \in Nat /\ copy.iteration \in Nat
      BY <2>1 DEF GoalRecords
    <2>4. g.max >= copy.max
      BY <2>1, <2>2, <2>3
    <2>5. copy.iteration < copy.max => g.iteration < g.max
      <3>1. g.max \in Nat
        BY <2>2 DEF GoalRecords
      <3>2. g.iteration = copy.iteration
        BY <2>2
      <3>. HIDE DEF copy, g
      <3>. QED  BY <2>3, <2>4, <3>1, <3>2
    <2>. HIDE DEF copy, g
    <2>6. ToldOK' /\ GoalOK'
      BY <2>1, <2>2, <2>3, <2>4, <2>5, WriteKeeps
    <2>. QED  BY <1>0, <2>6, CopyOKSteady DEF IInv
  <1>5. CASE RearmRestarts
    <2>1. /\ goal' = Restarted(rearming.copy, armed + 1, rearming.add) /\ armed + 1 \in Armings
          /\ rearming.copy \in GoalRecords /\ rearming.add \in Adds /\ Arms
      BY <1>3, <1>5, ArmsType DEF RearmRestarts, IInv, TypeOK, Rearmings
    <2>2. goal' \in GoalRecords
      BY <2>1, GoalOps
    <2>3. goal'.iteration = 0
      BY <2>1 DEF Restarted, GoalRecords
    <2>. QED  BY <1>0, <2>1, <2>2, <2>3, ArmsKeeps
  <1>. QED  BY <1>1, <1>2, <1>4, <1>5

LEMMA AbandonKeeps ==
  ASSUME IInv, TypeOK', Copied', NEW d \in Drives, Abandon(d)
  PROVE  IInv'
  <1>1. /\ IsActive(goal) /\ goal \in GoalRecords /\ goal' = Abandoned(goal)
        /\ UNCHANGED <<lost, told, judged>>
    BY DEF Abandon, IsActive, IInv, TypeOK
  <1>2. /\ goal'.iteration = goal.iteration /\ goal'.max = goal.max
        /\ goal'.status = goal.status /\ goal'.abandoned = TRUE
    BY <1>1 DEF Abandoned, GoalRecords
  <1>3. Steady
    BY Standing DEF Abandon
  <1>4. ToldOK'
    BY <1>1 DEF IInv, ToldOK
  <1>5. GoalOK'
    BY <1>1, <1>2 DEF IInv, GoalOK, IsActive
  <1>. QED  BY <1>3, <1>4, <1>5, CopyOKSteady DEF IInv

LEMMA JudgeKeeps ==
  ASSUME IInv, TypeOK', Copied', NEW d \in Drives, Judge(d)
  PROVE  IInv'
  <1>1. UNCHANGED <<goal, history>> /\ IsActive(goal)
    BY DEF Judge, Judgeable
  <1>2. CopyOK'
    BY <1>1, JudgeOnly DEF IInv, CopyOK, IsActive
  <1>. QED  BY <1>1, <1>2 DEF IInv, ToldOK, GoalOK, IsActive, history

LEMMA WrittenKeeps ==
  ASSUME IInv, NEW d \in Drives, In(d, "verify"), NEW g \in GoalRecords,
         NEW pc \in {"decided", "hooks"}, NEW f \in {0, 1}, Written(d, g, pc, f),
         g.max = Copy(d).max,
         g.status = "active" => /\ f = 0 /\ g.abandoned = Copy(d).abandoned
                                /\ g.iteration = Copy(d).iteration + 1 /\ g.iteration < g.max,
         TypeOK', Copied'
  PROVE  IInv'
  <1>1. Copy(d) \in GoalRecords /\ IsActive(Copy(d)) /\ g.max >= Copy(d).max
    BY CopyType DEF IInv, CopyOK, GoalRecords
  <1>2. goal' = g /\ WritesBack(Copy(d), 1, f)
    BY DEF Written
  <1>3. ToldOK' /\ GoalOK'
    BY <1>1, <1>2, WriteKeeps
  <1>4. CopyOK'
    <2>. SUFFICES ASSUME NEW e \in Drives, In(e, "verify")'
                  PROVE  IsActive(Copy(e))'
      BY DEF CopyOK
    <2>1. Copy(e)' = Copy(e) /\ IsActive(Copy(e))
      BY VerdictSteady DEF IInv, CopyOK
    <2>. QED  BY <2>1 DEF IsActive
  <1>. QED  BY <1>3, <1>4 DEF IInv

LEMMA FinishKeeps ==
  ASSUME IInv, NEW d \in Drives, In(d, "verify"), NEW g \in GoalRecords, g.max = Copy(d).max,
         NEW s \in {"achieved", "exhausted", "unachievable"}, Finishes(d, g, s), TypeOK', Copied'
  PROVE  IInv'
  <1>1. Over(g, s) \in GoalRecords /\ Over(g, s).max = Copy(d).max /\ Over(g, s).status # "active"
    BY OverType DEF Over, GoalRecords
  <1>. QED  BY <1>1, WrittenKeeps DEF Finishes

LEMMA VerdictKeeps ==
  ASSUME IInv, NEW d \in Drives, Verdict(d), TypeOK', Copied'
  PROVE  IInv'
  <1>1. In(d, "verify")
    BY DEF Verdict, Met, GivesUp, Continues, RunsOut, StallsOut
  <1>2. /\ Copy(d) \in GoalRecords
        /\ \A sign \in Signs : /\ Counted(Copy(d), sign) \in GoalRecords
                               /\ Counted(Copy(d), sign).max = Copy(d).max
                               /\ Counted(Copy(d), sign).iteration = Copy(d).iteration + 1
                               /\ Counted(Copy(d), sign).abandoned = Copy(d).abandoned
    <2>1. Copy(d) \in GoalRecords
      BY <1>1, CopyType DEF IInv
    <2>2. \A sign : Counted(Copy(d), sign).abandoned = Copy(d).abandoned
      BY <2>1 DEF Counted, GoalRecords
    <2>. QED  BY <2>1, <2>2, CountedType
  <1>3. CASE Met(d) \/ GivesUp(d)
    BY <1>1, <1>2, <1>3, FinishKeeps DEF Met, GivesUp
  <1>4. ASSUME NEW sign \in Signs, Continues(d, sign)
        PROVE  IInv'
    <2>. DEFINE g == Counted(Copy(d), sign)
    <2>1. Written(d, g, "decided", 0) /\ ~(g.iteration >= g.max)
      BY <1>4 DEF Continues, Spent
    <2>2. g \in GoalRecords /\ g.max = Copy(d).max /\ g.iteration = Copy(d).iteration + 1
          /\ g.abandoned = Copy(d).abandoned
      BY <1>2
    <2>. HIDE DEF g
    <2>3. g.iteration < g.max
      BY <2>1, <2>2 DEF GoalRecords
    <2>. QED  BY <1>1, <2>1, <2>2, <2>3, WrittenKeeps
  <1>5. ASSUME NEW sign \in Signs, RunsOut(d, sign) \/ StallsOut(d, sign)
        PROVE  IInv'
    <2>1. \E s \in {"exhausted", "unachievable"} : Finishes(d, Counted(Copy(d), sign), s)
      BY <1>5 DEF RunsOut, StallsOut
    <2>. QED  BY <1>1, <1>2, <2>1, FinishKeeps
  <1>. QED  BY <1>3, <1>4, <1>5 DEF Verdict

LEMMA CrashKeeps ==
  ASSUME IInv, Crash, TypeOK', Copied'
  PROVE  IInv'
  BY DEF Crash, history, IInv, In, CopyOK, ToldOK, GoalOK, IsActive

LEMMA StepKeeps ==
  ASSUME IInv, [Next]_vars
  PROVE  IInv'
  <1>1. TypeOK' /\ Copied'
    BY StepType, CopiedStep DEF IInv
  <1>2. CASE UNCHANGED vars
    BY <1>1, <1>2, Standing, QuietKeeps DEF vars
  <1>3. ASSUME NEW max \in Budgets, NEW limit \in Limits, NEW kick \in Kicks,
               PostSet(max, limit, kick)
        PROVE  IInv'
    BY <1>1, <1>3, Standing, SetKeeps DEF PostSet
  <1>4. ASSUME NEW max \in Budgets, NEW limit \in Limits, NEW d \in Drives,
               ArriveSetting(d, max, limit) \/ ToolSet(d, max, limit)
        PROVE  IInv'
    <2>1. Steady
      BY <1>4, Standing, OneMoves DEF ArriveSetting, ToolSet, Waiting, IInv
    <2>. QED  BY <1>1, <1>4, <2>1, SetKeeps DEF ArriveSetting, ToolSet
  <1>5. ASSUME NEW d \in Drives, Quiet(d)
        PROVE  IInv'
    BY <1>1, <1>5, QuietSteady, QuietKeeps DEF IInv
  <1>6. ASSUME NEW d \in Drives, NEW sign \in Signs,
               Continues(d, sign) \/ RunsOut(d, sign) \/ StallsOut(d, sign)
        PROVE  IInv'
    BY <1>1, <1>6, VerdictKeeps DEF Verdict
  <1>7. ASSUME NEW d \in Drives, Met(d) \/ GivesUp(d)
        PROVE  IInv'
    BY <1>1, <1>7, VerdictKeeps DEF Verdict
  <1>8. CASE Resume
    BY <1>1, <1>8, Standing, QuietKeeps DEF Resume
  <1>. QED  BY <1>1, <1>2, <1>3, <1>4, <1>5, <1>6, <1>7, <1>8, PlainEditsKeep, AbandonKeeps,
               JudgeKeeps, CrashKeeps DEF Next, Quiet

LEMMA InitOK == Init => IInv
  <1>. SUFFICES ASSUME Init
                PROVE  IInv
    OBVIOUS
  <1>1. TypeOK /\ Copied
    BY InitType
  <1>2. CopyOK /\ ToldOK /\ GoalOK
    BY DEF Init, CopyOK, ToldOK, GoalOK, In, IsActive
  <1>. QED  BY <1>1, <1>2 DEF IInv

LEMMA Invariance == Spec => []IInv
  <1>1. IInv /\ [Next]_vars => IInv'
    BY StepKeeps
  <1>. QED  BY InitOK, <1>1, PTL DEF Spec

\* KeepsToBudget.  However its drives are cut, crashed, paused, kicked or
\* extended, and whatever is edited during an evaluation, an arming is evaluated
\* no more often than its budget allows as long as no update of it is lost.
THEOREM KeepsToBudget == Spec => []BudgetKept
  <1>1. IInv => BudgetKept
    <2>. SUFFICES ASSUME IInv, goal # NoGoal, lost = 0
                  PROVE  judged <= goal.max /\ (judged = goal.max => goal.status # "active")
      BY DEF BudgetKept
    <2>. QED  BY GoalType DEF IInv, GoalOK, IsActive
  <1>. QED  BY <1>1, Invariance, PTL

\* AnnouncedOnce.  An arming is finished, with its hooks, at most once more than
\* updates of it are lost, by however many drives it is evaluated at once.
THEOREM AnnouncedOnce == Spec => []ToldOnce
  <1>1. IInv => ToldOnce
    BY DEF IInv, ToldOK, ToldOnce
  <1>. QED  BY <1>1, Invariance, PTL

\* Only a verdict on a copy that was not given up makes a drive go on, and it
\* writes that copy back.
LEMMA GoesOn ==
  ASSUME TypeOK, Next, NEW d \in Drives, In(d, "verify"), In(d, "decided")'
  PROVE  ~Copy(d).abandoned /\ WritesBack(Copy(d), 1, 0)
  <1>. SUFFICES ASSUME ~(~Copy(d).abandoned /\ WritesBack(Copy(d), 1, 0))
                PROVE  FALSE
    OBVIOUS
  <1>1. ASSUME drive' = drive
        PROVE  FALSE
    BY <1>1 DEF In
  <1>2. ASSUME NEW e \in Drives, NEW s, drive' = [drive EXCEPT ![e] = s],
               e # d \/ s = Idle \/ s.pc # "decided"
        PROVE  FALSE
    BY <1>2 DEF In, TypeOK
  <1>3. ASSUME NEW e \in Drives, NEW pc, In(e, pc), pc # "verify"
        PROVE  e # d
    BY <1>3 DEF In
  <1>4. ASSUME NEW max \in Budgets, NEW limit \in Limits, NEW kick \in Kicks,
               PostSet(max, limit, kick)
        PROVE  FALSE
    BY <1>1, <1>4 DEF PostSet
  <1>5. ASSUME NEW max \in Budgets, NEW limit \in Limits, NEW e \in Drives,
               ArriveSetting(e, max, limit) \/ ToolSet(e, max, limit)
        PROVE  FALSE
    BY <1>1, <1>2, <1>5 DEF ArriveSetting, ToolSet, In
  <1>6. ASSUME Clear \/ Resume \/ RearmExtends \/ RearmRestarts
               \/ \E add \in Adds : RearmReads(add)
        PROVE  FALSE
    BY <1>1, <1>6 DEF Clear, Resume, RearmExtends, RearmRestarts, RearmReads
  <1>7. ASSUME NEW e \in Drives, Arrive(e) \/ Fire(e) \/ Abandon(e) \/ HandOff(e)
        PROVE  FALSE
    BY <1>1, <1>2, <1>7 DEF Arrive, Fire, Abandon, HandOff, In
  <1>8. ASSUME NEW e \in Drives, Enter(e) \/ TurnEnds(e) \/ Judge(e) \/ GoOn(e)
        PROVE  FALSE
    BY <1>2, <1>3, <1>8 DEF Enter, TurnEnds, Judge, Judgeable, GoOn
  <1>9. ASSUME NEW e \in Drives,
               Held(e) \/ Parks(e) \/ EndsDrive(e) \/ HooksDone(e) \/ Pause(e) \/ Cut(e)
        PROVE  FALSE
    BY <1>2, <1>9 DEF Held, Parks, EndsDrive, HooksDone, Pause, Cut, Leave
  <1>10. ASSUME NEW e \in Drives, NEW g, Written(e, g, "hooks", 1)
         PROVE  FALSE
    <2>1. [drive[e] EXCEPT !.pc = "hooks", !.copy = NoGoal].pc # "decided" \/ e # d
      BY InType DEF Driving
    <2>. QED  BY <1>2, <1>10, <2>1 DEF Written
  <1>11. ASSUME NEW e \in Drives, NEW sign \in Signs,
                Continues(e, sign) \/ RunsOut(e, sign) \/ StallsOut(e, sign)
         PROVE  FALSE
    <2>1. CASE Continues(e, sign)
      BY <1>2, <2>1 DEF Continues, Written
    <2>. QED  BY <1>10, <1>11, <2>1 DEF RunsOut, StallsOut, Finishes
  <1>12. ASSUME NEW e \in Drives, Met(e) \/ GivesUp(e)
         PROVE  FALSE
    BY <1>10, <1>12 DEF Met, GivesUp, Finishes
  <1>13. CASE Crash
    BY <1>13 DEF Crash, In
  <1>. QED  BY <1>4, <1>5, <1>6, <1>7, <1>8, <1>9, <1>11, <1>12, <1>13 DEF Next

\* StopsWhenGivenUp.  No drive goes on with an arming that the agent gave up,
\* unless an update of the arming is lost, at the latest by this very verdict.
THEOREM StopsWhenGivenUp == Spec => GiveUpStops
  <1>. DEFINE A == \A d \in Drives :
                     In(d, "verify") /\ drive'[d] # Idle /\ drive'[d].pc = "decided"
                       => ~quit \/ lost' > 0
  <1>1. IInv /\ [Next]_vars => [A]_vars
    <2>. SUFFICES ASSUME IInv, Next, NEW d \in Drives, In(d, "verify"),
                         drive'[d] # Idle, drive'[d].pc = "decided", quit, ~(lost' > 0)
                  PROVE  FALSE
      OBVIOUS
    <2>1. IsActive(Copy(d)) /\ Copy(d) \in GoalRecords
      BY CopyType DEF IInv, CopyOK
    <2>2. ~Copy(d).abandoned /\ WritesBack(Copy(d), 1, 0)
      BY GoesOn DEF IInv, In
    <2>3. lost = 0 /\ goal = Copy(d)
      <3>1. lost \in Nat /\ lost <= MaxLost /\ MaxLost \in Nat /\ MaxLost > 0
        BY Bounds DEF IInv, TypeOK
      <3>2. CASE lost < MaxLost /\ goal = Copy(d)
        <4>1. lost' = lost
          BY <2>2, <3>2 DEF WritesBack
        <4>. QED  BY <3>1, <3>2, <4>1
      <3>3. CASE ~(lost < MaxLost /\ goal = Copy(d))
        <4>1. lost' = (IF lost < MaxLost THEN lost + 1 ELSE lost)
          BY <2>2, <3>3 DEF WritesBack
        <4>. QED  BY <3>1, <4>1
      <3>. QED  BY <3>2, <3>3
    <2>4. goal.abandoned
      BY <2>1, <2>3 DEF IInv, GoalOK
    <2>. QED  BY <2>2, <2>3, <2>4
  <1>. QED  BY <1>1, Invariance, PTL DEF Spec, GiveUpStops
=============================================================================
