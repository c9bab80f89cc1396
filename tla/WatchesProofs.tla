---------------------------- MODULE WatchesProofs ----------------------------
(* Theorems about watches, for every store, any number of tasks and every  *)
(* combination of faults; create and clear may cross an evaluation.        *)
EXTENDS Watches, TLAPS

USE WatchesAssumption

(***************************************************************************)
(* What the updates of a watch keep.                                       *)
(***************************************************************************)

LEMMA CreatedType ==
  ASSUME NEW n \in Editions, NEW s \in Settings
  PROVE  Created(n, s) \in Watch
  BY DEF Created, Watch

LEMMA EditedType ==
  ASSUME NEW w \in Watch, NEW e \in EditSet
  PROVE  /\ Edited(w, e) \in Watch
         /\ Edited(w, e).edition = w.edition /\ Edited(w, e).status = w.status
  <1>. DEFINE s == EditedSettings(w.set, e)
              wasMet == w.wasMet /\ s.trigger = w.set.trigger
              streak == Pick(e, "stallAfter", 0, w.streak)
              notified == Pick(e, "stallAfter", FALSE, w.notified)
  <1>1. s \in Settings
    <2>1. w.set \in Settings /\ e.to \in Settings
      BY DEF Watch, EditSet
    <2>. QED  BY <2>1 DEF EditedSettings, Pick, Settings
  <1>2. wasMet \in BOOLEAN /\ notified \in BOOLEAN
    BY DEF Pick, Watch
  <1>3. streak \in 0 .. StallCap
    BY DEF Pick, Watch
  <1>4. Edited(w, e) = [w EXCEPT !.set = s, !.wasMet = wasMet, !.streak = streak,
                                 !.notified = notified]
    BY DEF Edited
  <1>. HIDE DEF s, wasMet, streak, notified
  <1>. QED  BY <1>1, <1>2, <1>3, <1>4 DEF Watch

LEMMA FinishedType ==
  ASSUME NEW w \in Watch, NEW r \in Results, NEW status \in {"met", "expired"},
         NEW reason \in Reasons \cup {NoReason, "met", "change", "deadline"}
  PROVE  /\ Finished(w, status, reason, r) \in Watch
         /\ Finished(w, status, reason, r).edition = w.edition
         /\ Finished(w, status, reason, r).set = w.set
         /\ Finished(w, status, reason, r).status = status
  <1>. DEFINE found == IF r.evidence = NoEvidence THEN w.evidence ELSE r.evidence
  <1>1. found \in Evidence \cup {NoEvidence} /\ r.met \in BOOLEAN
    BY DEF Watch, Results
  <1>2. Finished(w, status, reason, r) =
          [w EXCEPT !.status = status, !.wasMet = r.met, !.reason = reason, !.evidence = found]
    BY DEF Finished
  <1>. HIDE DEF found
  <1>. QED  BY <1>1, <1>2 DEF Watch

LEMMA SpokenType ==
  ASSUME NEW w \in Watch, NEW r \in Results
  PROVE  Spoken(w, r) \in Reasons \cup {NoReason, "met", "change", "deadline"}
  BY DEF Spoken, Watch, Settings, Results

LEMMA StaysArmedType ==
  ASSUME NEW w \in Watch, NEW r \in Results
  PROVE  /\ StaysArmed(w, r) \in Watch
         /\ StaysArmed(w, r).edition = w.edition /\ StaysArmed(w, r).set = w.set
         /\ StaysArmed(w, r).status = w.status
  <1>1. 0 \in 0 .. StallCap
    OBVIOUS
  <1>2. r.met \in BOOLEAN /\ r.evidence \in Evidence \cup {NoEvidence}
    BY DEF Results
  <1>. QED  BY <1>1, <1>2, SpokenType DEF StaysArmed, Watch

LEMMA StreakType ==
  ASSUME NEW w \in Watch, NEW r \in Results
  PROVE  Streak(w, r) \in 0 .. StallCap
  BY DEF Streak, Watch

LEMMA ObservedType ==
  ASSUME NEW w \in Watch, NEW r \in Results
  PROVE  /\ Observed(w, r) \in Watch
         /\ Observed(w, r).edition = w.edition /\ Observed(w, r).set = w.set
         /\ Observed(w, r).status = w.status
  <1>1. Streak(w, r) \in 0 .. StallCap
    BY StreakType
  <1>2. (Stalls(w, r) \/ (w.notified /\ ~Changed(w, r))) \in BOOLEAN
    BY DEF Stalls, Changed
  <1>. QED  BY <1>1, <1>2 DEF Observed, Watch, Results

(***************************************************************************)
(* Types.                                                                  *)
(***************************************************************************)

\* A task's phase tells whether its copy is a watch.
Phased ==
  \A t \in Tasks : task[t] # Idle /\ task[t].pc \in {"verify", "stall"} => task[t].copy \in Watch

LEMMA WriteType ==
  ASSUME TypeOK, NEW t \in Tasks, task[t] # Idle, NEW w \in Watch, Write(t, w)
  PROVE  /\ file' \in [Ids -> Watch \cup {NoWatch}]
         /\ rested' \subseteq Ids /\ aged' \subseteq Ids /\ UNCHANGED <<world, passed>>
  BY DEF TypeOK, Write, Restarts, Busy

LEMMA NotedType ==
  ASSUME NEW S, NEW h \in [Ids -> S], NEW i \in Ids, NEW now \in S
  PROVE  Noted(h, i, now) \in [Ids -> S]
  BY DEF Noted

LEMMA LeaveType ==
  ASSUME TypeOK, NEW t \in Tasks, Leave(t)
  PROVE  task' \in [Tasks -> Busy \cup {Idle}]
  BY DEF TypeOK, Leave

LEMMA PhaseType ==
  ASSUME TypeOK, NEW t \in Tasks, task[t] # Idle,
         NEW pc \in {"waiting", "verify", "stall", "hooks"},
         task' = [task EXCEPT ![t].pc = pc]
  PROVE  task' \in [Tasks -> Busy \cup {Idle}]
  BY DEF TypeOK, Busy

LEMMA CopyType ==
  ASSUME TypeOK, NEW t \in Tasks, task[t] # Idle, NEW w \in Watch,
         NEW pc \in {"waiting", "verify", "stall", "hooks"},
         task' = [task EXCEPT ![t] = [@ EXCEPT !.pc = pc, !.copy = w]]
  PROVE  task' \in [Tasks -> Busy \cup {Idle}]
  <1>. DEFINE b == [task[t] EXCEPT !.pc = pc, !.copy = w]
  <1>1. task[t] \in Busy
    BY DEF TypeOK
  <1>2. b \in Busy
    BY <1>1 DEF Busy
  <1>3. task' = [task EXCEPT ![t] = b]
    OBVIOUS
  <1>. HIDE DEF b
  <1>. QED  BY <1>2, <1>3 DEF TypeOK

LEMMA CopyPhased ==
  ASSUME TypeOK, Phased, NEW t \in Tasks, task[t] # Idle, NEW w \in Watch,
         NEW pc \in {"waiting", "verify", "stall", "hooks"},
         task' = [task EXCEPT ![t] = [@ EXCEPT !.pc = pc, !.copy = w]]
  PROVE  Phased'
  <1>. DEFINE b == [task[t] EXCEPT !.pc = pc, !.copy = w]
  <1>1. task[t] \in Busy
    BY DEF TypeOK
  <1>2. b.copy = w
    BY <1>1 DEF Busy
  <1>3. task' = [task EXCEPT ![t] = b]
    OBVIOUS
  <1>. HIDE DEF b
  <1>. QED  BY <1>2, <1>3 DEF TypeOK, Phased

LEMMA AnswerType ==
  ASSUME TypeOK, Phased, NEW t \in Tasks, Answers(t)
  PROVE  /\ task[t] \in Busy /\ task[t].copy \in Watch /\ Result(t) \in Results
         /\ sawMet' \in [Ids -> BOOLEAN]
  <1>1. task[t] \in Busy /\ task[t].copy \in Watch
    BY DEF TypeOK, Phased, Answers
  <1>2. Result(t) \in Results
    BY <1>1 DEF TypeOK, Result, Watch, Settings
  <1>3. task[t].id \in Ids /\ Result(t).met \in BOOLEAN
    BY <1>1, <1>2 DEF Busy, Results
  <1>. QED  BY <1>1, <1>2, <1>3, NotedType DEF TypeOK, Answers

LEMMA BeginType ==
  ASSUME TypeOK, NEW t \in Tasks, NEW i \in Ids, NEW e \in Edits \cup {NoEdit}, Begin(t, i, e)
  PROVE  /\ lockOf' \in [Ids -> Locks \cup {NoLock}]
         /\ task' \in [Tasks -> Busy \cup {Idle}]
  <1>1. PICK l \in LockFor(i) :
          /\ lockOf' = [lockOf EXCEPT ![i] = l]
          /\ task' = [task EXCEPT ![t] = [pc |-> "waiting", id |-> i, lock |-> l,
                                          copy |-> NoWatch, edit |-> e]]
    BY DEF Begin
  <1>2. l \in Locks
    BY <1>1 DEF LockFor, TypeOK
  <1>3. [pc |-> "waiting", id |-> i, lock |-> l, copy |-> NoWatch, edit |-> e] \in Busy
    BY <1>2 DEF Busy
  <1>. QED  BY <1>1, <1>2, <1>3 DEF TypeOK

LEMMA PhasedStep ==
  ASSUME TypeOK, Phased, [Next]_vars
  PROVE  Phased'
  <1>. USE DEF Phased
  <1>1. ASSUME NEW t \in Tasks, NEW i \in Ids, NEW e \in Edits \cup {NoEdit}, Begin(t, i, e)
        PROVE  Phased'
    BY <1>1 DEF Begin, TypeOK
  <1>2. ASSUME NEW t \in Tasks, Leave(t)
        PROVE  Phased'
    BY <1>2 DEF Leave, TypeOK
  <1>3. ASSUME NEW t \in Tasks, EvaluationStep(t)
        PROVE  Phased'
    <2>1. CASE Read(t)
      <3>1. CASE Active(task[t].id)
        <4>1. task[t] # Idle /\ file[task[t].id] \in Watch
          BY <2>1, <3>1 DEF Read, Acquires, Active, TypeOK, Busy
        <4>. QED  BY <2>1, <3>1, <4>1, CopyPhased DEF Read
      <3>. QED  BY <1>2, <2>1, <3>1 DEF Read
    <2>2. CASE Stall(t)
      <3>1. task[t] # Idle /\ Observed(task[t].copy, Result(t)) \in Watch
        BY <2>2, AnswerType, ObservedType DEF Stall, Answers
      <3>. QED  BY <2>2, <3>1, CopyPhased DEF Stall
    <2>3. CASE Fire(t) \/ Expire(t)
      <3>. DEFINE b == [task[t] EXCEPT !.pc = "hooks"]
      <3>1. task[t] \in Busy
        BY <2>3 DEF Fire, Expire, Answers, TypeOK
      <3>2. b.pc = "hooks"
        BY <3>1 DEF Busy
      <3>3. task' = [task EXCEPT ![t] = b]
        BY <2>3 DEF Fire, Expire
      <3>. HIDE DEF b
      <3>. QED  BY <3>2, <3>3 DEF TypeOK
    <2>4. CASE ApplyUpdate(t) \/ StallWritten(t) \/ Observe(t) \/ HooksReturn(t)
      BY <1>2, <2>4 DEF ApplyUpdate, StallWritten, Observe, HooksReturn
    <2>. QED  BY <1>3, <2>1, <2>2, <2>3, <2>4 DEF EvaluationStep
  <1>4. ASSUME NEW t \in Tasks, VerifierRaises(t)
        PROVE  Phased'
    BY <1>2, <1>4 DEF VerifierRaises
  <1>5. CASE UNCHANGED task
    BY <1>5
  <1>6. CASE Crash
    BY <1>6 DEF Crash
  <1>7. ASSUME NEW i \in Ids, TickEvaluate(i)
        PROVE  Phased'
    BY <1>1, <1>7 DEF TickEvaluate, Tasks
  <1>8. ASSUME NEW i \in Ids, NEW t \in Callers, EvaluateNow(t, i) \/ \E e \in Edits : Update(t, i, e)
        PROVE  Phased'
    BY <1>1, <1>8 DEF EvaluateNow, Update, Tasks
  <1>. QED  BY <1>3, <1>4, <1>5, <1>6, <1>7, <1>8
            DEF Next, Create, Clear, Prune, PopLock, Unlink, Rest, Age, Scan, TickDone, Pass,
                WorldMoves, vars

LEMMA EvaluationType ==
  ASSUME TypeOK, Phased, NEW t \in Tasks, EvaluationStep(t)
  PROVE  TypeOK'
  <1>. USE DEF TypeOK, env, bounds, history
  <1>1. CASE Read(t)
    <2>1. task' \in [Tasks -> Busy \cup {Idle}]
      <3>1. CASE Active(task[t].id)
        <4>1. task[t] # Idle /\ file[task[t].id] \in Watch
          BY <1>1, <3>1 DEF Read, Acquires, Active, Busy
        <4>. QED  BY <1>1, <3>1, <4>1, CopyType DEF Read
      <3>2. CASE ~Active(task[t].id)
        BY <1>1, <3>2, LeaveType DEF Read
      <3>. QED  BY <3>1, <3>2
    <2>. QED  BY <1>1, <2>1 DEF Read
  <1>2. CASE ApplyUpdate(t)
    <2>1. task' \in [Tasks -> Busy \cup {Idle}]
      BY <1>2, LeaveType DEF ApplyUpdate
    <2>2. task[t] \in Busy /\ task[t].edit \in EditSet
      BY <1>2 DEF ApplyUpdate, Acquires, Busy
    <2>3. CASE ~Active(task[t].id)
      BY <1>2, <2>1, <2>3 DEF ApplyUpdate
    <2>4. CASE Active(task[t].id)
      <3>. DEFINE w == Edited(file[task[t].id], task[t].edit)
      <3>1. task[t].id \in Ids /\ file[task[t].id] \in Watch
        BY <2>2, <2>4 DEF Active, Busy
      <3>2. w \in Watch
        BY <2>2, <3>1, EditedType
      <3>3. /\ file' = [file EXCEPT ![task[t].id] = w]
            /\ acked' = Noted(acked, task[t].id, [edition |-> w.edition, set |-> w.set])
            /\ sawMet' = Noted(sawMet, task[t].id,
                               sawMet[task[t].id] /\ w.set.trigger = file[task[t].id].set.trigger)
            /\ told' = Noted(told, task[t].id,
                             told[task[t].id] /\ "stallAfter" \notin task[t].edit.fields)
            /\ UNCHANGED crossed
        BY <1>2, <2>4 DEF ApplyUpdate
      <3>. HIDE DEF w
      <3>4. file' \in [Ids -> Watch \cup {NoWatch}]
        BY <3>1, <3>2, <3>3
      <3>5. acked' \in [Ids -> [edition : Editions, set : Settings] \cup {NoWatch}]
        <4>1. [edition |-> w.edition, set |-> w.set]
                \in [edition : Editions, set : Settings] \cup {NoWatch}
          BY <3>2 DEF Watch
        <4>. QED  BY <3>1, <3>3, <4>1, NotedType
      <3>6. sawMet' \in [Ids -> BOOLEAN] /\ told' \in [Ids -> BOOLEAN]
        <4>1. sawMet[task[t].id] \in BOOLEAN /\ told[task[t].id] \in BOOLEAN
          BY <3>1
        <4>. QED  BY <3>1, <3>3, <4>1, NotedType
      <3>. QED  BY <1>2, <2>1, <3>4, <3>5, <3>6 DEF ApplyUpdate
    <2>. QED  BY <2>3, <2>4
  <1>3. CASE Fire(t)
    <2>1. /\ task[t] # Idle /\ task[t] \in Busy /\ task[t].copy \in Watch /\ Result(t) \in Results
          /\ sawMet' \in [Ids -> BOOLEAN]
      BY <1>3, AnswerType DEF Fire, Answers
    <2>2. file' \in [Ids -> Watch \cup {NoWatch}]
      BY <1>3, <2>1, StaysArmedType, FinishedType, SpokenType, WriteType DEF Fire
    <2>3. task' \in [Tasks -> Busy \cup {Idle}]
      BY <1>3, <2>1, PhaseType DEF Fire
    <2>4. told' \in [Ids -> BOOLEAN]
      BY <1>3, <2>1, NotedType DEF Fire, Busy
    <2>5. rested' \subseteq Ids /\ aged' \subseteq Ids /\ UNCHANGED <<world, passed>>
      BY <1>3 DEF Fire, Write, Restarts
    <2>. QED  BY <1>3, <2>1, <2>2, <2>3, <2>4, <2>5 DEF Fire, Answers
  <1>4. CASE Expire(t)
    <2>1. /\ task[t] # Idle /\ task[t] \in Busy /\ task[t].copy \in Watch /\ Result(t) \in Results
          /\ sawMet' \in [Ids -> BOOLEAN]
      BY <1>4, AnswerType DEF Expire, Answers
    <2>2. file' \in [Ids -> Watch \cup {NoWatch}]
      BY <1>4, <2>1, FinishedType, WriteType DEF Expire
    <2>3. task' \in [Tasks -> Busy \cup {Idle}]
      BY <1>4, <2>1, PhaseType DEF Expire
    <2>4. rested' \subseteq Ids /\ aged' \subseteq Ids /\ UNCHANGED <<world, passed>>
      BY <1>4 DEF Expire, Write, Restarts
    <2>. QED  BY <1>4, <2>1, <2>2, <2>3, <2>4 DEF Expire, Answers
  <1>5. CASE Stall(t)
    <2>1. /\ task[t] # Idle /\ task[t] \in Busy /\ task[t].copy \in Watch /\ Result(t) \in Results
          /\ sawMet' \in [Ids -> BOOLEAN]
      BY <1>5, AnswerType DEF Stall, Answers
    <2>2. task' \in [Tasks -> Busy \cup {Idle}]
      BY <1>5, <2>1, ObservedType, CopyType DEF Stall
    <2>3. told' \in [Ids -> BOOLEAN]
      BY <1>5, <2>1, NotedType DEF Stall, EpisodeGoesOn, Changed, Busy
    <2>. QED  BY <1>5, <2>1, <2>2, <2>3 DEF Stall, Answers
  <1>6. CASE StallWritten(t)
    <2>1. task[t] # Idle /\ task[t].copy \in Watch
      BY <1>6 DEF StallWritten, Phased
    <2>2. file' \in [Ids -> Watch \cup {NoWatch}] /\ task' \in [Tasks -> Busy \cup {Idle}]
      BY <1>6, <2>1, WriteType, LeaveType DEF StallWritten
    <2>3. rested' \subseteq Ids /\ aged' \subseteq Ids /\ UNCHANGED <<world, passed>>
      BY <1>6 DEF StallWritten, Write, Restarts
    <2>. QED  BY <1>6, <2>2, <2>3 DEF StallWritten
  <1>7. CASE Observe(t)
    <2>1. /\ task[t] # Idle /\ task[t] \in Busy /\ task[t].copy \in Watch /\ Result(t) \in Results
          /\ sawMet' \in [Ids -> BOOLEAN]
      BY <1>7, AnswerType DEF Observe, Answers
    <2>2. file' \in [Ids -> Watch \cup {NoWatch}] /\ task' \in [Tasks -> Busy \cup {Idle}]
      BY <1>7, <2>1, ObservedType, WriteType, LeaveType DEF Observe
    <2>3. told' \in [Ids -> BOOLEAN]
      BY <1>7, <2>1, NotedType DEF Observe, EpisodeGoesOn, Changed, Busy
    <2>4. rested' \subseteq Ids /\ aged' \subseteq Ids /\ UNCHANGED <<world, passed>>
      BY <1>7 DEF Observe, Write, Restarts
    <2>. QED  BY <1>7, <2>1, <2>2, <2>3, <2>4 DEF Observe, Answers
  <1>8. CASE HooksReturn(t)
    BY <1>8, LeaveType DEF HooksReturn
  <1>. QED  BY <1>1, <1>2, <1>3, <1>4, <1>5, <1>6, <1>7, <1>8 DEF EvaluationStep

LEMMA NewHistoryType ==
  ASSUME TypeOK, NEW i \in Ids, NEW a \in [edition : Editions, set : Settings] \cup {NoWatch},
         NewHistory(i, a)
  PROVE  /\ acked' \in [Ids -> [edition : Editions, set : Settings] \cup {NoWatch}]
         /\ sawMet' \in [Ids -> BOOLEAN] /\ told' \in [Ids -> BOOLEAN]
  <1>. DEFINE A == [edition : Editions, set : Settings] \cup {NoWatch}
  <1>1. acked \in [Ids -> A] /\ a \in A
    BY DEF TypeOK
  <1>. HIDE DEF A
  <1>2. [acked EXCEPT ![i] = a] \in [Ids -> A]
    BY <1>1
  <1>3. acked' \in [Ids -> A]
    BY <1>2 DEF NewHistory
  <1>4. sawMet' \in [Ids -> BOOLEAN] /\ told' \in [Ids -> BOOLEAN]
    BY DEF TypeOK, NewHistory
  <1>. QED  BY <1>3, <1>4 DEF A

\* A step that crosses, or may, keeps the type of the histories.
LEMMA CrossType ==
  ASSUME TypeOK, NEW i \in Ids, Crosses(i) \/ UNCHANGED <<events, history>>
  PROVE  /\ events' \in 0 .. MaxEvents
         /\ acked' \in [Ids -> [edition : Editions, set : Settings] \cup {NoWatch}]
         /\ sawMet' \in [Ids -> BOOLEAN] /\ told' \in [Ids -> BOOLEAN] /\ crossed' \subseteq Ids
  <1>1. CASE Crosses(i)
    <2>1. NewHistory(i, NoWatch)
      BY <1>1 DEF Crosses
    <2>2. events' \in 0 .. MaxEvents /\ crossed' \subseteq Ids
      BY <1>1 DEF TypeOK, Crosses, Event
    <2>. QED  BY <2>1, <2>2, NewHistoryType
  <1>2. CASE UNCHANGED <<events, history>>
    BY <1>2 DEF TypeOK, history
  <1>. QED  BY <1>1, <1>2

LEMMA StepType ==
  ASSUME TypeOK, Phased, [Next]_vars
  PROVE  TypeOK'
  <1>. USE DEF TypeOK, env, bounds, history
  <1>1. ASSUME NEW i \in Ids, NEW s \in Specs, Create(i, s)
        PROVE  TypeOK'
    <2>1. made + 1 \in Editions /\ made + 1 \in 0 .. MaxEditions /\ s \in Settings
      BY <1>1 DEF Create, Editions
    <2>2. Created(made + 1, s) \in Watch
      BY <2>1, CreatedType
    <2>3. [edition |-> made + 1, set |-> s] \in [edition : Editions, set : Settings]
      BY <2>1
    <2>4. /\ events' \in 0 .. MaxEvents
          /\ acked' \in [Ids -> [edition : Editions, set : Settings] \cup {NoWatch}]
          /\ sawMet' \in [Ids -> BOOLEAN] /\ told' \in [Ids -> BOOLEAN] /\ crossed' \subseteq Ids
      <3>1. CASE Apart(i)
        <4>1. NewHistory(i, [edition |-> made + 1, set |-> s]) /\ UNCHANGED events
              /\ crossed' = crossed \ {i}
          BY <1>1, <3>1 DEF Create
        <4>. QED  BY <2>3, <4>1, NewHistoryType
      <3>. QED  BY <1>1, <3>1, CrossType DEF Create
    <2>. QED  BY <1>1, <2>1, <2>2, <2>4 DEF Create, Restarts
  <1>2. ASSUME NEW i \in Ids, Clear(i) \/ Prune(i)
        PROVE  TypeOK'
    <2>1. /\ events' \in 0 .. MaxEvents
          /\ acked' \in [Ids -> [edition : Editions, set : Settings] \cup {NoWatch}]
          /\ sawMet' \in [Ids -> BOOLEAN] /\ told' \in [Ids -> BOOLEAN] /\ crossed' \subseteq Ids
      BY <1>2, CrossType DEF Clear, Prune
    <2>. QED  BY <1>2, <2>1 DEF Clear, Prune, PopLock
  <1>3. ASSUME NEW i \in Ids, NEW c \in {Tick, Panel}, Unlink(c, i)
        PROVE  TypeOK'
    <2>1. acked' \in [Ids -> [edition : Editions, set : Settings] \cup {NoWatch}]
      BY <1>3, NotedType DEF Unlink
    <2>. QED  BY <1>3, <2>1 DEF Unlink, Restarts
  <1>4. ASSUME NEW i \in Ids, TickEvaluate(i)
        PROVE  TypeOK'
    <2>1. /\ lockOf' \in [Ids -> Locks \cup {NoLock}]
          /\ task' \in [Tasks -> Busy \cup {Idle}]
      BY <1>4, BeginType DEF TickEvaluate, Tasks
    <2>2. /\ events' \in 0 .. MaxEvents
          /\ acked' \in [Ids -> [edition : Editions, set : Settings] \cup {NoWatch}]
          /\ sawMet' \in [Ids -> BOOLEAN] /\ told' \in [Ids -> BOOLEAN] /\ crossed' \subseteq Ids
      BY <1>4, CrossType DEF TickEvaluate, MayCross
    <2>. QED  BY <1>4, <2>1, <2>2 DEF TickEvaluate, Begin
  <1>5. ASSUME NEW i \in Ids, NEW t \in Callers, EvaluateNow(t, i)
        PROVE  TypeOK'
    <2>1. /\ lockOf' \in [Ids -> Locks \cup {NoLock}]
          /\ task' \in [Tasks -> Busy \cup {Idle}]
      BY <1>5, BeginType DEF EvaluateNow, Tasks
    <2>2. /\ events' \in 0 .. MaxEvents
          /\ acked' \in [Ids -> [edition : Editions, set : Settings] \cup {NoWatch}]
          /\ sawMet' \in [Ids -> BOOLEAN] /\ told' \in [Ids -> BOOLEAN] /\ crossed' \subseteq Ids
      BY <1>5, CrossType DEF EvaluateNow, MayCross
    <2>. QED  BY <1>5, <2>1, <2>2 DEF EvaluateNow, Begin
  <1>6. ASSUME NEW i \in Ids, NEW t \in Callers, NEW e \in Edits, Update(t, i, e)
        PROVE  TypeOK'
    <2>1. /\ lockOf' \in [Ids -> Locks \cup {NoLock}]
          /\ task' \in [Tasks -> Busy \cup {Idle}]
      BY <1>6, BeginType DEF Update, Tasks
    <2>2. /\ events' \in 0 .. MaxEvents
          /\ acked' \in [Ids -> [edition : Editions, set : Settings] \cup {NoWatch}]
          /\ sawMet' \in [Ids -> BOOLEAN] /\ told' \in [Ids -> BOOLEAN] /\ crossed' \subseteq Ids
      <3>1. CASE <<Panel, i>> \in unlinking
        BY <1>6, <3>1, CrossType DEF Update
      <3>. QED  BY <1>6, <3>1 DEF Update, Event
    <2>. QED  BY <1>6, <2>1, <2>2 DEF Update, Begin
  <1>7. ASSUME NEW t \in Tasks, VerifierRaises(t)
        PROVE  TypeOK'
    <2>1. task' \in [Tasks -> Busy \cup {Idle}] /\ events' \in 0 .. MaxEvents
      BY <1>7, LeaveType DEF VerifierRaises, Fault, Event
    <2>. QED  BY <1>7, <2>1 DEF VerifierRaises
  <1>8. CASE Scan
    BY <1>8 DEF Scan
  <1>9. CASE TickDone
    BY <1>9 DEF TickDone, NoSweep
  <1>10. CASE Crash
    <2>1. \A i \in Ids : (file[i] # NoWatch /\ file[i].wasMet /\ i \notin crossed) \in BOOLEAN
      OBVIOUS
    <2>2. events' \in 0 .. MaxEvents
      BY <1>10 DEF Crash, Fault, Event
    <2>. QED  BY <1>10, <2>1, <2>2 DEF Crash, NoSweep
  <1>11. ASSUME NEW i \in Ids, Rest(i) \/ Age(i)
         PROVE  TypeOK'
    BY <1>11 DEF Rest, Age, Watch, Active
  <1>12. ASSUME NEW d \in Deadlines, Pass(d)
         PROVE  TypeOK'
    BY <1>12 DEF Pass
  <1>13. ASSUME NEW v \in Verifiers, WorldMoves(v)
         PROVE  TypeOK'
    BY <1>13 DEF WorldMoves
  <1>14. CASE UNCHANGED vars
    BY <1>14 DEF vars
  <1>. QED  BY <1>1, <1>2, <1>3, <1>4, <1>5, <1>6, <1>7, <1>8, <1>9, <1>10, <1>11, <1>12, <1>13,
               <1>14, EvaluationType DEF Next

\* Every value stays what the code takes it for; in particular a busy task's
\* copy is a watch from the read of the file to the write.
THEOREM TypeCorrect == Spec => []TypeOK
  <1>1. Init => TypeOK /\ Phased
    BY DEF Init, TypeOK, Phased, NoSweep
  <1>2. TypeOK /\ Phased /\ [Next]_vars => (TypeOK /\ Phased)'
    BY StepType, PhasedStep
  <1>. QED  BY <1>1, <1>2, PTL DEF Spec

(***************************************************************************)
(* No evaluation writes an edit away and no watch comes back, where no     *)
(* create or clear crossed a step at the watch.                            *)
(***************************************************************************)

\* A lock has one holder.
Exclusive ==
  \A t, u \in Tasks :
    t # u /\ task[t] # Idle /\ task[u] # Idle /\ task[t].lock = task[u].lock
      => task[t].pc = "waiting" \/ task[u].pc = "waiting"

\* Tasks at an active watch have its registered lock, so they share it.
Registered ==
  \A t \in Tasks : task[t] # Idle /\ task[t].id \notin crossed /\ Active(task[t].id)
                     => task[t].lock = lockOf[task[t].id]

\* What an evaluation carries over its awaits is a watch that was created, and
\* what the file still holds.
Carries(t) == task[t] # Idle /\ task[t].pc \in {"verify", "stall"}
Fresh(t) ==
  Carries(t) =>
    /\ task[t].copy.edition <= made
    /\ task[t].id \notin crossed =>
         /\ Active(task[t].id)
         /\ task[t].copy.edition = file[task[t].id].edition
         /\ task[t].copy.set = file[task[t].id].set
         /\ task[t].copy.status = "active"
         /\ task[t].pc = "verify" => task[t].copy = file[task[t].id]

\* A prune goes for watches that finished, and a clear for one left alone.
Pruned ==
  \A i \in Ids \ crossed : i \in sweep.prune \/ <<Tick, i>> \in unlinking => ~Active(i)
Cleared == \A i \in Ids \ crossed : <<Panel, i>> \in unlinking => At(i) = {}

\* Editions are numbered in the order of creation.
Numbered == \A i \in Ids : file[i] # NoWatch => file[i].edition <= made

Types == TypeOK /\ Phased
Kept  == /\ Exclusive /\ Registered /\ (\A t \in Tasks : Fresh(t))
         /\ Pruned /\ Cleared /\ SettingsStand /\ Numbered

\* What a step of the task t does: the task moves on at the same watch with the
\* same lock or leaves, nobody else holds that lock, and it writes no watch but
\* its own, which if nothing crossed there is active and keeps its edition.
Moved(t) ==
  /\ task[t] # Idle
  /\ \A u \in Tasks \ {t} :
       task[u] # Idle /\ task[u].lock = task[t].lock => task[u].pc = "waiting"
  /\ UNCHANGED <<lockOf, sweep, unlinking, made, crossed>>
  /\ \E b \in Busy \cup {Idle} :
       /\ task' = [task EXCEPT ![t] = b]
       /\ b # Idle => b.id = task[t].id /\ b.lock = task[t].lock
  /\ \/ UNCHANGED <<file, acked>>
     \/ \E w \in Watch :
          /\ w.edition <= made
          /\ task[t].id \notin crossed =>
               Active(task[t].id) /\ w.edition = file[task[t].id].edition
          /\ file' = [file EXCEPT ![task[t].id] = w]
          /\ \A j \in Ids \ crossed :
               acked'[j] = IF j = task[t].id THEN [edition |-> w.edition, set |-> w.set] ELSE acked[j]

LEMMA MovedKeeps ==
  ASSUME Types, Kept, NEW t \in Tasks, Moved(t), Fresh(t)'
  PROVE  Kept'
  <1>. DEFINE i == task[t].id
  <1>1. /\ task \in [Tasks -> Busy \cup {Idle}] /\ task[t] \in Busy /\ task[t] # Idle /\ i \in Ids
        /\ file \in [Ids -> Watch \cup {NoWatch}]
        /\ acked \in [Ids -> [edition : Editions, set : Settings] \cup {NoWatch}]
    BY DEF Types, TypeOK, Moved, Busy
  <1>2. PICK b \in Busy \cup {Idle} :
          /\ task' = [task EXCEPT ![t] = b]
          /\ b # Idle => b.id = i /\ b.lock = task[t].lock
    BY DEF Moved
  <1>3. /\ \A u \in Tasks \ {t} : task'[u] = task[u]
        /\ task'[t] = Idle \/ (task'[t].id = i /\ task'[t].lock = task[t].lock)
    BY <1>1, <1>2
  <1>4. \A j \in Ids : j # i => file'[j] = file[j] /\ (j \notin crossed => acked'[j] = acked[j])
    BY <1>1 DEF Moved
  <1>5. crossed' = crossed /\ \A j \in Ids \ crossed : Active(j)' => Active(j)
    BY <1>1, <1>4 DEF Moved, Active
  <1>6. \A u \in Tasks : task'[u] # Idle => task[u] # Idle /\ task'[u].id = task[u].id
                                           /\ task'[u].lock = task[u].lock /\ task[u].id \in Ids
    BY <1>1, <1>3 DEF Busy
  <1>7. Exclusive'
    BY <1>1, <1>3 DEF Kept, Exclusive, Moved
  <1>8. Registered'
    BY <1>5, <1>6 DEF Kept, Registered, Moved
  <1>9. ASSUME NEW u \in Tasks, u # t
        PROVE  Fresh(u)'
    <2>0. Fresh(u) /\ made' = made
      BY DEF Kept, Moved
    <2>1. CASE ~Carries(u) \/ task[u].id \in crossed
      BY <1>3, <1>5, <1>9, <2>0, <2>1 DEF Fresh, Carries
    <2>2. CASE Carries(u) /\ task[u].id \notin crossed
      <3>1. /\ task[u].id \in Ids /\ Active(task[u].id)
            /\ task[u].pc # "waiting" /\ task[u] # Idle
        BY <1>1, <2>0, <2>2 DEF Fresh, Carries, Busy
      <3>2. task[u].id # i \/ ~Active(i)
        BY <1>1, <1>9, <2>2, <3>1 DEF Kept, Registered, Moved
      <3>3. file'[task[u].id] = file[task[u].id]
        BY <1>4, <3>1, <3>2
      <3>. QED  BY <1>3, <1>5, <1>9, <2>0, <2>2, <3>1, <3>3 DEF Fresh, Carries, Active
    <2>. QED  BY <2>1, <2>2
  <1>10. Pruned' /\ Cleared'
    <2>1. Pruned'
      BY <1>5 DEF Kept, Pruned, Moved
    <2>2. \A j \in Ids : At(j)' \subseteq At(j)
      BY <1>6 DEF At
    <2>. QED  BY <1>5, <2>1, <2>2 DEF Kept, Cleared, Moved
  <1>11. SettingsStand' /\ Numbered'
    <2>1. CASE UNCHANGED <<file, acked>>
      BY <1>5, <2>1 DEF Kept, SettingsStand, Numbered, Moved
    <2>2. CASE ~UNCHANGED <<file, acked>>
      <3>1. PICK w \in Watch :
              /\ w.edition <= made /\ file' = [file EXCEPT ![i] = w]
              /\ i \notin crossed => acked'[i] = [edition |-> w.edition, set |-> w.set]
        BY <1>1, <2>2 DEF Moved
      <3>2. file'[i] = w /\ w # NoWatch /\ made' = made
        BY <1>1, <3>1 DEF Moved
      <3>. QED  BY <1>1, <1>4, <1>5, <3>1, <3>2 DEF Kept, SettingsStand, Numbered
    <2>. QED  BY <2>1, <2>2
  <1>. QED  BY <1>7, <1>8, <1>9, <1>10, <1>11 DEF Kept

LEMMA BeginKeeps ==
  ASSUME Types, Kept, sweep'.prune = sweep.prune,
         NEW t \in Tasks, NEW i \in Ids, NEW e \in Edits \cup {NoEdit}, Begin(t, i, e),
         IF <<Panel, i>> \in unlinking THEN Crosses(i) ELSE UNCHANGED history
  PROVE  Kept'
  <1>1. PICK l \in LockFor(i) :
          /\ lockOf' = [lockOf EXCEPT ![i] = l]
          /\ task' = [task EXCEPT ![t] = [pc |-> "waiting", id |-> i, lock |-> l,
                                          copy |-> NoWatch, edit |-> e]]
    BY DEF Begin
  <1>. DEFINE b == [pc |-> "waiting", id |-> i, lock |-> l, copy |-> NoWatch, edit |-> e]
  <1>2. /\ task \in [Tasks -> Busy \cup {Idle}] /\ lockOf \in [Ids -> Locks \cup {NoLock}]
        /\ UNCHANGED <<file, unlinking, made>>
        /\ crossed \subseteq crossed' /\ (i \notin crossed' => <<Panel, i>> \notin unlinking)
        /\ \A j \in Ids \ crossed' : acked'[j] = acked[j]
    BY DEF Types, TypeOK, Begin, Crosses, NewHistory, history
  <1>3. b # Idle /\ b.pc = "waiting" /\ b.id = i /\ b.lock = l
    <2>1. l \in Locks
      BY <1>1, <1>2 DEF LockFor
    <2>2. b \in Busy
      BY <2>1 DEF Busy
    <2>. QED  BY <2>2
  <1>4. task'[t] = b /\ \A u \in Tasks \ {t} : task'[u] = task[u]
    BY <1>1, <1>2
  <1>. HIDE DEF b
  <1>5. Exclusive'
    BY <1>3, <1>4 DEF Kept, Exclusive
  <1>6. Registered'
    <2>1. lockOf'[i] = l /\ \A j \in Ids \ {i} : lockOf'[j] = lockOf[j]
      BY <1>1, <1>2
    <2>2. lockOf[i] # NoLock => lockOf'[i] = lockOf[i]
      BY <1>1, <2>1 DEF LockFor
    <2>3. \A u \in Tasks \ {t} : task[u] # Idle => task[u].lock # NoLock /\ task[u].id \in Ids
      BY <1>2 DEF Busy
    <2>. QED  BY <1>2, <1>3, <1>4, <2>1, <2>2, <2>3 DEF Kept, Registered, Active
  <1>7. ASSUME NEW u \in Tasks
        PROVE  Fresh(u)'
    BY <1>2, <1>3, <1>4 DEF Kept, Fresh, Carries, Active
  <1>8. Pruned'
    BY <1>2 DEF Kept, Pruned, Active
  <1>9. Cleared'
    BY <1>2, <1>3, <1>4 DEF Kept, Cleared, At
  <1>10. SettingsStand' /\ Numbered'
    BY <1>2 DEF Kept, SettingsStand, Numbered
  <1>. QED  BY <1>5, <1>6, <1>7, <1>8, <1>9, <1>10 DEF Kept

\* A task that holds its lock holds it alone.
LEMMA HoldsAlone ==
  ASSUME Types, Kept, NEW t \in Tasks, task[t] # Idle, task[t].pc # "waiting" \/ Acquires(t)
  PROVE  \A u \in Tasks \ {t} :
           task[u] # Idle /\ task[u].lock = task[t].lock => task[u].pc = "waiting"
  BY DEF Kept, Exclusive, Acquires, Users

\* The task leaves, or moves on without touching its id and lock.
LEMMA LeaveMoves ==
  ASSUME Types, NEW t \in Tasks, task[t] # Idle, Leave(t)
  PROVE  /\ \E b \in Busy \cup {Idle} :
              /\ task' = [task EXCEPT ![t] = b]
              /\ b # Idle => b.id = task[t].id /\ b.lock = task[t].lock
         /\ Fresh(t)'
  BY DEF Types, TypeOK, Leave, Fresh, Carries

LEMMA HooksMoves ==
  ASSUME Types, NEW t \in Tasks, task[t] # Idle, task' = [task EXCEPT ![t].pc = "hooks"]
  PROVE  /\ \E b \in Busy \cup {Idle} :
              /\ task' = [task EXCEPT ![t] = b]
              /\ b # Idle => b.id = task[t].id /\ b.lock = task[t].lock
         /\ Fresh(t)'
  <1>. DEFINE b == [task[t] EXCEPT !.pc = "hooks"]
  <1>1. task[t] \in Busy /\ task \in [Tasks -> Busy \cup {Idle}]
    BY DEF Types, TypeOK
  <1>2. b \in Busy /\ b.pc = "hooks" /\ b.id = task[t].id /\ b.lock = task[t].lock
    BY <1>1 DEF Busy
  <1>3. task' = [task EXCEPT ![t] = b]
    OBVIOUS
  <1>. HIDE DEF b
  <1>. QED  BY <1>1, <1>2, <1>3 DEF Fresh, Carries

LEMMA CopyMoves ==
  ASSUME Types, NEW t \in Tasks, task[t] # Idle, NEW w \in Watch, NEW pc \in {"verify", "stall"},
         task' = [task EXCEPT ![t] = [@ EXCEPT !.pc = pc, !.copy = w]]
  PROVE  /\ \E b \in Busy \cup {Idle} :
              /\ task' = [task EXCEPT ![t] = b]
              /\ b # Idle => b.id = task[t].id /\ b.lock = task[t].lock
         /\ task'[t].pc = pc /\ task'[t].id = task[t].id /\ task'[t].copy = w
  <1>. DEFINE b == [task[t] EXCEPT !.pc = pc, !.copy = w]
  <1>1. task[t] \in Busy /\ task \in [Tasks -> Busy \cup {Idle}]
    BY DEF Types, TypeOK
  <1>2. b \in Busy /\ b.pc = pc /\ b.id = task[t].id /\ b.lock = task[t].lock /\ b.copy = w
    BY <1>1 DEF Busy
  <1>3. task' = [task EXCEPT ![t] = b]
    OBVIOUS
  <1>. HIDE DEF b
  <1>. QED  BY <1>1, <1>2, <1>3

\* Writing what the task carried, with its edition and settings, keeps the file
\* what was acknowledged.
LEMMA WriteMoves ==
  ASSUME Types, Kept, NEW t \in Tasks, Answers(t) \/ (task[t] # Idle /\ task[t].pc = "stall"),
         NEW w \in Watch, w.edition = task[t].copy.edition, w.set = task[t].copy.set,
         Write(t, w), UNCHANGED acked
  PROVE  \E x \in Watch :
           /\ x.edition <= made
           /\ task[t].id \notin crossed =>
                Active(task[t].id) /\ x.edition = file[task[t].id].edition
           /\ file' = [file EXCEPT ![task[t].id] = x]
           /\ \A j \in Ids \ crossed :
                acked'[j] = IF j = task[t].id THEN [edition |-> x.edition, set |-> x.set] ELSE acked[j]
  <1>. DEFINE i == task[t].id
  <1>1. Carries(t) /\ i \in Ids /\ w.edition <= made
    BY DEF Types, TypeOK, Kept, Fresh, Carries, Answers, Busy
  <1>2. i \notin crossed => /\ Active(i) /\ w.edition = file[i].edition /\ w.set = file[i].set
                            /\ acked[i] = [edition |-> w.edition, set |-> w.set]
    BY <1>1 DEF Kept, Fresh, SettingsStand, Active
  <1>3. file' = [file EXCEPT ![i] = w]
    BY DEF Write
  <1>. QED  BY <1>1, <1>2, <1>3

LEMMA ReadMoves ==
  ASSUME Types, Kept, NEW t \in Tasks, Read(t)
  PROVE  Moved(t) /\ Fresh(t)'
  <1>. DEFINE i == task[t].id
  <1>1. /\ task[t] # Idle /\ UNCHANGED <<file, acked, lockOf, sweep, unlinking, made, crossed>>
        /\ \A u \in Tasks \ {t} :
              task[u] # Idle /\ task[u].lock = task[t].lock => task[u].pc = "waiting"
    BY HoldsAlone DEF Read, Acquires, history, bounds
  <1>2. CASE Active(i)
    <2>1. file[i] \in Watch
      BY <1>1, <1>2 DEF Types, TypeOK, Active, Busy
    <2>2. task' = [task EXCEPT ![t] = [@ EXCEPT !.pc = "verify", !.copy = file[i]]]
      BY <1>2 DEF Read
    <2>. DEFINE w == file[i]
    <2>3. /\ \E b \in Busy \cup {Idle} :
               /\ task' = [task EXCEPT ![t] = b]
               /\ b # Idle => b.id = task[t].id /\ b.lock = task[t].lock
          /\ task'[t].pc = "verify" /\ task'[t].id = i /\ task'[t].copy = w
      BY <1>1, <2>1, <2>2, CopyMoves
    <2>4. Fresh(t)'
      BY <1>1, <1>2, <2>3 DEF Fresh, Carries, Active, Kept, Numbered, Types, TypeOK, Busy
    <2>. QED  BY <1>1, <2>3, <2>4 DEF Moved
  <1>3. CASE ~Active(i)
    BY <1>1, <1>3, LeaveMoves DEF Read, Moved
  <1>. QED  BY <1>2, <1>3

LEMMA UpdateMoves ==
  ASSUME Types, Kept, NEW t \in Tasks, ApplyUpdate(t)
  PROVE  Moved(t) /\ Fresh(t)'
  <1>. DEFINE i == task[t].id
              w == Edited(file[i], task[t].edit)
  <1>1. /\ task[t] # Idle /\ task[t] \in Busy /\ UNCHANGED <<lockOf, sweep, unlinking, made, crossed>>
        /\ Leave(t) /\ task[t].edit \in EditSet
        /\ \A u \in Tasks \ {t} :
              task[u] # Idle /\ task[u].lock = task[t].lock => task[u].pc = "waiting"
    BY HoldsAlone DEF ApplyUpdate, Acquires, bounds, history, Types, TypeOK, Busy
  <1>2. CASE Active(i)
    <2>1. file[i] \in Watch
      BY <1>1, <1>2 DEF Types, TypeOK, Active, Busy
    <2>2. /\ file' = [file EXCEPT ![i] = w]
          /\ acked' = Noted(acked, i, [edition |-> w.edition, set |-> w.set])
      BY <1>2 DEF ApplyUpdate
    <2>3. w \in Watch /\ w.edition = file[i].edition /\ w.edition <= made
      BY <1>1, <1>2, <2>1, EditedType DEF Kept, Numbered, Active, Busy
    <2>. HIDE DEF w
    <2>4. \A j \in Ids \ crossed :
            acked'[j] = IF j = i THEN [edition |-> w.edition, set |-> w.set] ELSE acked[j]
      BY <2>2 DEF Noted, Types, TypeOK
    <2>. QED  BY <1>1, <1>2, <2>2, <2>3, <2>4, LeaveMoves DEF Moved
  <1>3. CASE ~Active(i)
    BY <1>1, <1>3, LeaveMoves DEF ApplyUpdate, Moved, history
  <1>. QED  BY <1>2, <1>3

LEMMA AnswerMoves ==
  ASSUME Types, Kept, NEW t \in Tasks, EvaluationStep(t) \/ VerifierRaises(t)
  PROVE  Moved(t) /\ Fresh(t)'
  <1>1. ASSUME task[t] # Idle, task[t].pc # "waiting"
        PROVE  \A u \in Tasks \ {t} :
                 task[u] # Idle /\ task[u].lock = task[t].lock => task[u].pc = "waiting"
    BY <1>1, HoldsAlone
  <1>2. CASE Answers(t)
    <2>1. /\ task[t] # Idle /\ task[t].pc # "waiting" /\ task[t].copy \in Watch
          /\ Result(t) \in Results /\ UNCHANGED <<lockOf, sweep, unlinking, made, acked, crossed>>
      BY <1>2, AnswerType DEF Answers, Types, bounds
    <2>2. CASE Fire(t)
      <3>1. PICK w \in Watch : /\ w.edition = task[t].copy.edition /\ w.set = task[t].copy.set
                               /\ Write(t, w)
        BY <2>1, <2>2, StaysArmedType, FinishedType, SpokenType DEF Fire
      <3>. QED  BY <1>1, <1>2, <2>1, <2>2, <3>1, WriteMoves, HooksMoves DEF Fire, Moved
    <2>3. CASE Expire(t)
      <3>1. PICK w \in Watch : /\ w.edition = task[t].copy.edition /\ w.set = task[t].copy.set
                               /\ Write(t, w)
        BY <2>1, <2>3, FinishedType DEF Expire
      <3>. QED  BY <1>1, <1>2, <2>1, <2>3, <3>1, WriteMoves, HooksMoves DEF Expire, Moved
    <2>4. CASE Stall(t)
      <3>. DEFINE w == Observed(task[t].copy, Result(t))
      <3>1. /\ w \in Watch /\ w.edition = task[t].copy.edition /\ w.set = task[t].copy.set
            /\ w.status = task[t].copy.status
        BY <2>1, ObservedType
      <3>2. task' = [task EXCEPT ![t] = [@ EXCEPT !.pc = "stall", !.copy = w]] /\ file' = file
        BY <2>4 DEF Stall
      <3>. HIDE DEF w
      <3>3. /\ \E b \in Busy \cup {Idle} :
                 /\ task' = [task EXCEPT ![t] = b]
                 /\ b # Idle => b.id = task[t].id /\ b.lock = task[t].lock
            /\ task'[t].pc = "stall" /\ task'[t].id = task[t].id /\ task'[t].copy = w
        BY <2>1, <3>1, <3>2, CopyMoves
      <3>4. Fresh(t)
        BY DEF Kept
      <3>5. Fresh(t)'
        BY <1>2, <2>1, <3>1, <3>2, <3>3, <3>4 DEF Fresh, Carries, Active, Answers
      <3>. QED  BY <1>1, <2>1, <3>2, <3>3, <3>5 DEF Moved
    <2>5. CASE Observe(t)
      <3>1. PICK w \in Watch : /\ w.edition = task[t].copy.edition /\ w.set = task[t].copy.set
                               /\ Write(t, w)
        BY <2>1, <2>5, ObservedType DEF Observe
      <3>. QED  BY <1>1, <1>2, <2>1, <2>5, <3>1, WriteMoves, LeaveMoves DEF Observe, Moved
    <2>6. CASE Read(t) \/ ApplyUpdate(t)
      BY <2>6, ReadMoves, UpdateMoves
    <2>7. CASE StallWritten(t) \/ HooksReturn(t)
      BY <1>2, <2>7 DEF Answers, StallWritten, HooksReturn
    <2>8. CASE VerifierRaises(t)
      BY <1>1, <2>1, <2>8, LeaveMoves DEF VerifierRaises, Moved
    <2>. QED  BY <2>2, <2>3, <2>4, <2>5, <2>6, <2>7, <2>8 DEF EvaluationStep
  <1>3. CASE Read(t) \/ ApplyUpdate(t)
    BY <1>3, ReadMoves, UpdateMoves
  <1>4. CASE StallWritten(t)
    <2>1. /\ task[t] # Idle /\ task[t].pc = "stall" /\ task[t].copy \in Watch
          /\ Write(t, task[t].copy) /\ Leave(t)
          /\ UNCHANGED <<lockOf, sweep, unlinking, made, acked, crossed>>
      BY <1>4 DEF StallWritten, Types, Phased, bounds, history
    <2>. QED  BY <1>1, <2>1, WriteMoves, LeaveMoves DEF Moved
  <1>5. CASE HooksReturn(t) \/ VerifierRaises(t)
    <2>1. /\ task[t] # Idle /\ task[t].pc # "waiting" /\ Leave(t)
          /\ UNCHANGED <<file, lockOf, sweep, unlinking, made, acked, crossed>>
      BY <1>5 DEF HooksReturn, VerifierRaises, bounds, history
    <2>. QED  BY <1>1, <2>1, LeaveMoves DEF Moved
  <1>6. Fire(t) \/ Expire(t) \/ Stall(t) \/ Observe(t) => Answers(t)
    BY DEF Fire, Expire, Stall, Observe
  <1>. QED  BY <1>2, <1>3, <1>4, <1>5, <1>6 DEF EvaluationStep

LEMMA CreateKeeps ==
  ASSUME Types, Kept, NEW i \in Ids, NEW s \in Specs, Create(i, s)
  PROVE  Kept'
  <1>. DEFINE w == Created(made + 1, s)
  <1>1. UNCHANGED <<lockOf, task, sweep, unlinking>> /\ made' = made + 1 /\ made \in Nat
    BY DEF Create, Types, TypeOK
  <1>2. /\ file' = [file EXCEPT ![i] = w] /\ \A j \in Ids \ {i} : acked'[j] = acked[j]
        /\ crossed' \subseteq crossed \cup {i} /\ crossed \subseteq crossed' \cup {i}
    BY DEF Create, Crosses, NewHistory, Types, TypeOK
  <1>3. w \in Watch /\ w.edition = made + 1 /\ w.set = s
    <2>1. made + 1 \in Editions /\ s \in Settings
      BY DEF Create, Types, TypeOK, Editions
    <2>. QED  BY <2>1, CreatedType DEF Created
  <1>4. i \notin crossed' => Apart(i) /\ acked'[i] = [edition |-> made + 1, set |-> s]
    BY DEF Create, Crosses, NewHistory, Types, TypeOK
  <1>. HIDE DEF w
  <1>5. file'[i] = w /\ \A j \in Ids \ {i} : file'[j] = file[j]
    BY <1>2 DEF Types, TypeOK
  <1>6. \A t \in Tasks : task[t] # Idle => task[t].id \in Ids
    BY DEF Types, TypeOK, Busy
  <1>7. i \notin crossed' => \A t \in Tasks : task[t] # Idle => task[t].id # i
    BY <1>4 DEF Apart, At
  <1>8. Exclusive'
    BY <1>1 DEF Kept, Exclusive
  <1>9. Registered'
    BY <1>1, <1>2, <1>5, <1>6, <1>7 DEF Kept, Registered, Active
  <1>10. ASSUME NEW t \in Tasks
         PROVE  Fresh(t)'
    <2>1. Carries(t)' => Carries(t) /\ task[t].copy \in Watch /\ task[t].copy.edition \in Nat
      BY <1>1 DEF Carries, Types, Phased, Watch, Editions
    <2>2. Carries(t)' => (task[t].copy.edition <= made)'
      BY <1>1, <2>1 DEF Kept, Fresh
    <2>. QED  BY <1>1, <1>2, <1>5, <1>6, <1>7, <2>1, <2>2 DEF Kept, Fresh, Carries, Active
  <1>11. Pruned' /\ Cleared'
    BY <1>1, <1>2, <1>4, <1>5 DEF Kept, Pruned, Cleared, Apart, Active, At
  <1>12. SettingsStand'
    BY <1>2, <1>3, <1>4, <1>5 DEF Kept, SettingsStand, Types, TypeOK
  <1>13. Numbered'
    <2>1. \A j \in Ids : file[j] # NoWatch => file[j].edition \in Nat
      BY DEF Types, TypeOK, Watch, Editions
    <2>. QED  BY <1>1, <1>3, <1>5, <2>1 DEF Kept, Numbered
  <1>. QED  BY <1>8, <1>9, <1>10, <1>11, <1>12, <1>13 DEF Kept

LEMMA PopLockKeeps ==
  ASSUME Types, Kept, NEW i \in Ids, Clear(i) \/ Prune(i)
  PROVE  Kept'
  <1>1. PICK c \in {Tick, Panel} :
          /\ PopLock(c, i) /\ sweep'.prune \subseteq sweep.prune
          /\ i \notin crossed' => (c = Tick => ~Active(i)) /\ (c = Panel => At(i) = {})
          /\ crossed \subseteq crossed' /\ \A j \in Ids \ crossed' : acked'[j] = acked[j]
    <2>1. CASE Clear(i)
      BY <2>1 DEF Clear, Apart, Crosses, NewHistory, history, Types, TypeOK, WatchesAssumption
    <2>2. CASE Prune(i)
      BY <2>2 DEF Prune, Kept, Pruned, history, Types, TypeOK, WatchesAssumption
    <2>. QED  BY <2>1, <2>2
  <1>2. /\ UNCHANGED <<file, task, made>> /\ lockOf' = [lockOf EXCEPT ![i] = NoLock]
        /\ unlinking' = unlinking \cup {<<c, i>>}
    BY <1>1 DEF PopLock
  <1>3. \A j \in Ids \ {i} : lockOf'[j] = lockOf[j]
    BY <1>2 DEF Types, TypeOK
  <1>4. Registered'
    <2>1. \A t \in Tasks : task[t] # Idle /\ task[t].id \notin crossed' /\ Active(task[t].id)
                             => task[t].id \in Ids \ {i}
      BY <1>1 DEF Types, TypeOK, Busy, At
    <2>. QED  BY <1>1, <1>2, <1>3, <2>1 DEF Kept, Registered, Active
  <1>5. Exclusive' /\ \A t \in Tasks : Fresh(t)'
    BY <1>1, <1>2 DEF Kept, Exclusive, Fresh, Carries, Active
  <1>6. Pruned'
    BY <1>1, <1>2 DEF Kept, Pruned, Active
  <1>7. Cleared'
    BY <1>1, <1>2 DEF Kept, Cleared, At
  <1>8. SettingsStand' /\ Numbered'
    BY <1>1, <1>2 DEF Kept, SettingsStand, Numbered
  <1>. QED  BY <1>4, <1>5, <1>6, <1>7, <1>8 DEF Kept

LEMMA UnlinkKeeps ==
  ASSUME Types, Kept, NEW i \in Ids, NEW c \in {Tick, Panel}, Unlink(c, i)
  PROVE  Kept'
  <1>1. /\ <<c, i>> \in unlinking /\ unlinking' \subseteq unlinking
        /\ file' = [file EXCEPT ![i] = NoWatch] /\ UNCHANGED <<lockOf, task, sweep, made, crossed>>
    BY DEF Unlink, bounds
  <1>2. file'[i] = NoWatch /\ \A j \in Ids \ {i} : file'[j] = file[j]
    BY <1>1 DEF Types, TypeOK
  <1>3. \A t \in Tasks : task[t] # Idle => task[t].id \in Ids
    BY DEF Types, TypeOK, Busy
  <1>4. \A j \in Ids : Active(j)' => Active(j)
    BY <1>2 DEF Active
  <1>5. Exclusive' /\ Registered'
    BY <1>1, <1>3, <1>4 DEF Kept, Exclusive, Registered
  <1>6. ASSUME NEW t \in Tasks
        PROVE  Fresh(t)'
    <2>1. Carries(t) /\ task[t].id \notin crossed => task[t].id # i
      <3>1. i \notin crossed => (c = Tick => ~Active(i)) /\ (c = Panel => At(i) = {})
        BY <1>1 DEF Kept, Pruned, Cleared
      <3>. QED  BY <3>1 DEF Kept, Fresh, Carries, At
    <2>. QED  BY <1>1, <1>2, <1>3, <2>1 DEF Kept, Fresh, Carries, Active
  <1>7. Pruned' /\ Cleared'
    BY <1>1, <1>4 DEF Kept, Pruned, Cleared, At
  <1>8. SettingsStand'
    <2>1. \A j \in Ids \ crossed : acked'[j] = IF j = i THEN NoWatch ELSE acked[j]
      BY <1>1 DEF Unlink, Noted, Kept, Pruned, Types, TypeOK
    <2>. QED  BY <1>1, <1>2, <2>1 DEF Kept, SettingsStand
  <1>9. Numbered'
    BY <1>1, <1>2 DEF Kept, Numbered
  <1>. QED  BY <1>5, <1>6, <1>7, <1>8, <1>9 DEF Kept

LEMMA StepKeeps ==
  ASSUME Types, Kept, [Next]_vars
  PROVE  Kept'
  <1>1. ASSUME NEW i \in Ids, NEW s \in Specs, Create(i, s)
        PROVE  Kept'
    BY <1>1, CreateKeeps
  <1>2. ASSUME NEW i \in Ids, Clear(i) \/ Prune(i)
        PROVE  Kept'
    BY <1>2, PopLockKeeps
  <1>3. ASSUME NEW i \in Ids, NEW c \in {Tick, Panel}, Unlink(c, i)
        PROVE  Kept'
    BY <1>3, UnlinkKeeps
  <1>4. ASSUME NEW i \in Ids, TickEvaluate(i)
        PROVE  Kept'
    <2>1. sweep'.prune = sweep.prune
      BY <1>4 DEF TickEvaluate, Types, TypeOK
    <2>. QED  BY <1>4, <2>1, BeginKeeps DEF TickEvaluate, MayCross, Tasks
  <1>5. ASSUME NEW i \in Ids, NEW t \in Callers, EvaluateNow(t, i)
        PROVE  Kept'
    BY <1>5, BeginKeeps DEF EvaluateNow, MayCross, Tasks
  <1>6. ASSUME NEW i \in Ids, NEW t \in Callers, NEW e \in Edits, Update(t, i, e)
        PROVE  Kept'
    BY <1>6, BeginKeeps DEF Update, Tasks
  <1>7. ASSUME NEW t \in Tasks, EvaluationStep(t) \/ VerifierRaises(t)
        PROVE  Kept'
    BY <1>7, AnswerMoves, MovedKeeps
  <1>8. CASE Scan \/ TickDone
    <2>1. /\ UNCHANGED <<file, lockOf, task, unlinking, made, acked, crossed>>
          /\ \A i \in Ids : i \in sweep'.prune => ~Active(i)
      BY <1>8 DEF Scan, TickDone, NoSweep, bounds, history
    <2>2. Pruned'
      BY <2>1 DEF Kept, Pruned, Active
    <2>. QED  BY <2>1, <2>2 DEF Kept, Exclusive, Registered, Fresh, Carries, Cleared,
                                SettingsStand, Numbered, Active, At
  <1>9. CASE Crash
    <2>1. /\ \A t \in Tasks : task'[t] = Idle
          /\ sweep'.prune = {} /\ unlinking' = {} /\ UNCHANGED <<file, made, acked, crossed>>
      BY <1>9 DEF Crash, NoSweep
    <2>. QED  BY <2>1 DEF Kept, Exclusive, Registered, Fresh, Carries, Pruned, Cleared,
                          SettingsStand, Numbered
  <1>10. CASE UNCHANGED <<file, lockOf, task, sweep, unlinking, made, acked, crossed>>
    BY <1>10 DEF Kept, Exclusive, Registered, Fresh, Carries, Pruned, Cleared, SettingsStand,
                 Numbered, Active, At
  <1>. QED  BY <1>1, <1>2, <1>3, <1>4, <1>5, <1>6, <1>7, <1>8, <1>9, <1>10
            DEF Next, Rest, Age, Pass, WorldMoves, bounds, history, vars

LEMMA KeptInvariant == Spec => [](Types /\ Kept)
  <1>1. Init => Types /\ Kept
    BY DEF Init, Types, TypeOK, Phased, NoSweep, Kept, Exclusive, Registered, Fresh, Carries,
           Pruned, Cleared, SettingsStand, Numbered
  <1>2. Types /\ Kept /\ [Next]_vars => (Types /\ Kept)'
    BY StepType, PhasedStep, StepKeeps DEF Types
  <1>. QED  BY <1>1, <1>2, PTL DEF Spec

\* Nobody writes a watch between the read of an evaluation and its write, unless
\* a create or a clear crossed: the per-id lock serialises evaluations and
\* updates even though prunes and clears forget locks.
THEOREM CopiesAreFresh == Spec => []CopyIsFresh
  <1>1. Kept => CopyIsFresh
    BY DEF Kept, Fresh, Carries, CopyIsFresh
  <1>. QED  BY <1>1, KeptInvariant, PTL

\* The store holds what create and update last acknowledged, and nothing after
\* a clear, over crashes, prunes, stalls and later editions alike: what a create
\* or a clear crossed is lost until the watch is next created with nobody at it.
THEOREM EditsStand == Spec => []SettingsStand
  <1>1. Kept => SettingsStand
    BY DEF Kept
  <1>. QED  BY <1>1, KeptInvariant, PTL

\* A watch that was met or expired is never written again, unless a create or a
\* clear crossed: it is deleted, or replaced by another edition.
THEOREM FinishedStays == Spec => TerminalIsFinal
  <1>. DEFINE Final ==
         \A i \in Ids \ crossed : file[i] # NoWatch /\ ~Active(i) =>
           file'[i] \in {file[i], NoWatch} \/ file'[i].edition # file[i].edition
  <1>1. ASSUME Types, Kept, Next
        PROVE  Final
    <2>1. ASSUME NEW i \in Ids, NEW s \in Specs, Create(i, s)
          PROVE  Final
      <3>1. /\ file' = [file EXCEPT ![i] = Created(made + 1, s)] /\ made \in Nat
            /\ Created(made + 1, s).edition = made + 1
        BY <1>1, <2>1 DEF Create, Created, Types, TypeOK
      <3>2. file[i] # NoWatch => file[i].edition <= made /\ file[i].edition \in Nat
        BY <1>1 DEF Kept, Numbered, Types, TypeOK, Watch, Editions
      <3>. QED  BY <1>1, <3>1, <3>2 DEF Types, TypeOK
    <2>2. ASSUME NEW i \in Ids, NEW c \in {Tick, Panel}, Unlink(c, i)
          PROVE  Final
      BY <1>1, <2>2 DEF Unlink, Types, TypeOK
    <2>3. ASSUME NEW t \in Tasks, EvaluationStep(t) \/ VerifierRaises(t)
          PROVE  Final
      <3>1. Moved(t)
        BY <1>1, <2>3, AnswerMoves
      <3>. QED  BY <1>1, <3>1 DEF Moved, Types, TypeOK
    <2>4. CASE UNCHANGED file
      BY <2>4
    <2>. QED  BY <1>1, <2>1, <2>2, <2>3, <2>4
              DEF Next, Clear, Prune, PopLock, TickEvaluate, EvaluateNow, Update, Begin, Scan,
                  TickDone, Crash, Rest, Age, Pass, WorldMoves
  <1>2. UNCHANGED vars => Final
    BY DEF vars
  <1>3. Types /\ Kept /\ [Next]_vars => [Final]_vars
    BY <1>1, <1>2
  <1>. QED  BY <1>3, KeptInvariant, PTL DEF Spec, TerminalIsFinal

(***************************************************************************)
(* A tripwire fires on the edge, and a stall is told once in an episode.   *)
(***************************************************************************)

Stalling(t, i) == task[t] # Idle /\ task[t].pc = "stall" /\ task[t].id = i

\* A watch remembers that its last check found it met, and that its stall was
\* told; while on_stalled runs, the copy that will be written does.  All that
\* where nothing crossed.
Remembers(i, w) == (sawMet[i] => w.wasMet) /\ (told[i] => w.notified)
Memory ==
  \A i \in Ids \ crossed :
    /\ Active(i) => Remembers(i, file[i]) \/ \E t \in Tasks : Stalling(t, i)
    /\ \A t \in Tasks : Stalling(t, i) => Remembers(i, task[t].copy)

LEMMA NoneStalls ==
  ASSUME Types, Kept, NEW t \in Tasks, task[t] # Idle, task[t].pc # "waiting" \/ Acquires(t),
         task[t].id \notin crossed
  PROVE  \A u \in Tasks \ {t} : ~Stalling(u, task[t].id)
  <1>1. ASSUME NEW u \in Tasks \ {t}, Stalling(u, task[t].id)
        PROVE  task[u].lock = task[t].lock
    BY <1>1 DEF Stalling, Kept, Fresh, Carries, Registered
  <1>. QED  BY <1>1, HoldsAlone DEF Stalling

\* A task that moves on at its watch need only remember there.
LEMMA MemoryMoves ==
  ASSUME Types, Kept, Memory, NEW t \in Tasks, Moved(t), NEW i \in Ids, i = task[t].id,
         i \notin crossed => \A u \in Tasks \ {t} : ~Stalling(u, i),
         \A j \in Ids : j # i => sawMet'[j] = sawMet[j] /\ told'[j] = told[j],
         i \notin crossed => IF task'[t] # Idle /\ task'[t].pc = "stall"
                             THEN Remembers(i, task[t].copy)'
                             ELSE Active(i)' => Remembers(i, file[i])'
  PROVE  Memory'
  <1>1. task \in [Tasks -> Busy \cup {Idle}] /\ task[t] \in Busy /\ task[t].id \in Ids
        /\ file \in [Ids -> Watch \cup {NoWatch}]
    BY DEF Types, TypeOK, Moved, Busy
  <1>3. /\ \A u \in Tasks \ {t} : task'[u] = task[u]
        /\ task'[t] # Idle => task'[t].id = i
    BY <1>1 DEF Moved
  <1>4. \A j \in Ids \ {i} : file'[j] = file[j]
    BY <1>1 DEF Moved
  <1>5. ASSUME NEW j \in Ids \ {i}, NEW u \in Tasks
        PROVE  (Stalling(u, j)' <=> Stalling(u, j)) /\ (Stalling(u, j) => task'[u] = task[u])
    BY <1>3, <1>5 DEF Stalling, Moved
  <1>2. crossed' = crossed
    BY DEF Moved
  <1>6. ASSUME NEW j \in Ids \ crossed, j # i
        PROVE  /\ Active(j)' => Remembers(j, file[j])' \/ \E u \in Tasks : Stalling(u, j)'
               /\ \A u \in Tasks : Stalling(u, j)' => Remembers(j, task[u].copy)'
    BY <1>4, <1>5, <1>6 DEF Memory, Remembers, Active
  <1>7. i \notin crossed => \A u \in Tasks \ {t} : ~Stalling(u, i)'
    BY <1>3 DEF Stalling
  <1>8. i \notin crossed =>
        /\ Active(i)' => Remembers(i, file[i])' \/ \E u \in Tasks : Stalling(u, i)'
        /\ \A u \in Tasks : Stalling(u, i)' => Remembers(i, task[u].copy)'
    <2>1. CASE task'[t] # Idle /\ task'[t].pc = "stall"
      <3>1. Stalling(t, i)'
        BY <1>3, <2>1 DEF Stalling
      <3>. QED  BY <1>7, <2>1, <3>1
    <2>2. CASE ~(task'[t] # Idle /\ task'[t].pc = "stall")
      <3>1. ~Stalling(t, i)'
        BY <2>2 DEF Stalling
      <3>. QED  BY <1>7, <2>2, <3>1
    <2>. QED  BY <2>1, <2>2
  <1>. QED  BY <1>2, <1>6, <1>8 DEF Memory

LEMMA TaskRemembers ==
  ASSUME Types, Kept, Memory, NEW t \in Tasks, EvaluationStep(t) \/ VerifierRaises(t)
  PROVE  Memory'
  <1>0. Moved(t)
    BY AnswerMoves
  <1>1. /\ task[t] # Idle /\ task[t] \in Busy /\ task[t].id \in Ids
        /\ task \in [Tasks -> Busy \cup {Idle}] /\ file \in [Ids -> Watch \cup {NoWatch}]
        /\ sawMet \in [Ids -> BOOLEAN] /\ told \in [Ids -> BOOLEAN]
    BY <1>0 DEF Types, TypeOK, Moved, Busy
  <1>2. PICK i \in Ids : i = task[t].id
    BY <1>1
  <1>3. i \notin crossed => \A u \in Tasks \ {t} : ~Stalling(u, i)
    BY <1>1, <1>2, NoneStalls DEF EvaluationStep, Read, ApplyUpdate, Fire, Expire, Stall, StallWritten,
       Observe, HooksReturn, VerifierRaises, Answers
  <1>4. i \notin crossed /\ task[t].pc # "stall" /\ Active(i) => Remembers(i, file[i])
    BY <1>2, <1>3 DEF Memory, Stalling
  <1>5. CASE Read(t) \/ HooksReturn(t) \/ VerifierRaises(t)
    <2>1. UNCHANGED <<file, sawMet, told>> /\ task[t].pc # "stall"
      BY <1>5 DEF Read, HooksReturn, VerifierRaises, Acquires, history
    <2>2. task'[t] = Idle \/ task'[t].pc = "verify"
      <3>1. CASE Leave(t)
        BY <1>1, <3>1 DEF Leave
      <3>2. CASE task' = [task EXCEPT ![t] = [@ EXCEPT !.pc = "verify", !.copy = file[task[t].id]]]
        BY <1>1, <3>2 DEF Busy
      <3>. QED  BY <1>5, <3>1, <3>2 DEF Read, HooksReturn, VerifierRaises
    <2>3. i \notin crossed => (Active(i)' => Remembers(i, file[i])')
      BY <1>4, <2>1 DEF Remembers, Active
    <2>. QED  BY <1>0, <1>2, <1>3, <2>1, <2>2, <2>3, MemoryMoves
  <1>6. CASE ApplyUpdate(t)
    <2>1. task'[t] = Idle /\ task[t].pc # "stall"
      BY <1>1, <1>6 DEF ApplyUpdate, Leave, Acquires
    <2>2. CASE ~Active(i)
      <3>1. UNCHANGED <<file, sawMet, told>>
        BY <1>2, <1>6, <2>2 DEF ApplyUpdate, history
      <3>2. ~Active(i)'
        BY <2>2, <3>1 DEF Active
      <3>. QED  BY <1>0, <1>2, <1>3, <2>1, <3>1, <3>2, MemoryMoves
    <2>3. CASE Active(i)
      <3>1. /\ file' = [file EXCEPT ![i] = Edited(file[i], task[t].edit)]
            /\ sawMet' = Noted(sawMet, i, sawMet[i] /\ Edited(file[i], task[t].edit).set.trigger
                                                         = file[i].set.trigger)
            /\ told' = Noted(told, i, told[i] /\ "stallAfter" \notin task[t].edit.fields)
        BY <1>2, <1>6, <2>3 DEF ApplyUpdate
      <3>2. file[i] \in Watch
        BY <1>1, <2>3 DEF Active
      <3>3. /\ Edited(file[i], task[t].edit).set = EditedSettings(file[i].set, task[t].edit)
            /\ Edited(file[i], task[t].edit).wasMet
                 <=> file[i].wasMet /\ EditedSettings(file[i].set, task[t].edit).trigger = file[i].set.trigger
            /\ Edited(file[i], task[t].edit).notified
                 <=> file[i].notified /\ "stallAfter" \notin task[t].edit.fields
        BY <3>2 DEF Edited, Watch, Pick
      <3>4. i \notin crossed => Remembers(i, file[i])'
        <4>1. SUFFICES ASSUME i \notin crossed
                       PROVE  Remembers(i, file[i])'
          OBVIOUS
        <4>2. /\ file'[i] = Edited(file[i], task[t].edit)
              /\ sawMet'[i] <=> sawMet[i] /\ Edited(file[i], task[t].edit).set.trigger
                                              = file[i].set.trigger
              /\ told'[i] <=> told[i] /\ "stallAfter" \notin task[t].edit.fields
          BY <1>1, <3>1, <4>1 DEF Noted
        <4>. QED  BY <1>4, <2>1, <2>3, <3>3, <4>1, <4>2 DEF Remembers
      <3>5. \A j \in Ids : j # i => sawMet'[j] = sawMet[j] /\ told'[j] = told[j]
        BY <1>1, <3>1 DEF Noted
      <3>. QED  BY <1>0, <1>2, <1>3, <2>1, <3>4, <3>5, MemoryMoves
    <2>. QED  BY <2>2, <2>3
  <1>7. CASE StallWritten(t)
    <2>1. task'[t] = Idle /\ UNCHANGED <<sawMet, told>> /\ file'[i] = task[t].copy
      BY <1>1, <1>2, <1>7 DEF StallWritten, Leave, Write, history
    <2>2. i \notin crossed => Remembers(i, file[i])'
      <3>1. i \notin crossed => Remembers(i, task[t].copy)
        BY <1>1, <1>2, <1>7 DEF StallWritten, Memory, Stalling
      <3>. QED  BY <2>1, <3>1 DEF Remembers
    <2>. QED  BY <1>0, <1>2, <1>3, <2>1, <2>2, MemoryMoves
  <1>8. CASE Answers(t)
    <2>. DEFINE w == task[t].copy
                r == Result(t)
    <2>1. /\ task[t].pc = "verify" /\ w \in Watch /\ r \in Results
          /\ i \notin crossed => w = file[i] /\ Active(i)
      BY <1>1, <1>2, <1>8, AnswerType DEF Answers, Types, Kept, Fresh, Carries
    <2>2. /\ i \notin crossed => sawMet'[i] = r.met
          /\ \A j \in Ids : j # i => sawMet'[j] = sawMet[j]
      BY <1>1, <1>2, <1>8 DEF Answers, Noted
    <2>3. i \notin crossed => Remembers(i, w)
      BY <1>4, <2>1
    <2>. HIDE DEF w, r
    <2>4. CASE Fire(t) \/ Expire(t)
      <3>1. task'[t].pc = "hooks"
        <4>1. task' = [task EXCEPT ![t].pc = "hooks"]
          BY <2>4 DEF Fire, Expire
        <4>. QED  BY <1>1, <4>1 DEF Busy
      <3>2. \A j \in Ids : j # i => told'[j] = told[j]
        BY <1>1, <1>2, <2>4 DEF Fire, Expire, Noted
      <3>3. CASE file'[i] = StaysArmed(w, r) /\ (i \notin crossed => told'[i] = FALSE)
        <4>1. StaysArmed(w, r).wasMet = r.met
          BY <2>1 DEF StaysArmed, Watch
        <4>2. i \notin crossed => Remembers(i, file[i])'
          BY <2>2, <3>3, <4>1 DEF Remembers
        <4>. QED  BY <1>0, <1>2, <1>3, <2>2, <3>1, <3>2, <4>2, MemoryMoves
      <3>4. ASSUME NEW status \in {"met", "expired"}, NEW reason, file'[i] = Finished(w, status, reason, r)
            PROVE  Memory'
        <4>1. Finished(w, status, reason, r).status = status
          BY <2>1 DEF Finished, Watch
        <4>2. ~Active(i)'
          BY <3>4, <4>1 DEF Active
        <4>. QED  BY <1>0, <1>2, <1>3, <2>2, <3>1, <3>2, <4>2, MemoryMoves
      <3>5. \/ file'[i] = StaysArmed(w, r) /\ (i \notin crossed => told'[i] = FALSE)
            \/ \E status \in {"met", "expired"} : \E reason : file'[i] = Finished(w, status, reason, r)
        <4>1. CASE Fire(t)
          <5>1. told' = Noted(told, i, FALSE)
            BY <1>2, <4>1 DEF Fire
          <5>2. i \notin crossed => told'[i] = FALSE
            BY <1>1, <5>1 DEF Noted
          <5>3. \/ file' = [file EXCEPT ![i] = StaysArmed(w, r)]
                \/ file' = [file EXCEPT ![i] = Finished(w, "met", Spoken(w, r), r)]
            BY <1>2, <4>1 DEF Fire, Write, w, r
          <5>. QED  BY <1>1, <5>2, <5>3
        <4>2. CASE Expire(t)
          <5>1. file' = [file EXCEPT ![i] = Finished(w, "expired", "deadline", r)]
            BY <1>2, <4>2 DEF Expire, Write, w, r
          <5>. QED  BY <1>1, <5>1
        <4>. QED  BY <2>4, <4>1, <4>2
      <3>. QED  BY <3>3, <3>4, <3>5
    <2>5. /\ Observed(w, r).wasMet = r.met
          /\ Observed(w, r).notified <=> Stalls(w, r) \/ (w.notified /\ ~Changed(w, r))
      BY <2>1 DEF Observed, Watch
    <2>6. CASE Stall(t)
      <3>1. /\ task'[t].pc = "stall" /\ task'[t] # Idle /\ task'[t].copy = Observed(w, r)
            /\ Stalls(w, r)
        <4>1. task' = [task EXCEPT ![t] = [@ EXCEPT !.pc = "stall", !.copy = Observed(w, r)]]
              /\ Stalls(w, r)
          BY <2>6 DEF Stall, w, r
        <4>2. [task[t] EXCEPT !.pc = "stall", !.copy = Observed(w, r)] \in Busy
          BY <1>1, <2>1, ObservedType DEF Busy
        <4>. QED  BY <1>1, <4>1, <4>2, WatchesAssumption DEF Busy
      <3>2. \A j \in Ids : j # i => told'[j] = told[j]
        BY <1>1, <1>2, <2>6 DEF Stall, EpisodeGoesOn, Noted
      <3>3. i \notin crossed => Remembers(i, task[t].copy)'
        BY <2>2, <2>5, <3>1 DEF Remembers
      <3>. QED  BY <1>0, <1>2, <1>3, <2>2, <3>1, <3>2, <3>3, MemoryMoves
    <2>7. CASE Observe(t)
      <3>1. task'[t] = Idle /\ file'[i] = Observed(w, r)
        BY <1>1, <1>2, <2>7 DEF Observe, Leave, Write, w, r
      <3>2. /\ i \notin crossed => (told'[i] <=> told[i] /\ ~Changed(w, r))
            /\ \A j \in Ids : j # i => told'[j] = told[j]
        BY <1>1, <1>2, <2>7 DEF Observe, EpisodeGoesOn, Noted, w, r
      <3>3. i \notin crossed => Remembers(i, file[i])'
        BY <2>2, <2>3, <2>5, <3>1, <3>2 DEF Remembers
      <3>. QED  BY <1>0, <1>2, <1>3, <2>2, <3>1, <3>2, <3>3, MemoryMoves
    <2>8. ~Read(t) /\ ~ApplyUpdate(t) /\ ~StallWritten(t) /\ ~HooksReturn(t)
      BY <2>1 DEF Read, ApplyUpdate, Acquires, StallWritten, HooksReturn
    <2>. QED  BY <1>5, <2>4, <2>6, <2>7, <2>8 DEF EvaluationStep
  <1>. QED
    BY <1>5, <1>6, <1>7, <1>8 DEF EvaluationStep, Fire, Expire, Stall, Observe

\* A step that crosses, or may, keeps what is remembered of the others.
LEMMA MemoryCrosses ==
  ASSUME Types, Memory, NEW i \in Ids, Crosses(i) \/ UNCHANGED <<events, history>>, UNCHANGED file,
         \A u \in Tasks, j \in Ids :
           (Stalling(u, j)' <=> Stalling(u, j)) /\ (Stalling(u, j) => UNCHANGED task[u])
  PROVE  Memory'
  <1>1. /\ crossed \subseteq crossed'
        /\ \A j \in Ids \ crossed' : UNCHANGED <<sawMet[j], told[j]>>
    BY DEF Crosses, NewHistory, history, Types, TypeOK
  <1>. QED  BY <1>1 DEF Memory, Remembers, Active

LEMMA MemoryStep ==
  ASSUME Types, Kept, Memory, [Next]_vars
  PROVE  Memory'
  <1>1. CASE UNCHANGED <<file, task, sawMet, told, crossed>>
    BY <1>1 DEF Memory, Stalling, Remembers, Active
  <1>2. ASSUME NEW i \in Ids, NEW s \in Specs, Create(i, s)
        PROVE  Memory'
    <2>1. /\ task' = task /\ \A j \in Ids \ {i} : UNCHANGED <<file[j], sawMet[j], told[j]>>
          /\ crossed \subseteq crossed' \cup {i}
          /\ i \notin crossed' => Apart(i) /\ sawMet'[i] = FALSE /\ told'[i] = FALSE
      BY <1>2 DEF Create, Crosses, NewHistory, Types, TypeOK
    <2>2. i \notin crossed' => \A t \in Tasks : ~Stalling(t, i)
      BY <2>1 DEF Apart, At, Stalling
    <2>3. \A t \in Tasks, j \in Ids : Stalling(t, j)' <=> Stalling(t, j)
      BY <2>1 DEF Stalling
    <2>. QED  BY <2>1, <2>2, <2>3 DEF Memory, Remembers, Active
  <1>3. ASSUME NEW i \in Ids, NEW c \in {Tick, Panel}, Unlink(c, i)
        PROVE  Memory'
    <2>1. file'[i] = NoWatch /\ UNCHANGED <<task, sawMet, told, crossed>>
          /\ \A j \in Ids \ {i} : UNCHANGED file[j]
      BY <1>3 DEF Unlink, Types, TypeOK
    <2>2. \A t \in Tasks, j \in Ids : Stalling(t, j)' <=> Stalling(t, j)
      BY <2>1 DEF Stalling
    <2>. QED  BY <2>1, <2>2 DEF Memory, Remembers, Active
  <1>4. ASSUME NEW t \in Tasks, NEW i \in Ids, NEW e, Begin(t, i, e),
               Crosses(i) \/ UNCHANGED history
        PROVE  Memory'
    <2>1. /\ UNCHANGED file /\ task[t] = Idle
          /\ \A u \in Tasks \ {t} : UNCHANGED task[u]
          /\ task'[t].pc = "waiting"
      BY <1>4 DEF Begin, Types, TypeOK
    <2>2. \A u \in Tasks, j \in Ids : Stalling(u, j)' <=> Stalling(u, j)
      BY <2>1 DEF Stalling
    <2>3. \A u \in Tasks, j \in Ids : Stalling(u, j) => UNCHANGED task[u]
      BY <2>1 DEF Stalling
    <2>4. /\ crossed \subseteq crossed'
          /\ \A j \in Ids \ crossed' : UNCHANGED <<sawMet[j], told[j]>>
      BY <1>4 DEF Crosses, NewHistory, history, Types, TypeOK
    <2>. QED  BY <2>1, <2>2, <2>3, <2>4 DEF Memory, Remembers, Active
  <1>5. CASE Crash
    <2>1. /\ \A t \in Tasks : task'[t] = Idle
          /\ UNCHANGED <<file, crossed>>
          /\ \A i \in Ids : /\ sawMet'[i] <=> file[i] # NoWatch /\ file[i].wasMet /\ i \notin crossed
                            /\ told'[i] <=> told[i] /\ \A t \in At(i) : task[t].pc # "stall"
      BY <1>5 DEF Crash
    <2>2. \A i \in Ids : told'[i] => \A t \in Tasks : ~Stalling(t, i)
      BY <2>1 DEF At, Stalling
    <2>. QED  BY <2>1, <2>2 DEF Memory, Remembers, Stalling, Active
  <1>6. ASSUME NEW t \in Tasks, EvaluationStep(t) \/ VerifierRaises(t)
        PROVE  Memory'
    BY <1>6, TaskRemembers
  <1>7. ASSUME NEW i \in Ids, Clear(i) \/ Prune(i)
        PROVE  Memory'
    <2>1. /\ Crosses(i) \/ UNCHANGED <<events, history>>
          /\ UNCHANGED <<file, task>>
      BY <1>7 DEF Clear, Prune, PopLock
    <2>2. \A u \in Tasks, j \in Ids :
            (Stalling(u, j)' <=> Stalling(u, j)) /\ (Stalling(u, j) => UNCHANGED task[u])
      BY <2>1 DEF Stalling
    <2>. QED  BY <2>1, <2>2, MemoryCrosses
  <1>8. ASSUME NEW i \in Ids, TickEvaluate(i)
        PROVE  Memory'
    BY <1>4, <1>8 DEF TickEvaluate, MayCross, Tasks
  <1>9. ASSUME NEW i \in Ids, NEW t \in Callers, EvaluateNow(t, i) \/ \E e \in Edits : Update(t, i, e)
        PROVE  Memory'
    BY <1>4, <1>9 DEF EvaluateNow, Update, MayCross, Tasks
  <1>. QED
    BY <1>1, <1>2, <1>3, <1>5, <1>6, <1>7, <1>8, <1>9
       DEF Next, Scan, TickDone, Rest, Age, Pass, WorldMoves, history, vars

LEMMA MemoryInvariant == Spec => [](Types /\ Kept /\ Memory)
  <1>1. Init => Memory
    BY DEF Init, Memory, Stalling, Active
  <1>2. Types /\ Kept /\ Memory /\ [Next]_vars => Memory'
    BY MemoryStep
  <1>. QED  BY <1>1, <1>2, KeptInvariant, PTL DEF Spec

\* The steps by which a task leaves its verifier for the hooks or a stall.
LEMMA StartsBy ==
  ASSUME Types, [Next]_vars, NEW t \in Tasks, NEW phase \in {"hooks", "stall"}, Starts(t, phase)
  PROVE  IF phase = "hooks" THEN Fire(t) \/ Expire(t) ELSE Stall(t)
  <1>0. /\ task \in [Tasks -> Busy \cup {Idle}] /\ task[t] # Idle /\ task[t].pc = "verify"
        /\ task'[t] # Idle /\ task'[t].pc = phase
    BY DEF Types, TypeOK, Starts
  <1>1. ASSUME NEW u \in Tasks, NEW i \in Ids, NEW e, Begin(u, i, e)
        PROVE  FALSE
    BY <1>0, <1>1 DEF Begin
  <1>2. ~UNCHANGED task /\ ~Crash
    BY <1>0 DEF Crash
  <1>3. ASSUME NEW u \in Tasks, EvaluationStep(u) \/ VerifierRaises(u)
        PROVE  u = t
    <2>1. \E b : task' = [task EXCEPT ![u] = b]
      BY <1>3, Zenon DEF EvaluationStep, Read, ApplyUpdate, Fire, Expire, Stall, StallWritten, Observe,
         HooksReturn, VerifierRaises, Leave
    <2>. QED  BY <1>0, <2>1
  <1>4. EvaluationStep(t) \/ VerifierRaises(t)
    BY <1>1, <1>2, <1>3
       DEF Next, Create, Unlink, Clear, Prune, PopLock, TickEvaluate, EvaluateNow, Update, Tasks, Scan,
           TickDone, Rest, Age, Pass, WorldMoves, vars
  <1>5. ~Leave(t)
    BY <1>0 DEF Leave
  <1>6. ~Read(t)
    BY <1>0 DEF Read, Acquires
  <1>7. Fire(t) \/ Expire(t) \/ Stall(t)
    BY <1>4, <1>5, <1>6 DEF EvaluationStep, ApplyUpdate, StallWritten, Observe, HooksReturn, VerifierRaises
  <1>8. Fire(t) \/ Expire(t) => task'[t].pc = "hooks"
    BY <1>0 DEF Fire, Expire, Busy
  <1>9. ASSUME NEW w, task' = [task EXCEPT ![t] = [@ EXCEPT !.pc = "stall", !.copy = w]]
        PROVE  task'[t].pc = "stall"
    BY <1>0, <1>9 DEF Busy
  <1>. QED  BY <1>0, <1>7, <1>8, <1>9 DEF Stall

\* An evaluation finds the watch remembering what the last check saw and told.
LEMMA CopyRemembers ==
  ASSUME Types, Kept, Memory, NEW t \in Tasks, task[t] # Idle, task[t].pc = "verify",
         task[t].id \notin crossed
  PROVE  task[t].id \in Ids /\ task[t].copy \in Watch /\ Remembers(task[t].id, task[t].copy)
  <1>1. task[t].id \in Ids /\ Active(task[t].id) /\ task[t].copy = file[task[t].id]
    BY DEF Types, TypeOK, Busy, Kept, Fresh, Carries
  <1>2. \A u \in Tasks : ~Stalling(u, task[t].id)
    BY NoneStalls DEF Stalling
  <1>. QED  BY <1>1, <1>2 DEF Memory, Types, Phased

\* A tripwire reacts on the edge only: not if the check before, of whichever
\* task, found it met, and not again after a restart; unless a create or a clear
\* crossed a step at the watch.
THEOREM EdgesFireOnce == Spec => EdgeOnly
  <1>1. ASSUME Types, Kept, Memory, [Next]_vars, NEW t \in Tasks, Starts(t, "hooks"),
               task[t].copy.set.trigger = "met", file'[task[t].id].status # "expired",
               task[t].id \notin crossed
        PROVE  ~sawMet[task[t].id]
    <2>1. /\ task[t].id \in Ids /\ task[t].copy \in Watch /\ Remembers(task[t].id, task[t].copy)
          /\ file \in [Ids -> Watch \cup {NoWatch}]
      BY <1>1, CopyRemembers DEF Starts, Types, TypeOK
    <2>2. ~Expire(t)
      <3>1. Finished(task[t].copy, "expired", "deadline", Result(t)).status = "expired"
        BY <2>1 DEF Finished, Watch
      <3>. QED  BY <1>1, <2>1, <3>1 DEF Expire, Write
    <2>3. Fire(t)
      BY <1>1, <2>2, StartsBy
    <2>. QED  BY <1>1, <2>1, <2>3 DEF Fire, FiresOn, Remembers
  <1>2. Types /\ Kept /\ Memory /\ [Next]_vars =>
          [\A t \in Tasks :
             Starts(t, "hooks") /\ task[t].copy.set.trigger = "met" /\ task[t].id \notin crossed
               => file'[task[t].id].status = "expired" \/ ~sawMet[task[t].id]]_vars
    BY <1>1
  <1>. QED  BY <1>2, MemoryInvariant, PTL DEF Spec, EdgeOnly

\* on_stalled is told once in a stall episode, which an observed change, a fire,
\* or an edit of the threshold ends; unless a create or a clear crossed.
THEOREM StallsToldOnce == Spec => StallToldOnce
  <1>1. ASSUME Types, Kept, Memory, [Next]_vars, NEW t \in Tasks, Starts(t, "stall"),
               task[t].id \notin crossed
        PROVE  ~told[task[t].id]
    <2>1. Remembers(task[t].id, task[t].copy)
      BY <1>1, CopyRemembers DEF Starts
    <2>2. Stall(t)
      BY <1>1, StartsBy
    <2>. QED  BY <2>1, <2>2 DEF Stall, Stalls, Remembers
  <1>2. Types /\ Kept /\ Memory /\ [Next]_vars =>
          [\A t \in Tasks :
             Starts(t, "stall") /\ task[t].id \notin crossed => ~told[task[t].id]]_vars
    BY <1>1
  <1>. QED  BY <1>2, MemoryInvariant, PTL DEF Spec, StallToldOnce
=============================================================================
