-------------------------- MODULE SchedulerProofs --------------------------
(* Theorems about the scheduler, for every table, any number of instances  *)
(* and every combination of faults.                                        *)
EXTENDS Scheduler, TLAPS

USE SchedulerAssumption

(***************************************************************************)
(* Arithmetic of slots.                                                    *)
(***************************************************************************)

\* The slot after a time is a later time.
LEMMA SlotAfter ==
  ASSUME NEW p \in Nat \ {0}, NEW t \in Nat
  PROVE  (t \div p + 1) * p \in Nat /\ (t \div p + 1) * p > t
  OBVIOUS

LEMMA NextFireType ==
  ASSUME NEW sched \in Schedules, NEW t \in Nat
  PROVE  NextFire(sched, t) \in Nat
  <1>1. CASE sched.cron
    BY <1>1, SlotAfter DEF NextFire, Schedules
  <1>2. CASE ~sched.cron
    BY <1>2 DEF NextFire, Schedules
  <1>. QED  BY <1>1, <1>2

LEMMA NextFireLater ==
  ASSUME NEW sched \in Schedules, NEW t \in Nat, sched.cron
  PROVE  NextFire(sched, t) > t
  BY SlotAfter DEF NextFire, Schedules

(***************************************************************************)
(* Types.                                                                  *)
(***************************************************************************)

LEMMA CountType ==
  ASSUME NEW r \in Rows, NEW n \in Nat
  PROVE  [r EXCEPT !.count = n] \in Rows
  BY DEF Rows

LEMMA PutRow ==
  ASSUME TypeOK, NEW i \in Ids, NEW r \in Rows \cup {NoRow}, jobs' = [jobs EXCEPT ![i] = r]
  PROVE  jobs' \in [Ids -> Rows \cup {NoRow}]
  BY DEF TypeOK

LEMMA PutFire ==
  ASSUME TypeOK, NEW s \in Instances, NEW i \in Ids, NEW f \in Fires \cup {NoFire},
         fire' = [fire EXCEPT ![s][i] = f]
  PROVE  fire' \in [Instances -> [Ids -> Fires \cup {NoFire}]]
  BY DEF TypeOK, Fires

LEMMA PutPhase ==
  ASSUME TypeOK, NEW s \in Instances, NEW i \in Ids, fire[s][i] # NoFire,
         NEW phase \in {"posted", "turn", "ok", "failed", "counted"}, SetPhase(s, i, phase)
  PROVE  fire' \in [Instances -> [Ids -> Fires \cup {NoFire}]]
  BY DEF TypeOK, SetPhase, Fires

LEMMA RecoverType ==
  ASSUME TypeOK, RecoverMissedFires
  PROVE  /\ jobs' \in [Ids -> Rows \cup {NoRow}]
         /\ fate' \in [Numbers -> {"none", "live", "edited", "canceled", "stale", "fired", "expired"}]
  <1>1. clock \in Nat
    BY DEF TypeOK
  <1>2. ASSUME NEW i \in Ids, Stale(i)
        PROVE  [jobs[i] EXCEPT !.next = NextFire(jobs[i].sched, clock)] \in Rows
    <2>1. jobs[i] \in Rows
      BY <1>2 DEF TypeOK, Stale
    <2>2. NextFire(jobs[i].sched, clock) \in Nat
      BY <1>1, <2>1, NextFireType DEF Rows
    <2>. QED  BY <2>1, <2>2 DEF Rows
  <1>. QED  BY <1>2 DEF TypeOK, RecoverMissedFires

\* The two ways a turn stays unsettled, and the steps that are without it.
LEMMA DroppedType ==
  ASSUME TypeOK, NEW s \in Instances, Dropped(s)
  PROVE  /\ unsettled' \in [Numbers -> Nat]
         /\ \A n \in Numbers : unsettled'[n] >= unsettled[n]
  BY DEF TypeOK, Dropped

LEMMA LeavesType ==
  ASSUME TypeOK, NEW s \in Instances, NEW i \in Ids, fire[s][i] \in Fires,
         LeavesUnsettled(s, i)
  PROVE  /\ unsettled' \in [Numbers -> Nat]
         /\ \A n \in Numbers : unsettled'[n] >= unsettled[n]
  <1>1. fire[s][i].row.birth \in Numbers
    BY DEF Fires, Rows
  <1>. QED  BY <1>1 DEF TypeOK, LeavesUnsettled, Fired

LEMMA StepType ==
  ASSUME TypeOK, [Next]_vars
  PROVE  TypeOK'
  <1>. USE DEF TypeOK, loop, history
  <1>1. CASE Tick
    BY <1>1 DEF Tick
  <1>2. ASSUME NEW i \in Ids, NEW sched \in Schedules, NEW limit \in Limits, NEW ttl \in Lifetimes,
               AddJob(i, sched, limit, ttl)
        PROVE  TypeOK'
    <2>1. NextFire(sched, clock) \in Nat
      BY NextFireType
    <2>2. editions + 1 \in Numbers
      BY <1>2 DEF AddJob, Numbers
    <2>3. [sched |-> sched, next |-> NextFire(sched, clock), limit |-> limit,
           until |-> IF ttl = NoLimit THEN NoLimit ELSE clock + ttl,
           count |-> 0, edition |-> editions + 1, birth |-> editions + 1] \in Rows
      BY <2>1, <2>2 DEF Rows
    <2>4. jobs' \in [Ids -> Rows \cup {NoRow}]
      BY <1>2, <2>3, PutRow DEF AddJob
    <2>5. fate' \in [Numbers -> {"none", "live", "edited", "canceled", "stale", "fired", "expired"}]
          /\ editions' \in 0 .. MaxEditions
      BY <1>2, <2>2 DEF AddJob, Numbers
    <2>. QED  BY <1>2, <2>4, <2>5 DEF AddJob
  <1>3. ASSUME NEW i \in Ids, NEW sched \in Schedules, UpdateJob(i, sched)
        PROVE  TypeOK'
    <2>1. NextFire(sched, clock) \in Nat
      BY NextFireType
    <2>2. editions + 1 \in Numbers
      BY <1>3 DEF UpdateJob, Numbers
    <2>3. jobs[i] \in Rows
      BY <1>3 DEF UpdateJob
    <2>4. [jobs[i] EXCEPT !.sched = sched, !.edition = editions + 1,
                          !.next = NextFire(sched, clock)] \in Rows
      BY <2>1, <2>2, <2>3 DEF Rows
    <2>5. jobs' \in [Ids -> Rows \cup {NoRow}]
      BY <1>3, <2>4, PutRow DEF UpdateJob
    <2>6. fate' \in [Numbers -> {"none", "live", "edited", "canceled", "stale", "fired", "expired"}]
      BY <1>3, <2>2, <2>3 DEF UpdateJob, Rows
    <2>7. editions' \in 0 .. MaxEditions
      BY <1>3 DEF UpdateJob
    <2>. QED  BY <1>3, <2>5, <2>6, <2>7 DEF UpdateJob
  <1>4. ASSUME NEW i \in Ids, CancelJob(i)
        PROVE  TypeOK'
    BY <1>4 DEF CancelJob, Remove
  <1>5. ASSUME NEW s \in Instances, Start(s)
        PROVE  TypeOK'
    BY <1>5, RecoverType DEF Start, Acquire
  <1>6. ASSUME NEW s \in Instances, RetryLock(s)
        PROVE  TypeOK'
    BY <1>6, RecoverType DEF RetryLock, Acquire
  <1>7. ASSUME NEW s \in Instances, Stop(s)
        PROVE  TypeOK'
    BY <1>7 DEF Stop, Fault
  <1>8. ASSUME NEW s \in Instances, Release(s)
        PROVE  TypeOK'
    <2>1. fire' \in [Instances -> [Ids -> Fires \cup {NoFire}]]
      BY <1>8 DEF Release
    <2>2. unsettled' \in [Numbers -> Nat]
      BY <1>8, DroppedType DEF Release
    <2>. QED  BY <1>8, <2>1, <2>2 DEF Release
  <1>9. ASSUME NEW s \in Instances, Crash(s)
        PROVE  TypeOK'
    <2>1. fire' \in [Instances -> [Ids -> Fires \cup {NoFire}]]
      BY <1>9 DEF Crash
    <2>2. unsettled' \in [Numbers -> Nat]
      BY <1>9, DroppedType DEF Crash
    <2>3. faults' \in 0 .. MaxFaults
      BY <1>9 DEF Crash, Fault
    <2>4. /\ state' \in [Instances -> {"off", "waiting", "polling", "stopping"}]
          /\ owner' \in Instances \cup {NoOwner} /\ inflight' \in [Instances -> SUBSET Ids]
          /\ due' \in [Instances -> SUBSET [id : Ids, row : Rows]]
      BY <1>9 DEF Crash
    <2>. QED  BY <1>9, <2>1, <2>2, <2>3, <2>4 DEF Crash
  <1>10. ASSUME NEW s \in Instances, Select(s)
         PROVE  TypeOK'
    <2>1. DueRows(s) \subseteq [id : Ids, row : Rows]
      BY DEF DueRows
    <2>. QED  BY <1>10, <2>1 DEF Select
  <1>11. ASSUME NEW s \in Instances, NEW d \in due[s], Claim(s, d)
         PROVE  TypeOK'
    <2>1. d.id \in Ids /\ d.row \in Rows
      OBVIOUS
    <2>2. NextFire(d.row.sched, clock) \in Nat
      BY <2>1, NextFireType DEF Rows
    <2>3. jobs[d.id] # NoRow => [jobs[d.id] EXCEPT !.next = NextFire(d.row.sched, clock)] \in Rows
      BY <2>1, <2>2 DEF Rows
    <2>5. jobs' \in [Ids -> Rows \cup {NoRow}]
      BY <1>11, <2>1, <2>3 DEF Claim, Reschedule
    <2>6. faults' \in 0 .. MaxFaults
      BY <1>11 DEF Claim, Reschedule, Fault
    <2>7. fire' \in [Instances -> [Ids -> Fires \cup {NoFire}]]
      BY <1>11, <2>1, PutFire DEF Claim, Fires
    <2>4. slots' \subseteq Numbers \X Nat
      BY <1>11, <2>1 DEF Claim, Rows
    <2>. QED  BY <1>11, <2>1, <2>4, <2>5, <2>6, <2>7 DEF Claim, Fires
  <1>12. ASSUME NEW s \in Instances, NEW i \in Ids, FireNext(s, i)
         PROVE  TypeOK'
    <2>. USE DEF InPhase, FireOver, Fault
    <2>0. fire[s][i] # NoFire /\ fire[s][i] \in Fires /\ Fired(s, i) \in Rows
      BY <1>12 DEF FireNext, TurnStarts, TurnEnds, FireRefused, FireRejected, FireTimesOut,
         SettleFailed, SettleOneShot, CountFire, SettleCron, Fires, Fired
    <2>1. CASE TurnStarts(s, i)
      <3>1. Fired(s, i).edition \in Numbers /\ Fired(s, i).birth \in Numbers
        BY <2>0 DEF Rows
      <3>2. fire' \in [Instances -> [Ids -> Fires \cup {NoFire}]]
        BY <2>0, <2>1, PutPhase DEF TurnStarts
      <3>3. turns' \in [Numbers -> Nat] /\ served' \in [Numbers -> Nat]
        BY <2>1, <3>1 DEF TurnStarts
      <3>. QED  BY <2>1, <3>2, <3>3 DEF TurnStarts, Fires
    <2>2. CASE TurnEnds(s, i)
      <3>1. fire' \in [Instances -> [Ids -> Fires \cup {NoFire}]]
        BY <2>0, <2>2, PutPhase DEF TurnEnds
      <3>. QED  BY <2>2, <3>1 DEF TurnEnds, Fires
    <2>3. CASE FireRefused(s, i)
      <3>1. fire' \in [Instances -> [Ids -> Fires \cup {NoFire}]]
        BY <2>0, <2>3, PutPhase DEF FireRefused
      <3>. QED  BY <2>3, <3>1 DEF FireRefused, Fires
    <2>4. CASE FireRejected(s, i)
      <3>1. fire' \in [Instances -> [Ids -> Fires \cup {NoFire}]]
        BY <2>0, <2>4, PutPhase DEF FireRejected
      <3>2. excused' \subseteq Numbers
        BY <2>0, <2>4 DEF FireRejected, Rows
      <3>. QED  BY <2>4, <3>1, <3>2 DEF FireRejected
    <2>5. CASE FireTimesOut(s, i)
      <3>1. fire' \in [Instances -> [Ids -> Fires \cup {NoFire}]]
        BY <2>0, <2>5, PutPhase DEF FireTimesOut
      <3>2. unsettled' \in [Numbers -> Nat]
        BY <2>0, <2>5, LeavesType DEF FireTimesOut
      <3>. QED  BY <2>5, <3>1, <3>2 DEF FireTimesOut
    <2>6. CASE SettleFailed(s, i)
      BY <2>6 DEF SettleFailed
    <2>7. CASE SettleOneShot(s, i)
      <3>1. jobs' \in [Ids -> Rows \cup {NoRow}]
        BY <2>7, PutRow DEF SettleOneShot, Remove
      <3>2. fate' \in [Numbers -> {"none", "live", "edited", "canceled", "stale", "fired", "expired"}]
        BY <2>7 DEF SettleOneShot, Remove, Matches, Rows
      <3>3. fire' \in [Instances -> [Ids -> Fires \cup {NoFire}]]
        BY <2>7, PutFire DEF SettleOneShot
      <3>4. excused' \subseteq Numbers
        BY <2>7 DEF SettleOneShot, SameDate, Rows
      <3>5. inflight' \in [Instances -> SUBSET Ids] /\ faults' \in 0 .. MaxFaults
        BY <2>7 DEF SettleOneShot
      <3>. QED  BY <2>7, <3>1, <3>2, <3>3, <3>4, <3>5 DEF SettleOneShot
    <2>8. CASE CountFire(s, i)
      <3>1. ASSUME jobs[i] # NoRow
            PROVE  [jobs[i] EXCEPT !.count = jobs[i].count + 1] \in Rows
        <4>1. jobs[i] \in Rows
          BY <3>1
        <4>2. jobs[i].count + 1 \in Nat
          BY <4>1 DEF Rows
        <4>. QED  BY <4>1, <4>2, CountType
      <3>2. jobs' \in [Ids -> Rows \cup {NoRow}]
        BY <2>8, <3>1 DEF CountFire
      <3>3. ASSUME NEW n \in Nat, Counted(s, i, n)
            PROVE  fire' \in [Instances -> [Ids -> Fires \cup {NoFire}]]
        <4>1. [row |-> [fire[s][i].row EXCEPT !.count = n], phase |-> "counted"] \in Fires
          BY <2>0, CountType DEF Fires
        <4>. QED  BY <3>3, <4>1, PutFire DEF Counted
      <3>4. jobs[i] # NoRow => jobs[i].count + 1 \in Nat
        BY DEF Rows
      <3>5. fire' \in [Instances -> [Ids -> Fires \cup {NoFire}]]
        BY <2>8, <3>3, <3>4 DEF CountFire
      <3>6. unsettled' \in [Numbers -> Nat] /\ faults' \in 0 .. MaxFaults
        BY <2>0, <2>8, LeavesType DEF CountFire
      <3>. QED  BY <2>8, <3>2, <3>5, <3>6 DEF CountFire
    <2>9. CASE SettleCron(s, i)
      <3>1. jobs' \in [Ids -> Rows \cup {NoRow}]
        BY <2>9, PutRow DEF SettleCron, Remove
      <3>2. fate' \in [Numbers -> {"none", "live", "edited", "canceled", "stale", "fired", "expired"}]
        BY <2>9 DEF SettleCron, Remove, Rows
      <3>3. fire' \in [Instances -> [Ids -> Fires \cup {NoFire}]]
        BY <2>9, PutFire DEF SettleCron
      <3>4. unsettled' \in [Numbers -> Nat] /\ faults' \in 0 .. MaxFaults
        BY <2>0, <2>9, LeavesType DEF SettleCron
      <3>5. excused' \subseteq Numbers /\ inflight' \in [Instances -> SUBSET Ids]
        BY <2>9 DEF SettleCron, Rows
      <3>. QED  BY <2>9, <3>1, <3>2, <3>3, <3>4, <3>5 DEF SettleCron
    <2>. QED  BY <1>12, <2>1, <2>2, <2>3, <2>4, <2>5, <2>6, <2>7, <2>8, <2>9 DEF FireNext
  <1>13. CASE UNCHANGED vars
    BY <1>13 DEF vars
  <1>. QED
    BY <1>1, <1>2, <1>3, <1>4, <1>5, <1>6, <1>7, <1>8, <1>9, <1>10, <1>11, <1>12, <1>13
       DEF Next, EditNext, InstanceNext

\* Every variable keeps its type.
THEOREM TypeCorrect == Spec => []TypeOK
  <1>1. Init => TypeOK
    BY DEF Init, TypeOK, Numbers
  <1>. QED  BY <1>1, StepType, PTL DEF Spec

(***************************************************************************)
(* Ownership and single flight.                                            *)
(***************************************************************************)

Busy(s) == due[s] # {} \/ \E i \in Ids : fire[s][i] # NoFire

\* An instance that polls, has rows selected or fires in flight owns the lock.
Owned == \A s \in Instances : state[s] \in {"polling", "stopping"} \/ Busy(s) => owner = s

\* The in-flight set names the fires, and what is selected is not in flight.
Flight == \A s \in Instances :
  /\ \A i \in Ids : i \in inflight[s] <=> fire[s][i] # NoFire
  /\ \A d \in due[s] : d.id \notin inflight[s] /\ \A e \in due[s] : d.id = e.id => d = e

LEMMA OwnedStep ==
  ASSUME TypeOK, Owned, [Next]_vars
  PROVE  Owned'
  <1>. USE DEF Owned, Busy
  <1>1. CASE UNCHANGED <<state, owner, due, fire>>
    BY <1>1
  <1>2. ASSUME NEW s \in Instances, Start(s) \/ RetryLock(s)
        PROVE  Owned'
    <2>1. CASE Acquire(s) /\ UNCHANGED <<due, fire>>
      BY <2>1 DEF Acquire, TypeOK
    <2>2. CASE state' = [state EXCEPT ![s] = "waiting"] /\ UNCHANGED <<owner, due, fire>>
      BY <2>2 DEF TypeOK
    <2>. QED  BY <1>2, <2>1, <2>2 DEF Start, RetryLock
  <1>3. ASSUME NEW s \in Instances, Stop(s)
        PROVE  Owned'
    BY <1>3 DEF Stop, TypeOK
  <1>4. ASSUME NEW s \in Instances, Release(s)
        PROVE  Owned'
    BY <1>4 DEF Release, Yielded, TypeOK
  <1>5. ASSUME NEW s \in Instances, Crash(s)
        PROVE  Owned'
    BY <1>5 DEF Crash, TypeOK
  <1>6. ASSUME NEW s \in Instances, Select(s)
        PROVE  Owned'
    BY <1>6 DEF Select, TypeOK
  <1>7. ASSUME NEW s \in Instances, NEW d \in due[s], Claim(s, d)
        PROVE  Owned'
    <2>1. owner = s
      OBVIOUS
    <2>2. \A r \in Instances \ {s} : due'[r] = due[r] /\ fire'[r] = fire[r]
      BY <1>7 DEF Claim, TypeOK
    <2>. QED  BY <1>7, <2>1, <2>2 DEF Claim
  <1>8. ASSUME NEW s \in Instances, NEW i \in Ids, FireNext(s, i)
        PROVE  Owned'
    <2>1. fire[s][i] # NoFire /\ UNCHANGED <<state, owner, due>>
      BY <1>8 DEF FireNext, TurnStarts, TurnEnds, FireRefused, FireRejected, FireTimesOut,
         SettleFailed, SettleOneShot, CountFire, SettleCron, InPhase, loop
    <2>2. \A r \in Instances \ {s} : fire'[r] = fire[r]
      BY <1>8 DEF FireNext, TurnStarts, TurnEnds, FireRefused, FireRejected, FireTimesOut,
         SettleFailed, SettleOneShot, CountFire, SettleCron, SetPhase, FireOver, Counted, TypeOK
    <2>. QED  BY <2>1, <2>2
  <1>. QED
    BY <1>1, <1>2, <1>3, <1>4, <1>5, <1>6, <1>7, <1>8
       DEF Next, EditNext, InstanceNext, Tick, AddJob, UpdateJob, CancelJob, vars, loop

\* A fire task is only there or gone when it is claimed, settled or lost; the
\* in-flight set follows it.
LEMMA FlightStep ==
  ASSUME TypeOK, Flight, [Next]_vars
  PROVE  Flight'
  <1>. USE DEF Flight
  <1>1. CASE UNCHANGED <<due, inflight, fire>>
    BY <1>1
  <1>2. ASSUME NEW s \in Instances, Release(s) \/ Crash(s)
        PROVE  Flight'
    <2>1. inflight' = [inflight EXCEPT ![s] = {}] /\ due'[s] = {}
      BY <1>2 DEF Release, Crash, Yielded, TypeOK
    <2>2. fire' = [fire EXCEPT ![s] = [i \in Ids |-> NoFire]]
      BY <1>2 DEF Release, Crash
    <2>3. \A r \in Instances \ {s} : due'[r] = due[r]
      BY <1>2 DEF Release, Crash, TypeOK
    <2>. QED  BY <2>1, <2>2, <2>3 DEF TypeOK
  <1>3. ASSUME NEW s \in Instances, Select(s)
        PROVE  Flight'
    BY <1>3 DEF Select, DueRows, TypeOK
  <1>4. ASSUME NEW s \in Instances, NEW d \in due[s], Claim(s, d)
        PROVE  Flight'
    <2>1. d.id \in Ids
      BY DEF TypeOK
    <2>2. [row |-> d.row, phase |-> "posted"] # NoFire
      BY SentinelAssumption DEF TypeOK, Fires
    <2>. QED  BY <1>4, <2>1, <2>2 DEF Claim, TypeOK
  <1>5. ASSUME NEW s \in Instances, NEW i \in Ids, FireNext(s, i)
        PROVE  Flight'
    <2>1. fire[s][i] # NoFire /\ fire[s][i].row \in Rows /\ UNCHANGED due
      BY <1>5 DEF FireNext, TurnStarts, TurnEnds, FireRefused, FireRejected, FireTimesOut,
         SettleFailed, SettleOneShot, CountFire, SettleCron, InPhase, loop, TypeOK, Fires
    <2>2. CASE FireOver(s, i)
      BY <2>1, <2>2 DEF FireOver, TypeOK
    <2>3. ASSUME NEW f \in Fires, fire' = [fire EXCEPT ![s][i] = f], UNCHANGED inflight
          PROVE  Flight'
      BY <2>1, <2>3, SentinelAssumption DEF TypeOK
    <2>4. ASSUME NEW phase \in {"turn", "ok", "failed"}, SetPhase(s, i, phase), UNCHANGED inflight
          PROVE  Flight'
      <3>1. [fire[s][i] EXCEPT !.phase = phase] \in Fires
        BY <2>1 DEF TypeOK, Fires
      <3>. QED  BY <2>3, <2>4, <3>1 DEF SetPhase
    <2>5. ASSUME NEW n \in Nat, Counted(s, i, n), UNCHANGED inflight
          PROVE  Flight'
      <3>1. [row |-> [fire[s][i].row EXCEPT !.count = n], phase |-> "counted"] \in Fires
        BY <2>1, CountType DEF Fires
      <3>. QED  BY <2>3, <2>5, <3>1 DEF Counted
    <2>6. CASE CountFire(s, i)
      <3>1. jobs[i] # NoRow => jobs[i].count + 1 \in Nat
        BY DEF TypeOK, Rows
      <3>. QED  BY <2>5, <2>6, <3>1 DEF CountFire, loop
    <2>. QED
      BY <1>5, <2>2, <2>4, <2>6 DEF FireNext, TurnStarts, TurnEnds, FireRefused, FireRejected,
         FireTimesOut, SettleFailed, SettleOneShot, SettleCron, loop
  <1>. QED
    BY <1>1, <1>2, <1>3, <1>4, <1>5
       DEF Next, EditNext, InstanceNext, Tick, AddJob, UpdateJob, CancelJob, Start, RetryLock, Stop, vars, loop

\* One instance fires at a time: whoever polls, or still waits for an answer,
\* holds the lock.
THEOREM OneOwner == Spec => []OwnerFires
  <1>1. Init => Owned
    BY DEF Init, Owned, Busy
  <1>2. Owned => OwnerFires
    BY DEF Owned, Busy, OwnerFires
  <1>. QED  BY <1>1, <1>2, TypeCorrect, OwnedStep, PTL DEF Spec

\* A fire that changes is gone, was claimed, or took a step of its own.
LEMMA FireChanges ==
  ASSUME TypeOK, [Next]_vars, NEW s \in Instances, NEW i \in Ids, fire'[s][i] # fire[s][i]
  PROVE  \/ fire'[s][i] = NoFire
         \/ \E d \in due[s] : Claim(s, d) /\ d.id = i
         \/ FireNext(s, i) /\ fire[s][i] # NoFire
  <1>1. ~UNCHANGED fire
    OBVIOUS
  <1>2. ASSUME NEW r \in Instances, Release(r) \/ Crash(r)
        PROVE  fire'[s][i] = NoFire
    <2>1. fire' = [fire EXCEPT ![r] = [k \in Ids |-> NoFire]]
      BY <1>2 DEF Release, Crash
    <2>. QED  BY <2>1 DEF TypeOK
  <1>3. ASSUME NEW r \in Instances, NEW d \in due[r], Claim(r, d)
        PROVE  r = s /\ d.id = i
    BY <1>3 DEF Claim, TypeOK
  <1>4. ASSUME NEW r \in Instances, NEW k \in Ids, FireNext(r, k)
        PROVE  r = s /\ k = i /\ fire[s][i] # NoFire
    <2>1. fire[r][k] # NoFire
      BY <1>4 DEF FireNext, TurnStarts, TurnEnds, FireRefused, FireRejected, FireTimesOut,
         SettleFailed, SettleOneShot, CountFire, SettleCron, InPhase
    <2>2. ASSUME NEW f, fire' = [fire EXCEPT ![r][k] = f]
          PROVE  r = s /\ k = i
      BY <2>2 DEF TypeOK
    <2>3. \E f : fire' = [fire EXCEPT ![r][k] = f]
      BY <1>4, Zenon DEF FireNext, TurnStarts, TurnEnds, FireRefused, FireRejected, FireTimesOut,
         SettleFailed, SettleOneShot, CountFire, SettleCron, SetPhase, FireOver, Counted
    <2>. QED  BY <2>1, <2>2, <2>3
  <1>. QED
    BY <1>1, <1>2, <1>3, <1>4
       DEF Next, EditNext, InstanceNext, Tick, AddJob, UpdateJob, CancelJob, Start, RetryLock, Stop,
           Select, vars

\* The steps of a fire: it goes on with the row it has, is counted, or is over.
LEMMA FireSteps ==
  ASSUME TypeOK, NEW s \in Instances, NEW i \in Ids, FireNext(s, i)
  PROVE  \/ fire'[s][i] = NoFire
         \/ /\ fire'[s][i] \in Fires /\ fire'[s][i].row.next = fire[s][i].row.next
            /\ fire'[s][i].row.edition = fire[s][i].row.edition
            /\ \/ TurnStarts(s, i) /\ fire'[s][i].phase = "turn"
               \/ FireRejected(s, i)
               \/ fire[s][i].phase = "turn" /\ fire'[s][i].phase = "ok"
               \/ fire[s][i].phase = "ok" /\ fire'[s][i].phase = "counted"
               \/ fire'[s][i].phase = "failed"
  <1>1. fire[s][i] \in Fires
    BY DEF FireNext, TurnStarts, TurnEnds, FireRefused, FireRejected, FireTimesOut,
       SettleFailed, SettleOneShot, CountFire, SettleCron, InPhase, TypeOK
  <1>2. CASE FireOver(s, i)
    BY <1>2 DEF FireOver, TypeOK
  <1>3. ASSUME NEW phase \in {"turn", "ok", "failed"}, SetPhase(s, i, phase)
        PROVE  fire'[s][i] \in Fires /\ fire'[s][i].row = fire[s][i].row /\ fire'[s][i].phase = phase
    BY <1>1, <1>3 DEF SetPhase, TypeOK, Fires
  <1>4. CASE CountFire(s, i)
    <2>0. jobs[i] # NoRow => jobs[i].count + 1 \in Nat
      BY DEF TypeOK, Rows
    <2>1. PICK n \in Nat : Counted(s, i, n)
      BY <1>4, <2>0 DEF CountFire
    <2>2. fire'[s][i] = [row |-> [fire[s][i].row EXCEPT !.count = n], phase |-> "counted"]
      BY <2>1 DEF Counted, TypeOK
    <2>3. [fire[s][i].row EXCEPT !.count = n] \in Rows
      BY <1>1, CountType DEF Fires
    <2>. QED  BY <1>1, <1>4, <2>2, <2>3 DEF CountFire, InPhase, Fires, Rows
  <1>. QED
    BY <1>2, <1>3, <1>4 DEF FireNext, TurnStarts, TurnEnds, FireRefused, FireRejected,
       FireTimesOut, SettleFailed, SettleOneShot, SettleCron, InPhase

\* Only a claim makes a fire, or puts one in the phase "posted".
LEMMA PostedByClaim ==
  ASSUME TypeOK, [Next]_vars, NEW s \in Instances, NEW i \in Ids,
         fire'[s][i] # fire[s][i], fire'[s][i] # NoFire,
         fire'[s][i].phase = "posted" \/ fire[s][i] = NoFire
  PROVE  \E d \in due[s] : Claim(s, d) /\ d.id = i
  <1>1. CASE FireNext(s, i) /\ fire[s][i] # NoFire
    <2>1. ~FireRejected(s, i)
      BY <1>1 DEF FireRejected, SetPhase, TypeOK, Fires
    <2>. QED  BY <1>1, <2>1, FireSteps
  <1>. QED  BY <1>1, FireChanges

\* A job never fires twice at a time, whichever instances poll.
THEOREM FiresAlone == Spec => SingleFlight
  <1>1. Init => Owned /\ Flight
    BY DEF Init, Owned, Flight, Busy
  <1>2. TypeOK /\ TypeOK' /\ Owned /\ Flight /\ [Next]_vars => Owned' /\ Flight'
    BY OwnedStep, FlightStep
  <1>3. ASSUME TypeOK, Owned, Flight, Flight', [Next]_vars
        PROVE  [\A s \in Instances, i \in Ids :
                  i \in inflight'[s] /\ fire'[s][i] # fire[s][i] /\ fire'[s][i].phase = "posted" =>
                    \A r \in Instances : fire[r][i] = NoFire]_vars
    <2>1. ASSUME NEW s \in Instances, NEW i \in Ids, NEW r \in Instances,
                 i \in inflight'[s], fire'[s][i] # fire[s][i], fire'[s][i].phase = "posted"
          PROVE  fire[r][i] = NoFire
      <3>1. fire'[s][i] # NoFire
        BY <1>3, <2>1 DEF Flight
      <3>2. PICK d \in due[s] : Claim(s, d) /\ d.id = i
        BY <1>3, <2>1, <3>1, PostedByClaim
      <3>3. fire[s][i] = NoFire
        BY <1>3, <3>2 DEF Flight
      <3>4. r # s => fire[r][i] = NoFire
        BY <1>3, <3>2 DEF Owned, Busy
      <3>. QED  BY <3>3, <3>4
    <2>. QED  BY <2>1
  <1>. QED  BY <1>1, <1>2, <1>3, TypeCorrect, PTL DEF Spec, SingleFlight

(***************************************************************************)
(* Slots.                                                                  *)
(***************************************************************************)

\* Every claimed slot is of a known edition, and has come.
SlotsKnown == \A n \in Numbers, t \in Nat : <<n, t>> \in slots => n <= editions /\ t <= clock

\* The rows of the table and the selected ones are of known editions, and an
\* edition belongs to one id.
OneId ==
  /\ \A i \in Ids : jobs[i] # NoRow => jobs[i].edition <= editions
  /\ \A i, k \in Ids : jobs[i] # NoRow /\ jobs[k] # NoRow /\ jobs[i].edition = jobs[k].edition => i = k
  /\ \A s \in Instances : \A d \in due[s] :
       /\ d.row.edition <= editions /\ d.row.next <= clock
       /\ \A i \in Ids : jobs[i] # NoRow /\ jobs[i].edition = d.row.edition => i = d.id
       /\ \A e \in due[s] : e.row.edition = d.row.edition => e.id = d.id

\* A row is due after every slot of it that was claimed.
SlotsAhead ==
  /\ \A i \in Ids, t \in Nat : jobs[i] # NoRow /\ <<jobs[i].edition, t>> \in slots => t < jobs[i].next
  /\ \A s \in Instances : \A d \in due[s], t \in Nat : <<d.row.edition, t>> \in slots => t < d.row.next

Slotting == SlotsKnown /\ OneId /\ SlotsAhead

\* What a step does to the table if it adds and edits no row: rows keep their
\* edition, and their next fire too unless it is put off to a later time.
RowsKept ==
  \A i \in Ids : jobs'[i] # NoRow =>
    /\ jobs[i] # NoRow /\ jobs'[i].edition = jobs[i].edition
    /\ jobs'[i].next = jobs[i].next \/ jobs'[i].next > clock

LEMMA RecoverKeeps ==
  ASSUME TypeOK, RecoverMissedFires
  PROVE  RowsKept
  <1> SUFFICES ASSUME NEW i \in Ids, jobs'[i] # NoRow
               PROVE  /\ jobs[i] # NoRow /\ jobs'[i].edition = jobs[i].edition
                      /\ jobs'[i].next = jobs[i].next \/ jobs'[i].next > clock
    BY DEF RowsKept
  <1>1. CASE ~Stale(i)
    BY <1>1 DEF RecoverMissedFires
  <1>2. CASE Stale(i) /\ jobs[i].sched.cron
    <2>1. jobs[i] \in Rows /\ clock \in Nat
      BY <1>2 DEF Stale, TypeOK
    <2>2. jobs'[i] = [jobs[i] EXCEPT !.next = NextFire(jobs[i].sched, clock)]
      BY <1>2 DEF RecoverMissedFires
    <2>. QED  BY <1>2, <2>1, <2>2, NextFireLater DEF Rows, Stale
  <1>. QED  BY <1>1, <1>2 DEF RecoverMissedFires

LEMMA FireKeeps ==
  ASSUME TypeOK, NEW s \in Instances, NEW i \in Ids, FireNext(s, i)
  PROVE  RowsKept /\ UNCHANGED <<clock, editions, slots, due>>
  <1>1. ASSUME UNCHANGED jobs
        PROVE  RowsKept
    BY <1>1 DEF RowsKept
  <1>2. ASSUME NEW why, Remove(i, why)
        PROVE  RowsKept
    BY <1>2 DEF Remove, RowsKept, TypeOK
  <1>3. ASSUME CountFire(s, i)
        PROVE  RowsKept
    <2>1. jobs[i] # NoRow => jobs[i] \in Rows
      BY DEF TypeOK
    <2>2. ASSUME jobs' = [jobs EXCEPT ![i].count = @ + 1], jobs[i] # NoRow
          PROVE  RowsKept
      BY <2>1, <2>2 DEF RowsKept, TypeOK, Rows
    <2>. QED  BY <1>1, <1>3, <2>2 DEF CountFire
  <1>4. RowsKept
    BY <1>1, <1>2, <1>3 DEF FireNext, TurnStarts, TurnEnds, FireRefused, FireRejected,
       FireTimesOut, SettleFailed, SettleOneShot, SettleCron
  <1>5. UNCHANGED <<clock, editions, slots, due>>
    BY DEF FireNext, TurnStarts, TurnEnds, FireRefused, FireRejected, FireTimesOut,
       SettleFailed, SettleOneShot, CountFire, SettleCron, loop, history
  <1>. QED  BY <1>4, <1>5

LEMMA KeptStep ==
  ASSUME TypeOK, TypeOK', Slotting, RowsKept, clock' >= clock, editions' = editions, slots' = slots,
         \A s \in Instances : due'[s] \subseteq due[s]
  PROVE  Slotting'
  <1>. USE DEF TypeOK, RowsKept
  <1>1. SlotsKnown'
    BY DEF Slotting, SlotsKnown, Numbers
  <1>2. OneId'
    <2>1. \A i \in Ids : jobs'[i] # NoRow => jobs[i] # NoRow /\ jobs'[i].edition = jobs[i].edition
      OBVIOUS
    <2>2. /\ \A i \in Ids : jobs'[i] # NoRow => jobs'[i].edition <= editions
          /\ \A i, k \in Ids : jobs'[i] # NoRow /\ jobs'[k] # NoRow /\ jobs'[i].edition = jobs'[k].edition
                              => i = k
      BY <2>1 DEF Slotting, OneId
    <2>3. ASSUME NEW s \in Instances, NEW d \in due'[s]
          PROVE  /\ d.row.edition <= editions /\ d.row.next <= clock'
                 /\ \A i \in Ids : jobs'[i] # NoRow /\ jobs'[i].edition = d.row.edition => i = d.id
                 /\ \A e \in due'[s] : e.row.edition = d.row.edition => e.id = d.id
      <3>1. d \in due[s] /\ d.row \in Rows
        OBVIOUS
      <3>2. d.row.next <= clock'
        BY <3>1 DEF Slotting, OneId, Rows
      <3>. QED  BY <2>1, <3>1, <3>2 DEF Slotting, OneId
    <2>. QED  BY <2>2, <2>3 DEF OneId
  <1>3. SlotsAhead'
    <2>1. ASSUME NEW i \in Ids, NEW t \in Nat, jobs'[i] # NoRow, <<jobs'[i].edition, t>> \in slots
          PROVE  t < jobs'[i].next
      <3>1. jobs[i] \in Rows /\ jobs'[i] \in Rows
        BY <2>1
      <3>2. t <= clock /\ t < jobs[i].next
        BY <2>1, <3>1 DEF Slotting, SlotsKnown, SlotsAhead, Rows
      <3>3. jobs'[i].next \in Nat /\ clock \in Nat
        BY <3>1 DEF Rows
      <3>4. jobs'[i].next = jobs[i].next \/ jobs'[i].next > clock
        BY <2>1
      <3>. QED  BY <3>2, <3>3, <3>4
    <2>. QED  BY <2>1 DEF Slotting, SlotsAhead
  <1>. QED  BY <1>1, <1>2, <1>3 DEF Slotting

\* What an edit does: one id gets a row of a new edition, in place of an old
\* row or of none.
LEMMA EditStep ==
  ASSUME TypeOK, TypeOK', Slotting, NEW i \in Ids,
         jobs'[i] # NoRow => jobs'[i].edition = editions + 1,
         \A k \in Ids \ {i} : jobs'[k] = jobs[k],
         editions' = editions + 1, UNCHANGED <<clock, due, slots>>
  PROVE  Slotting'
  <1>. USE DEF TypeOK
  <1>1. SlotsKnown'
    BY DEF Slotting, SlotsKnown, Numbers
  <1>2. OneId'
    <2>1. \A k \in Ids \ {i} : jobs'[k] # NoRow => jobs'[k].edition <= editions
      BY DEF Slotting, OneId
    <2>2. /\ \A k \in Ids : jobs'[k] # NoRow => jobs'[k].edition <= editions + 1
          /\ \A k, l \in Ids : jobs'[k] # NoRow /\ jobs'[l] # NoRow /\ jobs'[k].edition = jobs'[l].edition
                              => k = l
      <3>0. editions \in Nat
        OBVIOUS
      <3>1. \A k \in Ids \ {i} : jobs'[k] # NoRow => jobs'[k].edition < editions + 1
        <4>1. \A k \in Ids : jobs'[k] # NoRow => jobs'[k].edition \in Nat
          BY DEF Rows, Numbers
        <4>. QED  BY <2>1, <4>1
      <3>2. \A k, l \in Ids \ {i} : jobs'[k] # NoRow /\ jobs'[l] # NoRow
                                   /\ jobs'[k].edition = jobs'[l].edition => k = l
        BY DEF Slotting, OneId
      <3>3. \A k \in Ids : jobs'[k] # NoRow => jobs'[k].edition \in Nat
        BY DEF Rows, Numbers
      <3>4. \A k, l \in Ids : jobs'[k] # NoRow /\ jobs'[l] # NoRow /\ jobs'[k].edition = jobs'[l].edition
                            => k = l
        <4>1. ASSUME NEW k \in Ids \ {i}, jobs'[k] # NoRow, jobs'[i] # NoRow
              PROVE  jobs'[k].edition # jobs'[i].edition
          BY <3>0, <3>1, <3>3, <4>1
        <4>. QED  BY <3>2, <4>1
      <3>5. \A k \in Ids : jobs'[k] # NoRow => jobs'[k].edition <= editions + 1
        <4>1. ASSUME NEW k \in Ids \ {i}, jobs'[k] # NoRow
              PROVE  jobs'[k].edition <= editions + 1
          BY <3>0, <3>1, <3>3, <4>1
        <4>2. jobs'[i] # NoRow => jobs'[i].edition <= editions + 1
          BY <3>0
        <4>. QED  BY <4>1, <4>2
      <3>. QED  BY <3>4, <3>5
    <2>3. ASSUME NEW s \in Instances, NEW d \in due[s]
          PROVE  /\ d.row.edition <= editions + 1 /\ d.row.next <= clock
                 /\ \A k \in Ids : jobs'[k] # NoRow /\ jobs'[k].edition = d.row.edition => k = d.id
                 /\ \A e \in due[s] : e.row.edition = d.row.edition => e.id = d.id
      <3>1. d.row.edition \in Nat /\ d.row.edition <= editions /\ d.row.next <= clock
        BY DEF Slotting, OneId, Rows, Numbers
      <3>2. \A k \in Ids \ {i} : jobs'[k] # NoRow /\ jobs'[k].edition = d.row.edition => k = d.id
        BY DEF Slotting, OneId
      <3>3. \A e \in due[s] : e.row.edition = d.row.edition => e.id = d.id
        BY DEF Slotting, OneId
      <3>. QED  BY <3>1, <3>2, <3>3
    <2>. QED  BY <2>2, <2>3 DEF OneId
  <1>3. SlotsAhead'
    <2>1. \A t \in Nat : <<editions + 1, t>> \notin slots
      BY DEF Slotting, SlotsKnown, Numbers
    <2>. QED  BY <2>1 DEF Slotting, SlotsAhead
  <1>. QED  BY <1>1, <1>2, <1>3 DEF Slotting

LEMMA SelectStep ==
  ASSUME TypeOK, Slotting, NEW s \in Instances, Select(s)
  PROVE  Slotting'
  <1>. USE DEF TypeOK, Select, history
  <1>1. \A d \in due'[s] : /\ d.id \in Ids /\ jobs[d.id] # NoRow /\ d.row = jobs[d.id]
                           /\ d.row.next <= clock
    BY DEF DueRows
  <1>2. \A r \in Instances \ {s} : due'[r] = due[r]
    OBVIOUS
  <1>3. SlotsKnown'
    BY DEF Slotting, SlotsKnown
  <1>4. OneId'
    <2>1. ASSUME NEW d \in due'[s]
          PROVE  /\ d.row.edition <= editions /\ d.row.next <= clock
                 /\ \A i \in Ids : jobs[i] # NoRow /\ jobs[i].edition = d.row.edition => i = d.id
                 /\ \A e \in due'[s] : e.row.edition = d.row.edition => e.id = d.id
      <3>1. d.id \in Ids /\ jobs[d.id] # NoRow /\ d.row = jobs[d.id] /\ d.row.next <= clock
        BY <1>1
      <3>2. \A e \in due'[s] : e.row.edition = d.row.edition => e.id = d.id
        BY <1>1, <3>1 DEF Slotting, OneId
      <3>. QED  BY <3>1, <3>2 DEF Slotting, OneId
    <2>2. UNCHANGED <<jobs, editions, clock>>
      OBVIOUS
    <2>. QED  BY <1>2, <2>1, <2>2 DEF Slotting, OneId
  <1>5. SlotsAhead'
    <2>1. ASSUME NEW d \in due'[s], NEW t \in Nat, <<d.row.edition, t>> \in slots
          PROVE  t < d.row.next
      BY <1>1, <2>1 DEF Slotting, SlotsAhead
    <2>2. UNCHANGED <<jobs, slots>>
      OBVIOUS
    <2>. QED  BY <1>2, <2>1, <2>2 DEF Slotting, SlotsAhead
  <1>. QED  BY <1>3, <1>4, <1>5 DEF Slotting

\* A claimed cron is rescheduled past the slot that is claimed.
LEMMA ClaimStep ==
  ASSUME TypeOK, TypeOK', Owned, Flight, Slotting, "storeFault" \notin Faults,
         NEW s \in Instances, NEW d \in due[s], Claim(s, d)
  PROVE  Slotting'
  <1>. USE DEF TypeOK
  <1>1. d.id \in Ids /\ d.row \in Rows /\ d.row.next <= clock
    BY DEF Slotting, OneId
  <1>2. /\ due'[s] = due[s] \ {d}
        /\ \A r \in Instances \ {s} : due'[r] = {} /\ due[r] = {}
        /\ UNCHANGED <<clock, editions>>
    BY DEF Claim, Owned, Busy
  <1>3. CASE ~d.row.sched.cron
    <2>1. UNCHANGED <<jobs, slots>>
      BY <1>3 DEF Claim
    <2>2. RowsKept /\ clock' >= clock
      BY <1>2, <2>1 DEF RowsKept
    <2>3. \A r \in Instances : due'[r] \subseteq due[r]
      BY <1>2
    <2>. QED  BY <1>2, <2>1, <2>2, <2>3, KeptStep
  <1>4. CASE d.row.sched.cron
    <2>1. slots' = slots \cup {<<d.row.edition, d.row.next>>}
      BY <1>4 DEF Claim
    <2>2. /\ \A i \in Ids \ {d.id} : jobs'[i] = jobs[i]
          /\ jobs'[d.id] # NoRow => /\ jobs[d.id] # NoRow /\ jobs'[d.id].edition = jobs[d.id].edition
                                    /\ jobs'[d.id].next > clock
      <3>1. jobs' = IF jobs[d.id] = NoRow THEN jobs
                    ELSE [jobs EXCEPT ![d.id].next = NextFire(d.row.sched, clock)]
        BY <1>4 DEF Claim, Reschedule, Fault
      <3>2. NextFire(d.row.sched, clock) > clock
        BY <1>1, <1>4, NextFireLater DEF Rows
      <3>3. jobs[d.id] # NoRow => jobs[d.id] \in Rows
        BY <1>1
      <3>. QED  BY <1>1, <3>1, <3>2, <3>3 DEF Rows
    <2>3. SlotsKnown'
      BY <1>1, <1>2, <2>1 DEF Slotting, SlotsKnown, OneId
    <2>4. OneId'
      <3>1. \A i \in Ids : jobs'[i] # NoRow => jobs[i] # NoRow /\ jobs'[i].edition = jobs[i].edition
        BY <2>2
      <3>2. /\ \A i \in Ids : jobs'[i] # NoRow => jobs'[i].edition <= editions
            /\ \A i, k \in Ids : jobs'[i] # NoRow /\ jobs'[k] # NoRow
                                /\ jobs'[i].edition = jobs'[k].edition => i = k
        BY <3>1 DEF Slotting, OneId
      <3>3. ASSUME NEW r \in Instances, NEW e \in due'[r]
            PROVE  /\ e.row.edition <= editions /\ e.row.next <= clock
                   /\ \A i \in Ids : jobs'[i] # NoRow /\ jobs'[i].edition = e.row.edition => i = e.id
                   /\ \A f \in due'[r] : f.row.edition = e.row.edition => f.id = e.id
        <4>1. r = s /\ e \in due[s]
          BY <1>2
        <4>. QED  BY <1>2, <3>1, <4>1 DEF Slotting, OneId
      <3>. QED  BY <1>2, <3>2, <3>3 DEF OneId
    <2>5. ASSUME NEW i \in Ids, NEW t \in Nat, jobs'[i] # NoRow, <<jobs'[i].edition, t>> \in slots'
          PROVE  t < jobs'[i].next
      <3>1. CASE i = d.id
        <4>1. t <= clock
          BY <1>2, <2>3, <2>5 DEF SlotsKnown, Rows
        <4>. QED  BY <1>1, <2>2, <2>5, <3>1, <4>1 DEF Rows
      <3>2. CASE i # d.id
        BY <2>1, <2>2, <2>5, <3>2 DEF Slotting, SlotsAhead, OneId
      <3>. QED  BY <3>1, <3>2
    <2>6. ASSUME NEW e \in due[s] \ {d}, NEW t \in Nat, <<e.row.edition, t>> \in slots'
          PROVE  t < e.row.next
      <3>1. e.row.edition # d.row.edition
        BY <2>6 DEF Flight, Slotting, OneId
      <3>. QED  BY <2>1, <2>6, <3>1 DEF Slotting, SlotsAhead
    <2>7. ASSUME NEW r \in Instances, NEW e \in due'[r]
          PROVE  e \in due[s] \ {d}
      <3>1. CASE r = s
        BY <1>2, <3>1
      <3>2. CASE r # s
        BY <1>2, <3>2
      <3>. QED  BY <3>1, <3>2
    <2>8. SlotsAhead'
      BY <2>5, <2>6, <2>7 DEF SlotsAhead
    <2>. QED  BY <2>3, <2>4, <2>8 DEF Slotting
  <1>. QED  BY <1>3, <1>4

LEMMA SlottingStep ==
  ASSUME TypeOK, TypeOK', Owned, Flight, Slotting, "storeFault" \notin Faults, [Next]_vars
  PROVE  Slotting'
  <1>. USE DEF loop, history
  <1>1. ASSUME RowsKept, clock' >= clock, UNCHANGED <<editions, slots>>,
               \A s \in Instances : due'[s] \subseteq due[s]
        PROVE  Slotting'
    BY <1>1, KeptStep
  <1>2. clock >= clock
    BY DEF TypeOK
  <1>3. CASE Tick
    BY <1>1, <1>3 DEF Tick, RowsKept, TypeOK
  <1>4. ASSUME NEW i \in Ids, NEW sched \in Schedules, NEW limit \in Limits, NEW ttl \in Lifetimes,
               AddJob(i, sched, limit, ttl)
        PROVE  Slotting'
    <2>1. jobs'[i].edition = editions + 1 /\ \A k \in Ids \ {i} : jobs'[k] = jobs[k]
      BY <1>4 DEF AddJob, TypeOK
    <2>. QED  BY <1>4, <2>1, EditStep DEF AddJob
  <1>5. ASSUME NEW i \in Ids, NEW sched \in Schedules, UpdateJob(i, sched)
        PROVE  Slotting'
    <2>1. jobs[i] \in Rows
      BY <1>5 DEF UpdateJob, TypeOK
    <2>2. jobs'[i].edition = editions + 1 /\ \A k \in Ids \ {i} : jobs'[k] = jobs[k]
      BY <1>5, <2>1 DEF UpdateJob, TypeOK, Rows
    <2>. QED  BY <1>5, <2>2, EditStep DEF UpdateJob
  <1>6. ASSUME NEW i \in Ids, CancelJob(i)
        PROVE  Slotting'
    BY <1>1, <1>2, <1>6 DEF CancelJob, Remove, RowsKept, TypeOK
  <1>7. ASSUME NEW s \in Instances, Start(s) \/ RetryLock(s)
        PROVE  Slotting'
    <2>1. RowsKept
      BY <1>7, RecoverKeeps DEF Start, RetryLock, Acquire, RowsKept
    <2>. QED  BY <1>1, <1>2, <1>7, <2>1 DEF Start, RetryLock, Acquire
  <1>8. ASSUME NEW s \in Instances, Stop(s) \/ Release(s) \/ Crash(s)
        PROVE  Slotting'
    BY <1>1, <1>2, <1>8 DEF Stop, Release, Crash, RowsKept, TypeOK
  <1>9. ASSUME NEW s \in Instances, Select(s)
        PROVE  Slotting'
    BY <1>9, SelectStep
  <1>10. ASSUME NEW s \in Instances, NEW d \in due[s], Claim(s, d)
         PROVE  Slotting'
    BY <1>10, ClaimStep
  <1>11. ASSUME NEW s \in Instances, NEW i \in Ids, FireNext(s, i)
         PROVE  Slotting'
    BY <1>1, <1>2, <1>11, FireKeeps
  <1>12. CASE UNCHANGED vars
    BY <1>1, <1>2, <1>12 DEF vars, RowsKept
  <1>. QED
    BY <1>3, <1>4, <1>5, <1>6, <1>7, <1>8, <1>9, <1>10, <1>11, <1>12
       DEF Next, EditNext, InstanceNext

\* If the writes to jobs.db succeed, no slot of a cron is fired twice.
THEOREM SlotsFireOnce ==
  ASSUME "storeFault" \notin Faults
  PROVE  Spec => SlotOnce
  <1>1. Init => Owned /\ Flight /\ Slotting
    BY DEF Init, Owned, Flight, Busy, Slotting, SlotsKnown, OneId, SlotsAhead
  <1>2. TypeOK /\ TypeOK' /\ Owned /\ Flight /\ Slotting /\ [Next]_vars => Owned' /\ Flight' /\ Slotting'
    BY OwnedStep, FlightStep, SlottingStep
  <1>3. ASSUME TypeOK, Slotting, [Next]_vars
        PROVE  [\A s \in Instances, i \in Ids : NewFire(s, i) /\ fire'[s][i].row.sched.cron =>
                  <<fire'[s][i].row.edition, fire'[s][i].row.next>> \notin slots]_vars
    <2>1. ASSUME NEW s \in Instances, NEW i \in Ids, NewFire(s, i)
          PROVE  <<fire'[s][i].row.edition, fire'[s][i].row.next>> \notin slots
      <3>1. PICK d \in due[s] : Claim(s, d) /\ d.id = i
        BY <1>3, <2>1, PostedByClaim DEF NewFire
      <3>2. fire'[s][i].row = d.row /\ d.row.next \in Nat
        BY <1>3, <3>1 DEF Claim, TypeOK, Rows
      <3>. QED  BY <1>3, <3>2 DEF Slotting, SlotsAhead
    <2>. QED  BY <2>1
  <1>. QED  BY <1>1, <1>2, <1>3, TypeCorrect, PTL DEF Spec, SlotOnce

(***************************************************************************)
(* One-shots that leave as fired have run.                                 *)
(***************************************************************************)

\* A claimed row has come due, and the id's row, if it is another edition by
\* now, is due later than the claimed one was.
Behind(i, r) ==
  /\ r.next <= clock
  /\ jobs[i] # NoRow /\ jobs[i].edition # r.edition => r.next < jobs[i].next

Fresh == \A s \in Instances :
  /\ \A d \in due[s] : Behind(d.id, d.row)
  /\ \A i \in Ids : fire[s][i] # NoFire => Behind(i, fire[s][i].row)

\* A fire whose turn has begun has been counted in the turns of its edition.
Started == \A s \in Instances, i \in Ids :
  fire[s][i] # NoFire /\ fire[s][i].phase \in {"turn", "ok", "counted"}
    => turns[fire[s][i].row.edition] >= 1

\* Every row of the table is an old one that has not moved, or is due later.
RowsMoved ==
  \A i \in Ids : jobs'[i] # NoRow =>
    \/ jobs'[i].next > clock
    \/ jobs[i] # NoRow /\ jobs'[i].edition = jobs[i].edition /\ jobs'[i].next = jobs[i].next

\* An edit that does not name a past time makes a row that is due later.
LEMMA EditIsLater ==
  ASSUME PastDates = FALSE, NEW sched \in Schedules, clock \in Nat, MayEdit(sched)
  PROVE  NextFire(sched, clock) > clock
  <1>1. CASE sched.cron
    BY <1>1, NextFireLater
  <1>2. CASE ~sched.cron
    BY <1>2 DEF NextFire, MayEdit
  <1>. QED  BY <1>1, <1>2

LEMMA MovedStep ==
  ASSUME TypeOK, PastDates = FALSE, [Next]_vars
  PROVE  RowsMoved /\ clock' >= clock
  <1>. USE DEF loop, history
  <1>0. clock \in Nat
    BY DEF TypeOK
  <1>1. RowsKept => RowsMoved
    BY DEF RowsKept, RowsMoved
  <1>2. UNCHANGED jobs => RowsMoved
    BY DEF RowsMoved
  <1>3. UNCHANGED clock => clock' >= clock
    BY <1>0
  <1>4. CASE Tick
    BY <1>0, <1>2, <1>4 DEF Tick
  <1>5. ASSUME NEW i \in Ids, NEW sched \in Schedules, NEW limit \in Limits, NEW ttl \in Lifetimes,
               AddJob(i, sched, limit, ttl)
        PROVE  RowsMoved /\ clock' >= clock
    <2>1. jobs'[i].next > clock /\ \A k \in Ids \ {i} : jobs'[k] = jobs[k]
      BY <1>0, <1>5, EditIsLater DEF AddJob, TypeOK
    <2>. QED  BY <1>3, <1>5, <2>1 DEF AddJob, RowsMoved
  <1>6. ASSUME NEW i \in Ids, NEW sched \in Schedules, UpdateJob(i, sched)
        PROVE  RowsMoved /\ clock' >= clock
    <2>1. jobs[i] \in Rows /\ NextFire(sched, clock) > clock
      BY <1>0, <1>6, EditIsLater DEF UpdateJob, TypeOK
    <2>2. jobs'[i].next > clock /\ \A k \in Ids \ {i} : jobs'[k] = jobs[k]
      BY <1>6, <2>1 DEF UpdateJob, TypeOK, Rows
    <2>. QED  BY <1>3, <1>6, <2>2 DEF UpdateJob, RowsMoved
  <1>7. ASSUME NEW i \in Ids, CancelJob(i)
        PROVE  RowsMoved /\ clock' >= clock
    BY <1>3, <1>7 DEF CancelJob, Remove, RowsMoved, TypeOK
  <1>8. ASSUME NEW s \in Instances, Start(s) \/ RetryLock(s)
        PROVE  RowsMoved /\ clock' >= clock
    BY <1>1, <1>2, <1>3, <1>8, RecoverKeeps DEF Start, RetryLock, Acquire
  <1>9. ASSUME NEW s \in Instances, Stop(s) \/ Release(s) \/ Crash(s) \/ Select(s)
        PROVE  RowsMoved /\ clock' >= clock
    BY <1>2, <1>3, <1>9 DEF Stop, Release, Crash, Select
  <1>10. ASSUME NEW s \in Instances, NEW d \in due[s], Claim(s, d)
         PROVE  RowsMoved /\ clock' >= clock
    <2>1. d.id \in Ids /\ d.row \in Rows
      BY DEF TypeOK
    <2>2. CASE d.row.sched.cron /\ jobs[d.id] # NoRow
               /\ jobs' = [jobs EXCEPT ![d.id].next = NextFire(d.row.sched, clock)]
      <3>1. jobs[d.id] \in Rows /\ NextFire(d.row.sched, clock) > clock
        BY <1>0, <2>1, <2>2, NextFireLater DEF TypeOK, Rows
      <3>2. jobs'[d.id].next > clock /\ \A k \in Ids \ {d.id} : jobs'[k] = jobs[k]
        BY <2>1, <2>2, <3>1 DEF TypeOK, Rows
      <3>. QED  BY <1>3, <1>10, <3>2 DEF Claim, RowsMoved
    <2>. QED  BY <1>2, <1>3, <1>10, <2>2 DEF Claim, Reschedule
  <1>11. ASSUME NEW s \in Instances, NEW i \in Ids, FireNext(s, i)
         PROVE  RowsMoved /\ clock' >= clock
    BY <1>1, <1>3, <1>11, FireKeeps
  <1>12. CASE UNCHANGED vars
    BY <1>2, <1>3, <1>12 DEF vars
  <1>. QED
    BY <1>4, <1>5, <1>6, <1>7, <1>8, <1>9, <1>10, <1>11, <1>12
       DEF Next, EditNext, InstanceNext

LEMMA BehindStep ==
  ASSUME TypeOK, TypeOK', RowsMoved, clock' >= clock, NEW i \in Ids, NEW r \in Rows, Behind(i, r)
  PROVE  /\ r.next <= clock'
         /\ jobs'[i] # NoRow /\ jobs'[i].edition # r.edition => r.next < jobs'[i].next
  <1>1. clock \in Nat /\ clock' \in Nat /\ r.next \in Nat /\ r.next <= clock
    BY DEF TypeOK, Rows, Behind
  <1>2. ASSUME jobs'[i] # NoRow, jobs'[i].edition # r.edition
        PROVE  r.next < jobs'[i].next
    <2>1. jobs'[i].next \in Nat
      BY <1>2 DEF TypeOK, Rows
    <2>2. jobs'[i].next > clock \/ r.next < jobs'[i].next
      BY <1>2 DEF RowsMoved, Behind
    <2>. QED  BY <1>1, <2>1, <2>2
  <1>. QED  BY <1>1, <1>2

\* Where a fire comes from: it was there before, or its row was selected.
LEMMA FireFrom ==
  ASSUME TypeOK, [Next]_vars, NEW s \in Instances, NEW i \in Ids, fire'[s][i] # NoFire
  PROVE  \/ /\ fire[s][i] # NoFire
            /\ fire'[s][i].row.next = fire[s][i].row.next
            /\ fire'[s][i].row.edition = fire[s][i].row.edition
         \/ \E d \in due[s] : d.id = i /\ fire'[s][i].row = d.row
  <1>1. CASE fire'[s][i] = fire[s][i]
    BY <1>1
  <1>2. CASE fire'[s][i] # fire[s][i]
    <2>1. ASSUME NEW d \in due[s], Claim(s, d), d.id = i
          PROVE  fire'[s][i].row = d.row
      BY <2>1 DEF Claim, TypeOK
    <2>. QED  BY <1>2, <2>1, FireChanges, FireSteps
  <1>. QED  BY <1>1, <1>2

\* Where a selected row comes from.
LEMMA DueFrom ==
  ASSUME TypeOK, [Next]_vars, NEW s \in Instances, NEW d \in due'[s]
  PROVE  \/ d \in due[s]
         \/ /\ d.id \in Ids /\ jobs[d.id] # NoRow /\ d.row = jobs[d.id] /\ d.row.next <= clock
            /\ UNCHANGED <<jobs, clock>>
  <1>1. ASSUME NEW r \in Instances, Select(r)
        PROVE  \/ d \in due[s]
               \/ /\ d.id \in Ids /\ jobs[d.id] # NoRow /\ d.row = jobs[d.id] /\ d.row.next <= clock
                  /\ UNCHANGED <<jobs, clock>>
    BY <1>1 DEF Select, DueRows, TypeOK
  <1>2. ASSUME NEW r \in Instances, NEW e \in due[r], Claim(r, e)
        PROVE  d \in due[s]
    BY <1>2 DEF Claim, TypeOK
  <1>3. ASSUME NEW r \in Instances, Crash(r)
        PROVE  d \in due[s]
    BY <1>3 DEF Crash, TypeOK
  <1>4. ASSUME NEW r \in Instances, NEW i \in Ids, FireNext(r, i)
        PROVE  d \in due[s]
    BY <1>4, FireKeeps
  <1>. QED
    BY <1>1, <1>2, <1>3, <1>4
       DEF Next, EditNext, InstanceNext, Tick, AddJob, UpdateJob, CancelJob, Start, RetryLock, Stop,
           Release, vars, loop

LEMMA FreshStep ==
  ASSUME TypeOK, TypeOK', Fresh, PastDates = FALSE, [Next]_vars
  PROVE  Fresh'
  <1>0. RowsMoved /\ clock' >= clock
    BY MovedStep
  <1>1. ASSUME NEW s \in Instances, NEW d \in due'[s]
        PROVE  Behind(d.id, d.row)'
    <2>1. CASE d \in due[s]
      <3>1. d.id \in Ids /\ d.row \in Rows /\ Behind(d.id, d.row)
        BY <2>1 DEF TypeOK, Fresh
      <3>. QED  BY <1>0, <3>1, BehindStep DEF Behind
    <2>2. CASE /\ d.id \in Ids /\ jobs[d.id] # NoRow /\ d.row = jobs[d.id] /\ d.row.next <= clock
               /\ UNCHANGED <<jobs, clock>>
      BY <2>2 DEF Behind
    <2>. QED  BY <2>1, <2>2, DueFrom
  <1>2. ASSUME NEW s \in Instances, NEW i \in Ids, fire'[s][i] # NoFire
        PROVE  Behind(i, fire[s][i].row)'
    <2>1. CASE /\ fire[s][i] # NoFire
               /\ fire'[s][i].row.next = fire[s][i].row.next
               /\ fire'[s][i].row.edition = fire[s][i].row.edition
      <3>1. fire[s][i].row \in Rows /\ Behind(i, fire[s][i].row)
        BY <2>1 DEF TypeOK, Fires, Fresh
      <3>. QED  BY <1>0, <2>1, <3>1, BehindStep DEF Behind
    <2>2. ASSUME NEW d \in due[s], d.id = i, fire'[s][i].row = d.row
          PROVE  Behind(i, fire[s][i].row)'
      <3>1. d.row \in Rows /\ Behind(i, d.row)
        BY <2>2 DEF TypeOK, Fresh
      <3>. QED  BY <1>0, <2>2, <3>1, BehindStep DEF Behind
    <2>. QED  BY <1>2, <2>1, <2>2, FireFrom
  <1>. QED  BY <1>1, <1>2 DEF Fresh

LEMMA TurnsGrow ==
  ASSUME TypeOK, [Next]_vars, NEW n \in Numbers
  PROVE  turns'[n] >= turns[n]
  <1>. turns[n] \in Nat
    BY DEF TypeOK
  <1>1. CASE UNCHANGED turns
    BY <1>1
  <1>2. ASSUME NEW s \in Instances, NEW i \in Ids, TurnStarts(s, i)
        PROVE  turns'[n] >= turns[n]
    BY <1>2 DEF TurnStarts, TypeOK
  <1>3. ASSUME NEW s \in Instances, NEW i \in Ids, FireNext(s, i)
        PROVE  TurnStarts(s, i) \/ UNCHANGED turns
    BY <1>3 DEF FireNext, TurnEnds, FireRefused, FireRejected, FireTimesOut,
       SettleFailed, SettleOneShot, CountFire, SettleCron, history
  <1>. QED
    BY <1>1, <1>2, <1>3
       DEF Next, EditNext, InstanceNext, Tick, AddJob, UpdateJob, CancelJob, Start, RetryLock,
           Stop, Release, Crash, Select, Claim, vars, history

\* A fire moves on to a turn by starting it.
LEMMA StartedStep ==
  ASSUME TypeOK, TypeOK', Started, "rpcError" \notin Faults, [Next]_vars
  PROVE  Started'
  <1> SUFFICES ASSUME NEW s \in Instances, NEW i \in Ids, fire'[s][i] # NoFire,
                      fire'[s][i].phase \in {"turn", "ok", "counted"}
               PROVE  turns'[fire'[s][i].row.edition] >= 1
    BY DEF Started
  <1>1. fire'[s][i].row.edition \in Numbers
    BY DEF TypeOK, Fires, Rows
  <1>2. turns \in [Numbers -> Nat] /\ turns' \in [Numbers -> Nat]
    BY DEF TypeOK
  <1>3. CASE /\ fire[s][i] # NoFire /\ fire[s][i].phase \in {"turn", "ok", "counted"}
             /\ fire'[s][i].row.edition = fire[s][i].row.edition
    <2>1. turns[fire[s][i].row.edition] >= 1
      BY <1>3 DEF Started
    <2>. QED  BY <1>1, <1>2, <1>3, <2>1, TurnsGrow
  <1>4. CASE fire'[s][i] = fire[s][i]
    BY <1>3, <1>4
  <1>5. ASSUME NEW d \in due[s], Claim(s, d), d.id = i
        PROVE  FALSE
    BY <1>5 DEF Claim, TypeOK
  <1>6. CASE FireNext(s, i) /\ fire[s][i] # NoFire
    <2>1. ~FireRejected(s, i)
      BY DEF FireRejected, Fault
    <2>2. CASE TurnStarts(s, i)
      <3>1. fire'[s][i].row.edition = fire[s][i].row.edition
        BY <1>6, FireSteps
      <3>. QED  BY <1>1, <1>2, <2>2, <3>1 DEF TurnStarts, Fired
    <2>. QED  BY <1>3, <1>6, <2>1, <2>2, FireSteps
  <1>. QED  BY <1>4, <1>5, <1>6, FireChanges

LEMMA FiredStep ==
  ASSUME TypeOK, TypeOK', Fresh, Started, FiredHasRun, [Next]_vars
  PROVE  FiredHasRun'
  <1> SUFFICES ASSUME NEW n \in Numbers, fate'[n] = "fired"
               PROVE  turns'[n] >= 1
    BY DEF FiredHasRun
  <1>1. turns[n] \in Nat /\ turns'[n] \in Nat /\ turns'[n] >= turns[n]
    BY TurnsGrow DEF TypeOK
  <1>2. CASE fate[n] = "fired"
    BY <1>1, <1>2 DEF FiredHasRun
  <1>3. ASSUME NEW s \in Instances, NEW i \in Ids, SettleOneShot(s, i), fate[n] # "fired"
        PROVE  turns[n] >= 1
    <2>1. jobs[i] # NoRow /\ jobs[i].next = fire[s][i].row.next /\ n = jobs[i].edition
      BY <1>3 DEF SettleOneShot, Matches, Fired, Remove, TypeOK
    <2>2. fire[s][i] # NoFire /\ fire[s][i].phase = "ok"
      BY <1>3 DEF SettleOneShot, InPhase
    <2>3. fire[s][i].row \in Rows /\ Behind(i, fire[s][i].row)
      BY <2>2 DEF TypeOK, Fires, Fresh
    <2>4. jobs[i].edition = fire[s][i].row.edition
      BY <2>1, <2>3 DEF Behind, Rows
    <2>. QED  BY <2>1, <2>2, <2>4 DEF Started
  <1>4. ASSUME NEW why, NEW i \in Ids, Remove(i, why), why # "fired"
        PROVE  fate[n] = "fired"
    BY <1>4 DEF Remove, TypeOK
  <1>5. ASSUME RecoverMissedFires
        PROVE  fate[n] = "fired"
    BY <1>5 DEF RecoverMissedFires
  <1>6. ASSUME NEW i \in Ids, NEW sched \in Schedules, UpdateJob(i, sched)
        PROVE  fate[n] = "fired"
    BY <1>6 DEF UpdateJob, TypeOK
  <1>7. ASSUME NEW i \in Ids, NEW sched \in Schedules, NEW limit \in Limits, NEW ttl \in Lifetimes,
               AddJob(i, sched, limit, ttl)
        PROVE  fate[n] = "fired"
    BY <1>7 DEF AddJob, TypeOK
  <1>8. ASSUME NEW s \in Instances, NEW i \in Ids, FireNext(s, i)
        PROVE  fate[n] = "fired" \/ SettleOneShot(s, i)
    BY <1>4, <1>8 DEF FireNext, TurnStarts, TurnEnds, FireRefused, FireRejected, FireTimesOut,
       SettleFailed, CountFire, SettleCron, history
  <1>9. fate[n] = "fired" \/ \E s \in Instances, i \in Ids : SettleOneShot(s, i)
    BY <1>4, <1>5, <1>6, <1>7, <1>8
       DEF Next, EditNext, InstanceNext, Tick, CancelJob, Start, RetryLock, Acquire, Stop, Release, Crash,
           Select, Claim, vars, history
  <1>. QED  BY <1>1, <1>2, <1>3, <1>9

\* If no one-shot is given a time that has passed, and no request is refused
\* with a 200, a one-shot that leaves the table as fired has run: the settling
\* of an older fire never takes a newer row.
THEOREM FiredOnesRan ==
  ASSUME PastDates = FALSE, "rpcError" \notin Faults
  PROVE  Spec => []FiredHasRun
  <1>1. Init => Fresh /\ Started /\ FiredHasRun
    BY DEF Init, Fresh, Started, FiredHasRun, Numbers
  <1>2. TypeOK /\ TypeOK' /\ Fresh /\ Started /\ FiredHasRun /\ [Next]_vars
          => Fresh' /\ Started' /\ FiredHasRun'
    BY FreshStep, StartedStep, FiredStep
  <1>. QED  BY <1>1, <1>2, TypeCorrect, PTL DEF Spec

(***************************************************************************)
(* Counting fires and turns, when nothing worse happens than a refused     *)
(* request or a failed reschedule, and no id is added again under a cron   *)
(* that fires.                                                             *)
(***************************************************************************)

\* A copy of a row of the id that the loop holds: selected, or being fired.
Held(i, r) ==
  \E s \in Instances : \/ \E d \in due[s] : d.id = i /\ d.row = r
                       \/ fire[s][i] # NoFire /\ fire[s][i].row = r

\* The fields that only an edit changes.
SameRow(q, r) == /\ q.sched = r.sched /\ q.limit = r.limit /\ q.until = r.until
                 /\ q.edition = r.edition /\ q.birth = r.birth

\* No instance is stopping, so a fire is only over when it is settled.
NoneStops == \A s \in Instances : state[s] # "stopping"

LEMMA HeldOnce ==
  ASSUME TypeOK, Owned, Flight, NEW i \in Ids, NEW q, NEW r, Held(i, q), Held(i, r)
  PROVE  q = r
  <1>1. PICK s \in Instances : \/ \E d \in due[s] : d.id = i /\ d.row = q
                               \/ fire[s][i] # NoFire /\ fire[s][i].row = q
    BY DEF Held
  <1>2. PICK t \in Instances : \/ \E d \in due[t] : d.id = i /\ d.row = r
                               \/ fire[t][i] # NoFire /\ fire[t][i].row = r
    BY DEF Held
  <1>3. s = t
    BY <1>1, <1>2 DEF Owned, Busy
  <1>. QED  BY <1>1, <1>2, <1>3 DEF Flight

LEMMA NoneStopsStep ==
  ASSUME Faults \subseteq {"refused", "storeFault"}, TypeOK, NoneStops, [Next]_vars
  PROVE  NoneStops'
  <1>. USE DEF NoneStops, TypeOK, loop
  <1>1. ASSUME NEW s \in Instances, InstanceNext(s)
        PROVE  NoneStops'
    <2>1. ~Stop(s) /\ ~Release(s) /\ ~Crash(s)
      BY DEF Stop, Release, Crash, Fault
    <2>2. Start(s) \/ RetryLock(s) => NoneStops'
      BY DEF Start, RetryLock, Acquire
    <2>3. Select(s) \/ (\E d \in due[s] : Claim(s, d)) => NoneStops'
      BY DEF Select, Claim
    <2>4. ASSUME NEW i \in Ids, FireNext(s, i)
          PROVE  NoneStops'
      BY <2>4 DEF FireNext, TurnStarts, TurnEnds, FireRefused, FireRejected, FireTimesOut,
         SettleFailed, SettleOneShot, CountFire, SettleCron
    <2>. QED  BY <1>1, <2>1, <2>2, <2>3, <2>4 DEF InstanceNext
  <1>. QED
    BY <1>1 DEF Next, EditNext, Tick, AddJob, UpdateJob, CancelJob, vars

\* Where a held row comes from.
LEMMA HeldFrom ==
  ASSUME TypeOK, [Next]_vars, NEW i \in Ids, NEW r, Held(i, r)'
  PROVE  \/ \E q \in Rows : Held(i, q) /\ SameRow(q, r) /\ q.next = r.next
         \/ r = jobs[i] /\ jobs[i] # NoRow /\ UNCHANGED <<jobs, editions, fire, turns>>
  <1>0. Held(i, r) /\ r \in Rows => \E q \in Rows : Held(i, q) /\ SameRow(q, r) /\ q.next = r.next
    BY DEF SameRow
  <1>1. PICK s \in Instances : \/ \E d \in due'[s] : d.id = i /\ d.row = r
                               \/ fire'[s][i] # NoFire /\ fire'[s][i].row = r
    BY DEF Held
  <1>2. ASSUME NEW d \in due'[s], d.id = i, d.row = r
        PROVE  \/ Held(i, r) /\ r \in Rows
               \/ r = jobs[i] /\ jobs[i] # NoRow /\ UNCHANGED <<jobs, editions, fire, turns>>
    <2>1. CASE d \in due[s]
      BY <1>1, <1>2, <2>1 DEF Held, TypeOK
    <2>2. ASSUME NEW t \in Instances, Select(t), d \notin due[s]
          PROVE  r = jobs[i] /\ jobs[i] # NoRow /\ UNCHANGED <<jobs, editions, fire, turns>>
      BY <1>2, <2>2 DEF Select, DueRows, TypeOK, history
    <2>3. ASSUME \A t \in Instances : ~Select(t)
          PROVE  due'[s] \subseteq due[s]
      <3>1. ASSUME NEW t \in Instances, NEW e \in due[t], Claim(t, e)
            PROVE  due'[s] \subseteq due[s]
        BY <3>1 DEF Claim, TypeOK
      <3>2. ASSUME NEW t \in Instances, Crash(t)
            PROVE  due'[s] \subseteq due[s]
        BY <3>2 DEF Crash, TypeOK
      <3>3. ASSUME NEW t \in Instances, NEW k \in Ids, FireNext(t, k)
            PROVE  due'[s] \subseteq due[s]
        BY <3>3, FireKeeps
      <3>. QED
        BY <2>3, <3>1, <3>2, <3>3
           DEF Next, EditNext, InstanceNext, Tick, AddJob, UpdateJob, CancelJob, Start, RetryLock,
               Stop, Release, vars, loop
    <2>. QED  BY <1>2, <2>1, <2>2, <2>3
  <1>3. CASE fire'[s][i] # NoFire /\ fire'[s][i].row = r
    <2>1. CASE fire'[s][i] = fire[s][i]
      BY <1>0, <1>3, <2>1 DEF Held, TypeOK, Fires
    <2>2. ASSUME NEW d \in due[s], Claim(s, d), d.id = i
          PROVE  Held(i, r) /\ r \in Rows
      <3>1. fire'[s][i].row = d.row /\ d.row \in Rows
        BY <2>2 DEF Claim, TypeOK
      <3>. QED  BY <1>1, <1>3, <2>2, <3>1 DEF Held
    <2>3. CASE FireNext(s, i) /\ fire[s][i] # NoFire
      <3>1. fire[s][i] \in Fires
        BY <2>3 DEF TypeOK
      <3>2. SameRow(fire[s][i].row, r) /\ fire[s][i].row.next = r.next
        <4>1. ASSUME NEW phase, SetPhase(s, i, phase)
              PROVE  fire'[s][i].row = fire[s][i].row
          BY <3>1, <4>1 DEF SetPhase, TypeOK, Fires
        <4>2. ASSUME NEW n, Counted(s, i, n)
              PROVE  fire'[s][i].row = [fire[s][i].row EXCEPT !.count = n]
          BY <3>1, <4>2 DEF Counted, TypeOK
        <4>3. ~FireOver(s, i)
          BY <1>3 DEF FireOver, TypeOK
        <4>4. (\E phase : SetPhase(s, i, phase)) \/ (\E n : Counted(s, i, n))
          BY <2>3, <4>3, Zenon DEF FireNext, TurnStarts, TurnEnds, FireRefused,
             FireRejected, FireTimesOut, SettleFailed, SettleOneShot, CountFire, SettleCron
        <4>. QED  BY <1>3, <3>1, <4>1, <4>2, <4>4 DEF SameRow, Fires, Rows
      <3>. QED  BY <2>3, <3>1, <3>2 DEF Held, Fires
    <2>. QED  BY <1>0, <1>3, <2>1, <2>2, <2>3, FireChanges
  <1>. QED  BY <1>0, <1>1, <1>2, <1>3

\* What a step makes of the row of an id: it keeps it, and its next fire too
\* unless a cron of the id is held, and its count unless a fire is counted; or
\* edits it; or adds one.
KeepsRow(i) == /\ jobs[i] # NoRow /\ SameRow(jobs[i], jobs'[i])
               /\ jobs'[i].next = jobs[i].next \/ (\A r \in Rows : Held(i, r) => r.sched.cron)
               /\ \/ jobs'[i].count = jobs[i].count
                  \/ /\ \E s \in Instances : CountFire(s, i)
                     /\ jobs'[i].count = jobs[i].count + 1
EditsRow(i) == /\ jobs[i] # NoRow /\ editions' = editions + 1 /\ jobs'[i].edition = editions'
               /\ jobs'[i].birth = jobs[i].birth /\ jobs'[i].limit = jobs[i].limit
               /\ jobs'[i].until = jobs[i].until /\ jobs'[i].count = jobs[i].count
AddsRow(i) == /\ jobs[i] = NoRow /\ (ReuseIds \/ ~CronUnderWay(i)) /\ editions' = editions + 1
              /\ jobs'[i].edition = editions' /\ jobs'[i].birth = editions' /\ jobs'[i].count = 0
TableStep(i) == jobs'[i] # NoRow => KeepsRow(i) \/ EditsRow(i) \/ AddsRow(i)

LEMMA TableSteps ==
  ASSUME TypeOK, Owned, Flight, [Next]_vars, NEW i \in Ids
  PROVE  TableStep(i)
  <1>. USE DEF loop, history, TableStep
  <1>0. UNCHANGED jobs => TableStep(i)
    BY DEF KeepsRow, SameRow
  <1>1. ASSUME NEW k \in Ids, NEW sched \in Schedules, NEW limit \in Limits, NEW ttl \in Lifetimes,
               AddJob(k, sched, limit, ttl)
        PROVE  TableStep(i)
    <2>1. CASE k = i
      BY <1>1, <2>1 DEF AddJob, AddsRow, TypeOK
    <2>2. CASE k # i
      BY <1>1, <2>2 DEF AddJob, KeepsRow, SameRow, TypeOK
    <2>. QED  BY <2>1, <2>2
  <1>2. ASSUME NEW k \in Ids, NEW sched \in Schedules, UpdateJob(k, sched)
        PROVE  TableStep(i)
    <2>1. CASE k = i
      <3>1. jobs[i] \in Rows
        BY <1>2, <2>1 DEF UpdateJob, TypeOK
      <3>. QED  BY <1>2, <2>1, <3>1 DEF UpdateJob, EditsRow, TypeOK, Rows
    <2>2. CASE k # i
      BY <1>2, <2>2 DEF UpdateJob, KeepsRow, SameRow, TypeOK
    <2>. QED  BY <2>1, <2>2
  <1>3. ASSUME NEW k \in Ids, NEW why, Remove(k, why)
        PROVE  TableStep(i)
    BY <1>3 DEF Remove, KeepsRow, SameRow, TypeOK
  <1>4. ASSUME NEW s \in Instances, Acquire(s)
        PROVE  TableStep(i)
    <2>1. \A r \in Rows : ~Held(i, r)
      BY <1>4 DEF Acquire, Owned, Busy, Held, TypeOK
    <2>2. jobs'[i] # NoRow => /\ jobs[i] # NoRow /\ SameRow(jobs[i], jobs'[i])
                              /\ jobs'[i].count = jobs[i].count
      <3>1. CASE ~Stale(i)
        BY <1>4, <3>1 DEF Acquire, RecoverMissedFires, SameRow
      <3>2. CASE Stale(i)
        <4>1. jobs[i] \in Rows
          BY <3>2 DEF Stale, TypeOK
        <4>. QED  BY <1>4, <3>2, <4>1 DEF Acquire, RecoverMissedFires, SameRow, Rows, Stale
      <3>. QED  BY <3>1, <3>2
    <2>. QED  BY <2>1, <2>2 DEF KeepsRow
  <1>5. ASSUME NEW s \in Instances, NEW d \in due[s], Claim(s, d)
        PROVE  TableStep(i)
    <2>1. CASE d.id = i /\ d.row.sched.cron
      <3>2. Held(i, d.row)
        BY <2>1 DEF Held
      <3>3. \A r \in Rows : Held(i, r) => r.sched.cron
        BY <2>1, <3>2, HeldOnce
      <3>4. jobs'[i] # NoRow => /\ jobs[i] # NoRow /\ SameRow(jobs[i], jobs'[i])
                                /\ jobs'[i].count = jobs[i].count
        <4>1. CASE UNCHANGED jobs
          BY <4>1 DEF SameRow
        <4>2. CASE jobs[i] # NoRow /\ jobs' = [jobs EXCEPT ![i].next = NextFire(d.row.sched, clock)]
          BY <4>2 DEF SameRow, TypeOK, Rows
        <4>. QED  BY <1>5, <2>1, <4>1, <4>2 DEF Claim, Reschedule
      <3>. QED  BY <3>3, <3>4 DEF KeepsRow
    <2>2. CASE ~(d.id = i /\ d.row.sched.cron)
      <3>1. jobs'[i] = jobs[i]
        BY <1>5, <2>2 DEF Claim, Reschedule, TypeOK
      <3>. QED  BY <3>1 DEF KeepsRow, SameRow
    <2>. QED  BY <2>1, <2>2
  <1>6. ASSUME NEW s \in Instances, NEW k \in Ids, CountFire(s, k)
        PROVE  TableStep(i)
    <2>1. ASSUME jobs' = [jobs EXCEPT ![k].count = @ + 1], jobs[k] # NoRow
          PROVE  TableStep(i)
      <3>1. jobs[k] \in Rows
        BY <2>1 DEF TypeOK
      <3>2. CASE k = i
        <4>1. /\ jobs[i] # NoRow /\ SameRow(jobs[i], jobs'[i]) /\ jobs'[i].next = jobs[i].next
              /\ jobs'[i].count = jobs[i].count + 1
          BY <2>1, <3>1, <3>2 DEF SameRow, TypeOK, Rows
        <4>2. \E t \in Instances : CountFire(t, i)
          BY <1>6, <3>2
        <4>. QED  BY <4>1, <4>2 DEF KeepsRow
      <3>3. CASE k # i
        BY <2>1, <3>3 DEF KeepsRow, SameRow, TypeOK
      <3>. QED  BY <3>2, <3>3
    <2>. QED  BY <1>0, <1>6, <2>1 DEF CountFire
  <1>. QED
    BY <1>0, <1>1, <1>2, <1>3, <1>4, <1>5, <1>6
       DEF Next, EditNext, InstanceNext, Tick, CancelJob, Start, RetryLock, Stop, Release, Crash, Select,
           FireNext, TurnStarts, TurnEnds, FireRefused, FireRejected, FireTimesOut, SettleFailed,
           SettleOneShot, SettleCron, vars

\* Editions and births are numbers given out once: each belongs to one id.
HomedAt(h, i, r) == /\ r.edition <= editions /\ r.birth <= editions
                    /\ h[r.edition] = i /\ h[r.birth] = i
Homes == \E h \in [1 .. editions -> Ids] :
  \A i \in Ids : /\ jobs[i] # NoRow => HomedAt(h, i, jobs[i])
                 /\ \A r \in Rows : Held(i, r) => HomedAt(h, i, r)

\* A held row is of kin to the row of its id, if there is one: a cron has the
\* limits it had, and a row that was not edited the schedule it had.
Akin(i, r) == jobs[i] # NoRow =>
  /\ r.sched.cron => r.birth = jobs[i].birth /\ r.limit = jobs[i].limit /\ r.until = jobs[i].until
  /\ r.edition = jobs[i].edition => /\ r.sched = jobs[i].sched
                                    /\ ~r.sched.cron => r.next = jobs[i].next
Kin == \A i \in Ids, r \in Rows : Held(i, r) => Akin(i, r)

\* A turn of the id's cron that has started and is not yet counted.
Uncounted(i) == \E s \in Instances : /\ fire[s][i] # NoFire /\ fire[s][i].row.sched.cron
                                     /\ fire[s][i].phase \in {"turn", "ok"}

\* The count of a row is how many turns its crons have started, but for the
\* turn that is not counted yet.
Tally == /\ \A i \in Ids : jobs[i] # NoRow =>
              served[jobs[i].birth] = jobs[i].count + (IF Uncounted(i) THEN 1 ELSE 0)
         /\ \A n \in Numbers : n > editions => served[n] = 0 /\ turns[n] = 0

\* A fire that was counted read the count of the row; and a row that has
\* reached its limit has such a fire, which will remove it.
CountRead == \A s \in Instances, i \in Ids :
  fire[s][i] # NoFire /\ fire[s][i].phase = "counted" =>
    /\ fire[s][i].row.sched.cron
    /\ jobs[i] # NoRow => fire[s][i].row.count = jobs[i].count
AtLimit == \A i \in Ids : jobs[i] # NoRow /\ jobs[i].limit # NoLimit =>
  \/ jobs[i].count < jobs[i].limit
  \/ /\ jobs[i].count = jobs[i].limit
     /\ \E s \in Instances : fire[s][i] # NoFire /\ fire[s][i].phase = "counted"

\* A row of the table is live.
Alive == \A i \in Ids : jobs[i] # NoRow => fate[jobs[i].edition] = "live"

\* A one-shot of the table has not run, unless its fire is about to settle.
NotYet(r) == ~r.sched.cron => turns[r.edition] = 0
OneShots ==
  /\ \A i \in Ids : jobs[i] # NoRow =>
       \/ NotYet(jobs[i])
       \/ \E s \in Instances : /\ fire[s][i] # NoFire /\ fire[s][i].phase \in {"turn", "ok"}
                               /\ fire[s][i].row.edition = jobs[i].edition
  /\ \A s \in Instances : \A d \in due[s] : NotYet(d.row)
  /\ \A s \in Instances, i \in Ids :
       fire[s][i] # NoFire /\ fire[s][i].phase \in {"posted", "failed"} => NotYet(fire[s][i].row)

\* Only an edit gives out a number, to one id.
LEMMA NumberSteps ==
  ASSUME TypeOK, [Next]_vars
  PROVE  \/ editions' = editions
         \/ /\ editions' = editions + 1 /\ UNCHANGED <<due, fire, turns, served>>
            /\ \E k \in Ids : \A i \in Ids \ {k} : jobs'[i] = jobs[i]
  <1>. USE DEF loop, history
  <1>1. ASSUME NEW k \in Ids, NEW sched \in Schedules, NEW limit \in Limits, NEW ttl \in Lifetimes,
               AddJob(k, sched, limit, ttl)
        PROVE  /\ editions' = editions + 1 /\ UNCHANGED <<due, fire, turns, served>>
               /\ \A i \in Ids \ {k} : jobs'[i] = jobs[i]
    BY <1>1 DEF AddJob, TypeOK
  <1>2. ASSUME NEW k \in Ids, NEW sched \in Schedules, UpdateJob(k, sched)
        PROVE  /\ editions' = editions + 1 /\ UNCHANGED <<due, fire, turns, served>>
               /\ \A i \in Ids \ {k} : jobs'[i] = jobs[i]
    BY <1>2 DEF UpdateJob, TypeOK
  <1>3. ASSUME NEW s \in Instances, InstanceNext(s)
        PROVE  editions' = editions
    <2>1. ASSUME NEW d \in due[s], Claim(s, d)
          PROVE  editions' = editions
      BY <2>1 DEF Claim
    <2>2. ASSUME NEW i \in Ids, FireNext(s, i)
          PROVE  editions' = editions
      BY <2>2, FireKeeps
    <2>. QED
      BY <1>3, <2>1, <2>2 DEF InstanceNext, Start, RetryLock, Stop, Release, Crash, Select
  <1>. QED
    BY <1>1, <1>2, <1>3 DEF Next, EditNext, Tick, CancelJob, vars

LEMMA HomesStep ==
  ASSUME TypeOK, TypeOK', Owned, Flight, Homes, [Next]_vars
  PROVE  Homes'
  <1>1. PICK h \in [1 .. editions -> Ids] :
          \A i \in Ids : /\ jobs[i] # NoRow => HomedAt(h, i, jobs[i])
                         /\ \A r \in Rows : Held(i, r) => HomedAt(h, i, r)
    BY DEF Homes
  <1>2. editions \in Nat
    BY DEF TypeOK
  <1>3. ASSUME NEW i \in Ids, NEW r \in Rows, Held(i, r)'
        PROVE  HomedAt(h, i, r)
    BY <1>1, <1>3, HeldFrom DEF HomedAt, SameRow
  <1>4. CASE editions' = editions
    <2>1. ASSUME NEW i \in Ids, jobs'[i] # NoRow
          PROVE  HomedAt(h, i, jobs'[i])
      <3>0. TableStep(i)
        BY TableSteps
      <3>1. KeepsRow(i)
        BY <1>2, <1>4, <2>1, <3>0 DEF TableStep, EditsRow, AddsRow
      <3>. QED  BY <1>1, <3>1 DEF KeepsRow, SameRow, HomedAt
    <2>2. \A i \in Ids : /\ jobs'[i] # NoRow => HomedAt(h, i, jobs[i])'
                         /\ \A r \in Rows : Held(i, r)' => HomedAt(h, i, r)'
      BY <1>3, <1>4, <2>1 DEF HomedAt, Held
    <2>. QED  BY <1>4, <2>2 DEF Homes
  <1>5. CASE /\ editions' = editions + 1
             /\ \E k \in Ids : \A i \in Ids \ {k} : jobs'[i] = jobs[i]
    <2>1. PICK k \in Ids : \A i \in Ids \ {k} : jobs'[i] = jobs[i]
      BY <1>5
    <2>2. PICK g \in [1 .. editions + 1 -> Ids] :
            g[editions + 1] = k /\ \A n \in 1 .. editions : g[n] = h[n]
      <3> DEFINE f == [n \in 1 .. editions + 1 |-> IF n = editions + 1 THEN k ELSE h[n]]
      <3>1. f \in [1 .. editions + 1 -> Ids] /\ f[editions + 1] = k
            /\ \A n \in 1 .. editions : f[n] = h[n]
        BY <1>2
      <3>. QED  BY <3>1
    <2>3. ASSUME NEW i \in Ids, NEW r \in Rows, HomedAt(h, i, r)
          PROVE  /\ r.edition <= editions' /\ r.birth <= editions'
                 /\ g[r.edition] = i /\ g[r.birth] = i
      <3>1. r.edition \in 1 .. editions /\ r.birth \in 1 .. editions
        BY <1>2, <2>3 DEF HomedAt, Rows, Numbers
      <3>. QED  BY <1>2, <1>5, <2>2, <2>3, <3>1 DEF HomedAt
    <2>4. ASSUME NEW i \in Ids, jobs'[i] # NoRow
          PROVE  /\ jobs'[i].edition <= editions' /\ jobs'[i].birth <= editions'
                 /\ g[jobs'[i].edition] = i /\ g[jobs'[i].birth] = i
      <3>1. CASE jobs[i] # NoRow /\ jobs'[i] = jobs[i]
        <4>1. jobs[i] \in Rows
          BY <3>1 DEF TypeOK
        <4>. QED  BY <1>1, <2>3, <3>1, <4>1
      <3>2. CASE KeepsRow(i)
        <4>1. jobs[i] \in Rows
          BY <3>2 DEF KeepsRow, TypeOK
        <4>. QED  BY <1>1, <2>3, <3>2, <4>1 DEF KeepsRow, SameRow
      <3>3. CASE EditsRow(i) /\ i = k
        <4>1. jobs[i] \in Rows
          BY <3>3 DEF EditsRow, TypeOK
        <4>2. jobs[i].birth \in 1 .. editions /\ h[jobs[i].birth] = i
          BY <1>1, <1>2, <3>3, <4>1 DEF EditsRow, HomedAt, Rows, Numbers
        <4>. QED  BY <1>2, <1>5, <2>2, <3>3, <4>2 DEF EditsRow
      <3>4. CASE AddsRow(i) /\ i = k
        BY <1>2, <1>5, <2>2, <3>4 DEF AddsRow
      <3>5. TableStep(i)
        BY TableSteps
      <3>. QED  BY <2>1, <2>4, <3>1, <3>2, <3>3, <3>4, <3>5 DEF TableStep
    <2>5. \A i \in Ids : /\ jobs'[i] # NoRow => HomedAt(g, i, jobs[i])'
                         /\ \A r \in Rows : Held(i, r)' => HomedAt(g, i, r)'
      BY <1>3, <2>3, <2>4 DEF HomedAt, Held
    <2>. QED  BY <1>5, <2>2, <2>5 DEF Homes
  <1>. QED  BY <1>4, <1>5, NumberSteps

\* A held row and a row of the table, or two rows of the table, are of one id
\* if they have one edition or one birth.
LEMMA HomeOf ==
  ASSUME Homes, NEW i \in Ids, jobs[i] # NoRow
  PROVE  /\ \A k \in Ids, r \in Rows :
              Held(k, r) /\ (r.edition = jobs[i].edition \/ r.birth = jobs[i].birth) => k = i
         /\ \A k \in Ids : jobs[k] # NoRow /\ jobs[k].edition = jobs[i].edition => k = i
  <1>1. PICK h \in [1 .. editions -> Ids] :
          \A l \in Ids : /\ jobs[l] # NoRow => HomedAt(h, l, jobs[l])
                         /\ \A r \in Rows : Held(l, r) => HomedAt(h, l, r)
    BY DEF Homes
  <1>. QED  BY <1>1 DEF HomedAt

LEMMA KnownNumbers ==
  ASSUME Homes, NEW i \in Ids, NEW r \in Rows, (r = jobs[i] /\ r # NoRow) \/ Held(i, r)
  PROVE  r.edition <= editions /\ r.birth <= editions
  BY DEF Homes, HomedAt

LEMMA KinStep ==
  ASSUME ReuseIds = FALSE, TypeOK, TypeOK', Owned, Flight, Homes, Kin, [Next]_vars
  PROVE  Kin'
  <1> SUFFICES ASSUME NEW i \in Ids, NEW r \in Rows, Held(i, r)', jobs'[i] # NoRow
               PROVE  /\ r.sched.cron => /\ r.birth = jobs'[i].birth /\ r.limit = jobs'[i].limit
                                         /\ r.until = jobs'[i].until
                      /\ r.edition = jobs'[i].edition => /\ r.sched = jobs'[i].sched
                                                         /\ ~r.sched.cron => r.next = jobs'[i].next
    BY DEF Kin, Akin, Held
  <1>1. CASE r = jobs[i] /\ UNCHANGED jobs
    BY <1>1
  <1>2. ASSUME NEW q \in Rows, Held(i, q), SameRow(q, r), q.next = r.next
        PROVE  /\ r.sched.cron => /\ r.birth = jobs'[i].birth /\ r.limit = jobs'[i].limit
                                  /\ r.until = jobs'[i].until
               /\ r.edition = jobs'[i].edition => /\ r.sched = jobs'[i].sched
                                                  /\ ~r.sched.cron => r.next = jobs'[i].next
    <2>1. Akin(i, q) /\ TableStep(i)
      BY <1>2, TableSteps DEF Kin
    <2>2. r.edition <= editions /\ editions \in Nat /\ r.edition \in Nat
      <3>1. q.edition <= editions
        BY <1>2, KnownNumbers
      <3>2. r.edition = q.edition
        BY <1>2 DEF SameRow
      <3>3. editions \in Nat /\ r.edition \in Nat
        BY DEF TypeOK, Rows, Numbers
      <3>. QED  BY <3>1, <3>2, <3>3
    <2>3. CASE KeepsRow(i)
      <3>1. r.edition = jobs'[i].edition => r.sched = jobs'[i].sched
        BY <1>2, <2>1, <2>3 DEF KeepsRow, SameRow, Akin
      <3>2. r.sched.cron => /\ r.birth = jobs'[i].birth /\ r.limit = jobs'[i].limit
                            /\ r.until = jobs'[i].until
        BY <1>2, <2>1, <2>3 DEF KeepsRow, SameRow, Akin
      <3>3. ASSUME r.edition = jobs'[i].edition, ~r.sched.cron
            PROVE  r.next = jobs'[i].next
        <4>1. ~q.sched.cron
          BY <1>2, <3>3 DEF SameRow
        <4>2. jobs'[i].next = jobs[i].next
          BY <1>2, <2>3, <4>1 DEF KeepsRow
        <4>3. q.next = jobs[i].next
          BY <1>2, <2>1, <2>3, <3>3, <4>1 DEF KeepsRow, SameRow, Akin
        <4>. QED  BY <1>2, <4>2, <4>3
      <3>. QED  BY <3>1, <3>2, <3>3
    <2>4. CASE EditsRow(i)
      BY <1>2, <2>1, <2>2, <2>4 DEF EditsRow, SameRow, Akin
    <2>5. CASE AddsRow(i)
      <3>1. ~q.sched.cron
        BY <1>2, <2>5 DEF AddsRow, CronUnderWay, Held
      <3>. QED  BY <1>2, <2>2, <2>5, <3>1 DEF AddsRow, SameRow
    <2>. QED  BY <2>1, <2>3, <2>4, <2>5 DEF TableStep
  <1>3. \/ \E q \in Rows : Held(i, q) /\ SameRow(q, r) /\ q.next = r.next
        \/ r = jobs[i] /\ UNCHANGED jobs
    BY HeldFrom
  <1>. QED  BY <1>1, <1>2, <1>3

Calm == Faults \subseteq {"refused", "storeFault"}

\* The fire of an id goes on, is counted or is over by a step of its own; else
\* it is as it was, or the loop has just claimed the row.
FireStep(i) ==
  \/ \E s \in Instances : FireNext(s, i) /\ \A t \in Instances \ {s} : fire'[t][i] = NoFire
  \/ \A s \in Instances : fire'[s][i] = fire[s][i]
  \/ \E s \in Instances : /\ \E d \in due[s] : Claim(s, d) /\ d.id = i
                          /\ fire'[s][i].phase = "posted" /\ fire[s][i] = NoFire
                          /\ \A t \in Instances \ {s} : fire'[t][i] = fire[t][i]

LEMMA FireStepHolds ==
  ASSUME Calm, TypeOK, Owned, Flight, NoneStops, [Next]_vars, NEW i \in Ids
  PROVE  FireStep(i)
  <1>. USE DEF FireStep
  <1>1. UNCHANGED fire => FireStep(i)
    OBVIOUS
  <1>2. ASSUME NEW s \in Instances, NEW k \in Ids, FireNext(s, k)
        PROVE  FireStep(i)
    <2>1. fire[s][k] # NoFire
      BY <1>2 DEF FireNext, TurnStarts, TurnEnds, FireRefused, FireRejected, FireTimesOut,
         SettleFailed, SettleOneShot, CountFire, SettleCron, InPhase
    <2>2. \E f : fire' = [fire EXCEPT ![s][k] = f]
      BY <1>2, Zenon DEF FireNext, TurnStarts, TurnEnds, FireRefused, FireRejected, FireTimesOut,
         SettleFailed, SettleOneShot, CountFire, SettleCron, SetPhase, FireOver, Counted
    <2>3. CASE k = i
      <3>1. \A t \in Instances \ {s} : fire[t][i] = NoFire
        BY <2>1, <2>3 DEF Owned, Busy
      <3>2. \A t \in Instances \ {s} : fire'[t][i] = NoFire
        BY <2>2, <3>1 DEF TypeOK
      <3>. QED  BY <1>2, <2>3, <3>2
    <2>4. CASE k # i
      <3>1. \A t \in Instances : fire'[t][i] = fire[t][i]
        BY <2>2, <2>4 DEF TypeOK
      <3>. QED  BY <3>1
    <2>. QED  BY <2>3, <2>4
  <1>3. ASSUME NEW s \in Instances, NEW d \in due[s], Claim(s, d)
        PROVE  FireStep(i)
    <2>1. d.id \in Ids /\ fire[s][d.id] = NoFire
      BY DEF TypeOK, Flight
    <2>2. CASE d.id = i
      <3>1. /\ fire'[s][i].phase = "posted" /\ fire[s][i] = NoFire
            /\ \A t \in Instances \ {s} : fire'[t][i] = fire[t][i]
        BY <1>3, <2>1, <2>2 DEF Claim, TypeOK
      <3>. QED  BY <1>3, <2>2, <3>1
    <2>3. CASE d.id # i
      <3>1. \A t \in Instances : fire'[t][i] = fire[t][i]
        BY <1>3, <2>1, <2>3 DEF Claim, TypeOK
      <3>. QED  BY <3>1
    <2>. QED  BY <2>2, <2>3
  <1>4. ASSUME NEW s \in Instances
        PROVE  ~Release(s) /\ ~Crash(s)
    BY DEF Calm, NoneStops, Release, Crash, Fault
  <1>. QED
    BY <1>1, <1>2, <1>3, <1>4
       DEF Next, EditNext, InstanceNext, Tick, AddJob, UpdateJob, CancelJob, Start, RetryLock, Stop,
           Select, vars

\* What a step does to the uncounted turns of an id.
TurnBegins(s, i) == TurnStarts(s, i) /\ fire[s][i].row.sched.cron
UncountedStep(i) ==
  \/ /\ Uncounted(i)' <=> Uncounted(i)
     /\ \A s \in Instances : ~TurnBegins(s, i) /\ ~CountFire(s, i)
  \/ ~Uncounted(i) /\ Uncounted(i)' /\ \E s \in Instances : TurnBegins(s, i)
  \/ Uncounted(i) /\ ~Uncounted(i)' /\ \E s \in Instances : CountFire(s, i)

LEMMA UncountedSteps ==
  ASSUME Calm, TypeOK, Owned, Flight, NoneStops, CountRead, [Next]_vars, NEW i \in Ids
  PROVE  UncountedStep(i)
  <1>0. ASSUME NEW s \in Instances, TurnBegins(s, i) \/ CountFire(s, i)
        PROVE  fire[s][i] # NoFire /\ fire[s][i].phase \in {"posted", "ok"}
               /\ fire'[s][i].phase \in {"turn", "counted"}
    <2>1. fire[s][i] \in Fires
      BY <1>0 DEF TurnBegins, TurnStarts, CountFire, InPhase, TypeOK
    <2>. QED  BY <1>0, <2>1 DEF TurnBegins, TurnStarts, CountFire, InPhase, SetPhase, Counted, TypeOK, Fires
  <1>1. CASE \A s \in Instances : fire'[s][i] = fire[s][i]
    <2>1. Uncounted(i)' <=> Uncounted(i)
      BY <1>1 DEF Uncounted
    <2>2. \A s \in Instances : ~TurnBegins(s, i) /\ ~CountFire(s, i)
      BY <1>0, <1>1
    <2>. QED  BY <2>1, <2>2 DEF UncountedStep
  <1>2. ASSUME NEW s \in Instances, fire'[s][i].phase = "posted", fire[s][i] = NoFire,
               \A t \in Instances \ {s} : fire'[t][i] = fire[t][i]
        PROVE  UncountedStep(i)
    <2>1. Uncounted(i)' <=> Uncounted(i)
      BY <1>2 DEF Uncounted
    <2>2. \A t \in Instances : ~TurnBegins(t, i) /\ ~CountFire(t, i)
      BY <1>0, <1>2
    <2>. QED  BY <2>1, <2>2 DEF UncountedStep
  <1>3. ASSUME NEW s \in Instances, FireNext(s, i), \A t \in Instances \ {s} : fire'[t][i] = NoFire
        PROVE  UncountedStep(i)
    <2>0. fire[s][i] # NoFire /\ fire[s][i] \in Fires
      BY <1>3 DEF FireNext, TurnStarts, TurnEnds, FireRefused, FireRejected, FireTimesOut,
         SettleFailed, SettleOneShot, CountFire, SettleCron, InPhase, TypeOK
    <2>1. \A t \in Instances \ {s} : fire[t][i] = NoFire
      BY <2>0 DEF Owned, Busy
    <2>2. Uncounted(i) <=> fire[s][i].row.sched.cron /\ fire[s][i].phase \in {"turn", "ok"}
      BY <2>0, <2>1 DEF Uncounted
    <2>3. Uncounted(i)' <=> /\ fire'[s][i] # NoFire /\ fire'[s][i].row.sched.cron
                            /\ fire'[s][i].phase \in {"turn", "ok"}
      BY <1>3 DEF Uncounted
    <2>4. \A t \in Instances : TurnBegins(t, i) \/ CountFire(t, i) => t = s
      BY <1>0, <2>1
    <2>5. ASSUME NEW phase \in {"turn", "ok", "failed"}, SetPhase(s, i, phase)
          PROVE  fire'[s][i] # NoFire /\ fire'[s][i].row = fire[s][i].row /\ fire'[s][i].phase = phase
      <3>1. fire'[s][i] = [fire[s][i] EXCEPT !.phase = phase]
        BY <2>5 DEF SetPhase, TypeOK
      <3>2. [fire[s][i] EXCEPT !.phase = phase] \in Fires
        BY <2>0 DEF Fires
      <3>. QED  BY <2>0, <3>1, <3>2, SentinelAssumption DEF Fires
    <2>6. CASE TurnStarts(s, i)
      <3>1. fire'[s][i] # NoFire /\ fire'[s][i].row = fire[s][i].row /\ fire'[s][i].phase = "turn"
            /\ fire[s][i].phase = "posted" /\ ~CountFire(s, i)
        BY <2>5, <2>6 DEF TurnStarts, InPhase, CountFire
      <3>. QED  BY <2>2, <2>3, <2>4, <2>6, <3>1 DEF UncountedStep, TurnBegins
    <2>7. CASE TurnEnds(s, i)
      <3>1. fire'[s][i] # NoFire /\ fire'[s][i].row = fire[s][i].row /\ fire'[s][i].phase = "ok"
            /\ fire[s][i].phase = "turn"
        BY <2>5, <2>7 DEF TurnEnds, InPhase
      <3>. QED  BY <1>0, <2>2, <2>3, <2>4, <3>1 DEF UncountedStep
    <2>8. CASE FireRefused(s, i)
      <3>1. fire'[s][i].phase = "failed" /\ fire[s][i].phase = "posted"
        BY <2>5, <2>8 DEF FireRefused, InPhase
      <3>. QED  BY <1>0, <2>2, <2>3, <2>4, <3>1 DEF UncountedStep
    <2>9. ~FireRejected(s, i) /\ ~FireTimesOut(s, i)
      BY DEF Calm, FireRejected, FireTimesOut, Fault
    <2>10. CASE CountFire(s, i)
      <3>1. fire'[s][i].phase = "counted" /\ fire[s][i].phase = "ok" /\ fire[s][i].row.sched.cron
            /\ ~TurnBegins(s, i)
        BY <1>0, <2>10 DEF CountFire, InPhase, Fired, Counted, TypeOK, TurnBegins, TurnStarts
      <3>. QED  BY <2>2, <2>3, <2>10, <3>1 DEF UncountedStep
    <2>11. CASE SettleFailed(s, i) \/ SettleOneShot(s, i) \/ SettleCron(s, i)
      <3>1. fire'[s][i] = NoFire
        BY <2>11 DEF SettleFailed, SettleOneShot, SettleCron, FireOver, TypeOK
      <3>2. ~Uncounted(i) /\ ~TurnBegins(s, i) /\ ~CountFire(s, i)
        BY <2>2, <2>11 DEF SettleFailed, SettleOneShot, SettleCron, InPhase, Fired, TurnBegins,
           TurnStarts, CountFire
      <3>. QED  BY <2>3, <2>4, <3>1, <3>2 DEF UncountedStep
    <2>. QED  BY <1>3, <2>6, <2>7, <2>8, <2>9, <2>10, <2>11 DEF FireNext
  <1>. QED  BY <1>1, <1>2, <1>3, FireStepHolds DEF FireStep

\* Turns are only counted, for an edition and for an add, when one starts.
LEMMA TurnCounts ==
  ASSUME TypeOK, [Next]_vars
  PROVE  \/ UNCHANGED <<turns, served>>
         \/ \E s \in Instances, k \in Ids :
              /\ TurnStarts(s, k) /\ fire[s][k] # NoFire /\ fire[s][k].row \in Rows /\ Held(k, fire[s][k].row)
              /\ turns' = [turns EXCEPT ![fire[s][k].row.edition] = @ + 1]
              /\ served' = IF fire[s][k].row.sched.cron
                           THEN [served EXCEPT ![fire[s][k].row.birth] = @ + 1] ELSE served
  <1>1. ASSUME NEW s \in Instances, NEW k \in Ids, TurnStarts(s, k)
        PROVE  /\ fire[s][k] # NoFire /\ fire[s][k].row \in Rows /\ Held(k, fire[s][k].row)
               /\ turns' = [turns EXCEPT ![fire[s][k].row.edition] = @ + 1]
               /\ served' = IF fire[s][k].row.sched.cron
                            THEN [served EXCEPT ![fire[s][k].row.birth] = @ + 1] ELSE served
    <2>1. fire[s][k] # NoFire /\ fire[s][k] \in Fires
      BY <1>1 DEF TurnStarts, InPhase, TypeOK
    <2>. QED  BY <1>1, <2>1 DEF TurnStarts, Fired, Fires, Held
  <1>2. ASSUME NEW s \in Instances, NEW k \in Ids, FireNext(s, k)
        PROVE  TurnStarts(s, k) \/ UNCHANGED <<turns, served>>
    BY <1>2 DEF FireNext, TurnEnds, FireRefused, FireRejected, FireTimesOut,
       SettleFailed, SettleOneShot, CountFire, SettleCron, history
  <1>. QED
    BY <1>1, <1>2
       DEF Next, EditNext, InstanceNext, Tick, AddJob, UpdateJob, CancelJob, Start, RetryLock,
           Stop, Release, Crash, Select, Claim, vars, history

\* The turns of a row are the turns of its own id.
LEMMA OwnTurns ==
  ASSUME TypeOK, Homes, Kin, [Next]_vars, NEW i \in Ids, jobs[i] # NoRow
  PROVE  served'[jobs[i].birth] =
           served[jobs[i].birth] + (IF \E s \in Instances : TurnBegins(s, i) THEN 1 ELSE 0)
  <1>1. jobs[i].birth \in Numbers /\ served \in [Numbers -> Nat]
    BY DEF TypeOK, Rows
  <1>2. ASSUME NEW s \in Instances, TurnBegins(s, i)
        PROVE  served'[jobs[i].birth] = served[jobs[i].birth] + 1
    <2>1. fire[s][i] # NoFire /\ fire[s][i] \in Fires
      BY <1>2 DEF TurnBegins, TurnStarts, InPhase, TypeOK
    <2>2. fire[s][i].row \in Rows /\ Held(i, fire[s][i].row)
      BY <2>1 DEF Fires, Held
    <2>3. fire[s][i].row.birth = jobs[i].birth
      BY <1>2, <2>2 DEF Kin, Akin, TurnBegins
    <2>. QED  BY <1>1, <1>2, <2>3 DEF TurnBegins, TurnStarts, Fired
  <1>3. ASSUME \A s \in Instances : ~TurnBegins(s, i)
        PROVE  served'[jobs[i].birth] = served[jobs[i].birth]
    <2>1. ASSUME NEW s \in Instances, NEW k \in Ids, TurnStarts(s, k),
                 fire[s][k].row \in Rows, Held(k, fire[s][k].row), fire[s][k].row.sched.cron
          PROVE  fire[s][k].row.birth # jobs[i].birth
      <3>1. i # k
        BY <1>3, <2>1 DEF TurnBegins
      <3>. QED  BY <2>1, <3>1, HomeOf
    <2>. QED  BY <1>1, <2>1, TurnCounts
  <1>. QED  BY <1>1, <1>2, <1>3

LEMMA CountingFire ==
  ASSUME Calm, TypeOK, NEW s \in Instances, NEW i \in Ids, CountFire(s, i)
  PROVE  IF jobs[i] # NoRow
         THEN /\ jobs' = [jobs EXCEPT ![i].count = @ + 1]
              /\ jobs'[i].count = jobs[i].count + 1 /\ Counted(s, i, jobs[i].count + 1)
         ELSE jobs' = jobs
  <1>1. ~Fault("settleFault")
    BY DEF Calm, Fault
  <1>2. ASSUME jobs[i] # NoRow
        PROVE  jobs' = [jobs EXCEPT ![i].count = @ + 1] /\ Counted(s, i, jobs[i].count + 1)
    BY <1>1, <1>2 DEF CountFire
  <1>3. jobs[i] # NoRow => jobs'[i].count = jobs[i].count + 1
    BY <1>2 DEF TypeOK, Rows
  <1>. QED  BY <1>1, <1>2, <1>3 DEF CountFire

LEMMA TallyStep ==
  ASSUME Calm, ReuseIds = FALSE, TypeOK, TypeOK', Owned, Flight, NoneStops, Homes, Kin, CountRead,
         Tally, [Next]_vars
  PROVE  Tally'
  <1>0. editions \in Nat /\ editions' \in Nat
    BY DEF TypeOK
  <1>1. ASSUME NEW n \in Numbers, n > editions'
        PROVE  served'[n] = 0 /\ turns'[n] = 0
    <2>1. n \in Nat /\ n > editions
      BY <1>0, <1>1, NumberSteps DEF Numbers
    <2>2. served[n] = 0 /\ turns[n] = 0
      BY <2>1 DEF Tally
    <2>3. ASSUME NEW r \in Rows, NEW k \in Ids, Held(k, r)
          PROVE  r.edition # n /\ r.birth # n
      <3>1. r.edition <= editions /\ r.birth <= editions
        BY <2>3, KnownNumbers
      <3>. QED  BY <1>0, <2>1, <3>1
    <2>. QED  BY <2>2, <2>3, TurnCounts DEF TypeOK
  <1>2. ASSUME NEW i \in Ids, jobs'[i] # NoRow
        PROVE  served'[jobs'[i].birth] = jobs'[i].count + (IF Uncounted(i)' THEN 1 ELSE 0)
    <2>0. TableStep(i) /\ UncountedStep(i)
      BY TableSteps, UncountedSteps
    <2>1. CASE KeepsRow(i)
      <3>1. jobs[i] # NoRow /\ jobs'[i].birth = jobs[i].birth
        BY <2>1 DEF KeepsRow, SameRow
      <3>2. jobs[i].count \in Nat
        BY <3>1 DEF TypeOK, Rows
      <3>3. served[jobs[i].birth] = jobs[i].count + (IF Uncounted(i) THEN 1 ELSE 0)
        BY <3>1 DEF Tally
      <3>4. served'[jobs[i].birth] =
              served[jobs[i].birth] + (IF \E s \in Instances : TurnBegins(s, i) THEN 1 ELSE 0)
        BY <3>1, OwnTurns
      <3>5. jobs'[i].count =
              jobs[i].count + (IF \E s \in Instances : CountFire(s, i) THEN 1 ELSE 0)
        <4>1. ASSUME NEW s \in Instances, CountFire(s, i)
              PROVE  jobs'[i].count = jobs[i].count + 1
          BY <3>1, <4>1, CountingFire
        <4>. QED  BY <2>1, <3>2, <4>1 DEF KeepsRow
      <3>6. ASSUME NEW s \in Instances, NEW t \in Instances, TurnBegins(s, i), CountFire(t, i)
            PROVE  FALSE
        <4>1. s = t
          BY <3>6 DEF TurnBegins, TurnStarts, CountFire, InPhase, Owned, Busy
        <4>. QED  BY <3>6, <4>1 DEF TurnBegins, TurnStarts, CountFire, InPhase
      <3>. QED  BY <2>0, <3>1, <3>2, <3>3, <3>4, <3>5, <3>6 DEF UncountedStep
    <2>2. CASE EditsRow(i)
      <3>1. UNCHANGED <<fire, served>>
        BY <1>0, <2>2, NumberSteps DEF EditsRow
      <3>2. Uncounted(i)' <=> Uncounted(i)
        BY <3>1 DEF Uncounted
      <3>. QED  BY <2>2, <3>1, <3>2 DEF EditsRow, Tally
    <2>3. CASE AddsRow(i)
      <3>1. UNCHANGED <<fire, served>> /\ jobs'[i].birth = editions + 1
        BY <1>0, <2>3, NumberSteps DEF AddsRow
      <3>2. ~Uncounted(i)'
        BY <2>3, <3>1 DEF Uncounted, AddsRow, CronUnderWay
      <3>3. editions + 1 \in Numbers
        BY <1>2, <3>1 DEF TypeOK, Rows
      <3>4. served[editions + 1] = 0
        BY <1>0, <3>3 DEF Tally
      <3>. QED  BY <2>3, <3>1, <3>2, <3>4 DEF AddsRow
    <2>. QED  BY <1>2, <2>0, <2>1, <2>2, <2>3 DEF TableStep
  <1>. QED  BY <1>1, <1>2 DEF Tally, Uncounted

LEMMA OneFires ==
  ASSUME Owned, NEW s \in Instances, NEW t \in Instances, NEW i \in Ids, NEW k \in Ids,
         fire[s][i] # NoFire, fire[t][k] # NoFire
  PROVE  s = t
  BY DEF Owned, Busy

LEMMA CountedBy ==
  ASSUME TypeOK, [Next]_vars, NEW s \in Instances, NEW i \in Ids, fire'[s][i] # fire[s][i],
         fire'[s][i] # NoFire, fire'[s][i].phase = "counted"
  PROVE  CountFire(s, i)
  <1>1. ASSUME NEW d \in due[s], Claim(s, d), d.id = i
        PROVE  FALSE
    BY <1>1 DEF Claim, TypeOK
  <1>2. FireNext(s, i) /\ fire[s][i] \in Fires
    BY <1>1, FireChanges DEF TypeOK
  <1>3. ASSUME NEW phase, SetPhase(s, i, phase)
        PROVE  phase = "counted"
    BY <1>2, <1>3 DEF SetPhase, TypeOK, Fires
  <1>4. ~FireOver(s, i)
    BY DEF FireOver, TypeOK
  <1>. QED
    BY <1>2, <1>3, <1>4 DEF FireNext, TurnStarts, TurnEnds, FireRefused, FireRejected, FireTimesOut,
       SettleFailed, SettleOneShot, SettleCron

LEMMA CountReadStep ==
  ASSUME Calm, ReuseIds = FALSE, TypeOK, TypeOK', Owned, Flight, CountRead, [Next]_vars
  PROVE  CountRead'
  <1> SUFFICES ASSUME NEW s \in Instances, NEW i \in Ids, fire'[s][i] # NoFire,
                      fire'[s][i].phase = "counted"
               PROVE  /\ fire'[s][i].row.sched.cron
                      /\ jobs'[i] # NoRow => fire'[s][i].row.count = jobs'[i].count
    BY DEF CountRead
  <1>1. CASE fire'[s][i] = fire[s][i]
    <2>1. fire[s][i].row.sched.cron /\ (jobs[i] # NoRow => fire[s][i].row.count = jobs[i].count)
      BY <1>1 DEF CountRead
    <2>2. ASSUME NEW t \in Instances, CountFire(t, i)
          PROVE  FALSE
      <3>1. fire[t][i] # NoFire /\ fire[t][i].phase = "ok"
        BY <2>2 DEF CountFire, InPhase
      <3>. QED  BY <1>1, <3>1, OneFires
    <2>3. ~AddsRow(i)
      BY <1>1, <2>1 DEF AddsRow, CronUnderWay
    <2>4. TableStep(i)
      BY TableSteps
    <2>. QED  BY <1>1, <2>1, <2>2, <2>3, <2>4 DEF TableStep, KeepsRow, EditsRow
  <1>2. CASE fire'[s][i] # fire[s][i]
    <2>1. CountFire(s, i)
      BY <1>2, CountedBy
    <2>2. fire[s][i] \in Fires /\ fire[s][i].row \in Rows /\ fire[s][i].row.sched.cron
      BY <2>1 DEF CountFire, InPhase, Fired, TypeOK, Fires
    <2>3. ASSUME NEW n, Counted(s, i, n)
          PROVE  fire'[s][i].row.sched.cron /\ fire'[s][i].row.count = n
      BY <2>2, <2>3 DEF Counted, TypeOK, Rows
    <2>4. \E n : Counted(s, i, n)
      BY <2>1 DEF CountFire
    <2>5. jobs'[i] # NoRow => jobs'[i].count = jobs[i].count + 1 /\ Counted(s, i, jobs[i].count + 1)
      BY <2>1, CountingFire
    <2>. QED  BY <2>3, <2>4, <2>5
  <1>. QED  BY <1>1, <1>2

\* A counted fire stays until it settles; if the row has reached its limit, it
\* removes it.
LEMMA CountedFires ==
  ASSUME Calm, TypeOK, Owned, Flight, NoneStops, Kin, CountRead, [Next]_vars,
         NEW s \in Instances, NEW i \in Ids, fire[s][i] # NoFire, fire[s][i].phase = "counted",
         jobs[i] # NoRow, jobs[i].limit # NoLimit, jobs[i].count = jobs[i].limit, jobs'[i] # NoRow
  PROVE  fire'[s][i] = fire[s][i]
  <1>1. SettleCron(s, i) => FALSE
    <2>1. fire[s][i].row \in Rows /\ Held(i, fire[s][i].row) /\ fire[s][i].row.sched.cron
      BY DEF TypeOK, Fires, Held, CountRead
    <2>2. fire[s][i].row.limit = jobs[i].limit /\ fire[s][i].row.count = jobs[i].count
      BY <2>1 DEF Kin, Akin, CountRead
    <2>3. jobs[i].limit \in Nat /\ jobs[i].count \in Nat
      BY DEF TypeOK, Rows
    <2>4. Expired(Fired(s, i))
      BY <2>2, <2>3 DEF Expired, Fired
    <2>5. ~Fault("settleFault")
      BY DEF Calm, Fault
    <2>. QED  BY <2>4, <2>5 DEF SettleCron, Remove, TypeOK
  <1>2. ASSUME NEW t \in Instances, FireNext(t, i)
        PROVE  FALSE
    <2>1. fire[t][i] # NoFire
      BY <1>2 DEF FireNext, TurnStarts, TurnEnds, FireRefused, FireRejected, FireTimesOut,
         SettleFailed, SettleOneShot, CountFire, SettleCron, InPhase
    <2>2. s = t
      BY <2>1, OneFires
    <2>. QED
      BY <1>1, <1>2, <2>2 DEF FireNext, TurnStarts, TurnEnds, FireRefused, FireRejected, FireTimesOut,
         SettleFailed, SettleOneShot, CountFire, InPhase
  <1>. QED  BY <1>2, FireStepHolds DEF FireStep

LEMMA AtLimitStep ==
  ASSUME Calm, ReuseIds = FALSE, TypeOK, TypeOK', Owned, Flight, NoneStops, Kin, CountRead, AtLimit,
         [Next]_vars
  PROVE  AtLimit'
  <1> SUFFICES ASSUME NEW i \in Ids, jobs'[i] # NoRow, jobs'[i].limit # NoLimit
               PROVE  \/ jobs'[i].count < jobs'[i].limit
                      \/ /\ jobs'[i].count = jobs'[i].limit
                         /\ \E s \in Instances : fire'[s][i] # NoFire /\ fire'[s][i].phase = "counted"
    BY DEF AtLimit
  <1>0. TableStep(i)
    BY TableSteps
  <1>1. jobs'[i].limit \in Nat \ {0} /\ jobs'[i].count \in Nat
    BY DEF TypeOK, Rows
  <1>2. CASE AddsRow(i)
    BY <1>1, <1>2 DEF AddsRow
  <1>3. CASE EditsRow(i)
    <2>1. UNCHANGED fire
      BY <1>3, NumberSteps DEF EditsRow, TypeOK
    <2>. QED  BY <1>3, <2>1 DEF EditsRow, AtLimit
  <1>4. CASE KeepsRow(i)
    <2>1. jobs[i] # NoRow /\ jobs'[i].limit = jobs[i].limit /\ jobs[i].count \in Nat
      BY <1>4 DEF KeepsRow, SameRow, TypeOK, Rows
    <2>2. ASSUME NEW s \in Instances, CountFire(s, i)
          PROVE  /\ fire'[s][i] # NoFire /\ fire'[s][i].phase = "counted"
                 /\ fire[s][i] # NoFire /\ fire[s][i].phase = "ok"
                 /\ jobs'[i].count = jobs[i].count + 1
      <3>1. fire[s][i] # NoFire /\ fire[s][i].phase = "ok" /\ fire[s][i] \in Fires
        BY <2>2 DEF CountFire, InPhase, TypeOK
      <3>2. Counted(s, i, jobs[i].count + 1) /\ jobs'[i].count = jobs[i].count + 1
        BY <2>1, <2>2, CountingFire
      <3>3. fire'[s][i] = [row |-> [fire[s][i].row EXCEPT !.count = jobs[i].count + 1], phase |-> "counted"]
        BY <3>2 DEF Counted, TypeOK
      <3>4. fire'[s][i] \in Fires
        <4>1. fire[s][i].row \in Rows /\ jobs[i].count + 1 \in Nat
          BY <2>1, <3>1 DEF Fires
        <4>2. [fire[s][i].row EXCEPT !.count = jobs[i].count + 1] \in Rows
          BY <4>1, CountType
        <4>. QED  BY <3>3, <4>2 DEF Fires
      <3>. QED  BY <3>1, <3>2, <3>3, <3>4, SentinelAssumption
    <2>3. CASE jobs[i].count < jobs[i].limit
      BY <1>1, <1>4, <2>1, <2>2, <2>3 DEF KeepsRow
    <2>4. ASSUME NEW s \in Instances, fire[s][i] # NoFire, fire[s][i].phase = "counted",
                 jobs[i].count = jobs[i].limit
          PROVE  /\ jobs'[i].count = jobs'[i].limit
                 /\ fire'[s][i] # NoFire /\ fire'[s][i].phase = "counted"
      <3>1. \A t \in Instances : ~CountFire(t, i)
        BY <2>2, <2>4, OneFires
      <3>2. jobs'[i].count = jobs[i].count
        BY <1>4, <3>1 DEF KeepsRow
      <3>3. fire'[s][i] = fire[s][i]
        BY <2>1, <2>4, CountedFires
      <3>. QED  BY <2>1, <2>4, <3>2, <3>3
    <2>. QED  BY <2>1, <2>3, <2>4 DEF AtLimit
  <1>. QED  BY <1>0, <1>2, <1>3, <1>4 DEF TableStep

LEMMA AliveStep ==
  ASSUME TypeOK, Homes, Alive, [Next]_vars
  PROVE  Alive'
  <1> SUFFICES ASSUME NEW i \in Ids, jobs'[i] # NoRow
               PROVE  fate'[jobs'[i].edition] = "live"
    BY DEF Alive
  <1>. USE DEF loop, history
  <1>0. jobs[i] # NoRow => /\ jobs[i] \in Rows /\ jobs[i].edition \in Numbers
                           /\ fate[jobs[i].edition] = "live"
    BY DEF TypeOK, Rows, Alive
  <1>1. CASE UNCHANGED fate /\ jobs[i] # NoRow /\ jobs'[i].edition = jobs[i].edition
    BY <1>0, <1>1
  <1>2. ASSUME NEW k \in Ids, NEW sched \in Schedules, NEW limit \in Limits, NEW ttl \in Lifetimes,
               AddJob(k, sched, limit, ttl)
        PROVE  fate'[jobs'[i].edition] = "live"
    <2>1. editions + 1 \in Numbers
      BY <1>2 DEF AddJob, TypeOK, Numbers
    <2>2. CASE k = i
      BY <1>2, <2>1, <2>2 DEF AddJob, TypeOK
    <2>3. CASE k # i
      BY <1>0, <1>2, <2>3 DEF AddJob, TypeOK
    <2>. QED  BY <2>2, <2>3
  <1>3. ASSUME NEW k \in Ids, NEW sched \in Schedules, UpdateJob(k, sched)
        PROVE  fate'[jobs'[i].edition] = "live"
    <2>1. editions + 1 \in Numbers /\ editions \in Nat /\ jobs[k] \in Rows
      BY <1>3 DEF UpdateJob, TypeOK, Numbers
    <2>2. CASE k = i
      <3>1. jobs[i].edition # editions + 1
        <4>1. jobs[i].edition \in Nat /\ jobs[i].edition <= editions
          BY <1>3, <2>1, <2>2, KnownNumbers DEF UpdateJob, Rows, Numbers
        <4>. QED  BY <2>1, <4>1
      <3>2. jobs'[i].edition = editions + 1
        BY <1>3, <2>1, <2>2 DEF UpdateJob, TypeOK, Rows
      <3>. QED  BY <1>0, <1>3, <2>1, <2>2, <3>1, <3>2 DEF UpdateJob, TypeOK
    <2>3. CASE k # i
      <3>1. jobs'[i] = jobs[i]
        BY <1>3, <2>3 DEF UpdateJob, TypeOK
      <3>2. jobs[i].edition # jobs[k].edition
        BY <1>3, <2>3, <3>1, HomeOf DEF UpdateJob
      <3>. QED  BY <1>0, <1>3, <3>1, <3>2 DEF UpdateJob, TypeOK
    <2>. QED  BY <2>2, <2>3
  <1>4. ASSUME NEW k \in Ids, NEW why, jobs[k] # NoRow, Remove(k, why)
        PROVE  fate'[jobs'[i].edition] = "live"
    <2>1. k # i /\ jobs'[i] = jobs[i]
      BY <1>4 DEF Remove, TypeOK
    <2>2. jobs[i].edition # jobs[k].edition
      BY <1>4, <2>1, HomeOf
    <2>. QED  BY <1>0, <1>4, <2>1, <2>2 DEF Remove, TypeOK
  <1>5. CASE RecoverMissedFires
    <2>1. jobs[i] # NoRow /\ jobs'[i].edition = jobs[i].edition /\ ~(Stale(i) /\ ~jobs[i].sched.cron)
      <3>1. CASE ~Stale(i)
        BY <1>5, <3>1 DEF RecoverMissedFires
      <3>2. CASE Stale(i)
        <4>1. jobs[i] \in Rows
          BY <3>2 DEF Stale, TypeOK
        <4>. QED  BY <1>5, <3>2, <4>1 DEF RecoverMissedFires, Rows, Stale
      <3>. QED  BY <3>1, <3>2
    <2>2. ASSUME NEW k \in Ids, Stale(k), ~jobs[k].sched.cron
          PROVE  jobs[k].edition # jobs[i].edition
      BY <2>1, <2>2, HomeOf DEF Stale
    <2>. QED  BY <1>0, <1>5, <2>1, <2>2 DEF RecoverMissedFires
  <1>6. ASSUME NEW s \in Instances, NEW d \in due[s], Claim(s, d)
        PROVE  UNCHANGED fate /\ jobs[i] # NoRow /\ jobs'[i].edition = jobs[i].edition
    <2>1. CASE UNCHANGED jobs
      BY <1>6, <2>1 DEF Claim
    <2>2. CASE jobs' = [jobs EXCEPT ![d.id].next = NextFire(d.row.sched, clock)] /\ jobs[d.id] # NoRow
      <3>1. jobs[d.id] \in Rows
        BY <2>2 DEF TypeOK
      <3>. QED  BY <1>6, <2>2, <3>1 DEF Claim, TypeOK, Rows
    <2>. QED  BY <1>6, <2>1, <2>2 DEF Claim, Reschedule
  <1>7. ASSUME NEW s \in Instances, NEW k \in Ids, CountFire(s, k)
        PROVE  UNCHANGED fate /\ jobs[i] # NoRow /\ jobs'[i].edition = jobs[i].edition
    <2>1. CASE UNCHANGED jobs
      BY <1>7, <2>1 DEF CountFire
    <2>2. CASE jobs' = [jobs EXCEPT ![k].count = @ + 1] /\ jobs[k] # NoRow
      <3>1. jobs[k] \in Rows
        BY <2>2 DEF TypeOK
      <3>. QED  BY <1>7, <2>2, <3>1 DEF CountFire, TypeOK, Rows
    <2>. QED  BY <1>7, <2>1, <2>2 DEF CountFire
  <1>8. ASSUME NEW s \in Instances, NEW k \in Ids, FireNext(s, k)
        PROVE  fate'[jobs'[i].edition] = "live"
    <2>1. CASE SettleOneShot(s, k) \/ SettleCron(s, k)
      BY <1>1, <1>4, <2>1 DEF SettleOneShot, SettleCron, Matches
    <2>. QED
      BY <1>1, <1>7, <1>8, <2>1 DEF FireNext, TurnStarts, TurnEnds, FireRefused, FireRejected,
         FireTimesOut, SettleFailed
  <1>. QED
    BY <1>1, <1>2, <1>3, <1>4, <1>5, <1>6, <1>8
       DEF Next, EditNext, InstanceNext, Tick, CancelJob, Start, RetryLock, Acquire, Stop, Release,
           Crash, Select, vars

LEMMA HeldHome ==
  ASSUME Homes, NEW i \in Ids, NEW k \in Ids, NEW q \in Rows, NEW r \in Rows,
         Held(i, q), Held(k, r), q.edition = r.edition
  PROVE  i = k
  BY DEF Homes, HomedAt

\* An edition runs only by its own fire.
LEMMA RunsByItsFire ==
  ASSUME TypeOK, Homes, [Next]_vars, NEW i \in Ids, NEW r \in Rows,
         Held(i, r) \/ (r = jobs[i] /\ jobs[i] # NoRow), NotYet(r), ~r.sched.cron,
         turns'[r.edition] # 0
  PROVE  \E s \in Instances : TurnStarts(s, i) /\ fire[s][i].row.edition = r.edition
  <1>1. r.edition \in Numbers /\ turns[r.edition] = 0
    BY DEF Rows, NotYet
  <1>2. PICK s \in Instances, k \in Ids :
          /\ TurnStarts(s, k) /\ fire[s][k].row \in Rows /\ Held(k, fire[s][k].row)
          /\ turns' = [turns EXCEPT ![fire[s][k].row.edition] = @ + 1]
    BY <1>1, TurnCounts
  <1>3. fire[s][k].row.edition = r.edition
    BY <1>1, <1>2 DEF TypeOK
  <1>4. k = i
    BY <1>2, <1>3, HeldHome, HomeOf
  <1>. QED  BY <1>2, <1>3, <1>4

LEMMA TurnPhase ==
  ASSUME TypeOK, NEW s \in Instances, NEW i \in Ids, TurnStarts(s, i)
  PROVE  /\ fire[s][i] # NoFire /\ fire[s][i].phase = "posted"
         /\ fire'[s][i] # NoFire /\ fire'[s][i].phase = "turn" /\ fire'[s][i].row = fire[s][i].row
  <1>1. fire[s][i] # NoFire /\ fire[s][i].phase = "posted" /\ fire[s][i] \in Fires
    BY DEF TurnStarts, InPhase, TypeOK
  <1>2. fire'[s][i] = [fire[s][i] EXCEPT !.phase = "turn"]
    BY DEF TurnStarts, SetPhase, TypeOK
  <1>3. [fire[s][i] EXCEPT !.phase = "turn"] \in Fires
    BY <1>1 DEF Fires
  <1>. QED  BY <1>1, <1>2, <1>3, SentinelAssumption DEF Fires

\* While the row that fires is in the table, its fire goes on to its end and
\* then removes it.
LEMMA RunningFire ==
  ASSUME Calm, TypeOK, Owned, Flight, NoneStops, Kin, [Next]_vars,
         NEW s \in Instances, NEW i \in Ids, fire[s][i] # NoFire, fire[s][i].phase \in {"turn", "ok"},
         jobs[i] # NoRow, fire[s][i].row.edition = jobs[i].edition, ~jobs[i].sched.cron,
         jobs'[i] # NoRow
  PROVE  /\ fire'[s][i] # NoFire /\ fire'[s][i].phase \in {"turn", "ok"}
         /\ fire'[s][i].row.edition = fire[s][i].row.edition
  <1>0. fire[s][i] \in Fires /\ fire[s][i].row \in Rows /\ Held(i, fire[s][i].row)
    BY DEF TypeOK, Fires, Held
  <1>1. ~fire[s][i].row.sched.cron /\ fire[s][i].row.next = jobs[i].next
    BY <1>0 DEF Kin, Akin
  <1>2. SettleOneShot(s, i) => FALSE
    <2>1. ~Fault("settleFault")
      BY DEF Calm, Fault
    <2>. QED  BY <1>1, <2>1 DEF SettleOneShot, Matches, Fired, Remove, TypeOK
  <1>3. CASE TurnEnds(s, i)
    <2>1. fire'[s][i] = [fire[s][i] EXCEPT !.phase = "ok"]
      BY <1>3 DEF TurnEnds, SetPhase, TypeOK
    <2>2. [fire[s][i] EXCEPT !.phase = "ok"] \in Fires
      BY <1>0 DEF Fires
    <2>. QED  BY <1>0, <2>1, <2>2, SentinelAssumption DEF Fires
  <1>4. ASSUME NEW t \in Instances, FireNext(t, i)
        PROVE  TurnEnds(s, i)
    <2>1. fire[t][i] # NoFire
      BY <1>4 DEF FireNext, TurnStarts, TurnEnds, FireRefused, FireRejected, FireTimesOut,
         SettleFailed, SettleOneShot, CountFire, SettleCron, InPhase
    <2>2. s = t
      BY <2>1, OneFires
    <2>3. ~FireTimesOut(s, i)
      BY DEF Calm, FireTimesOut, Fault
    <2>. QED
      BY <1>1, <1>2, <1>4, <2>2, <2>3 DEF FireNext, TurnStarts, FireRefused, FireRejected,
         SettleFailed, CountFire, SettleCron, InPhase, Fired
  <1>. QED  BY <1>3, <1>4, FireStepHolds DEF FireStep

LEMMA OneShotsStep ==
  ASSUME Calm, ReuseIds = FALSE, TypeOK, TypeOK', Owned, Flight, NoneStops, Homes, Kin, Tally, OneShots,
         [Next]_vars
  PROVE  OneShots'
  <1>1. ASSUME NEW i \in Ids, jobs'[i] # NoRow, ~jobs'[i].sched.cron, turns'[jobs'[i].edition] # 0
        PROVE  \E s \in Instances : /\ fire'[s][i] # NoFire /\ fire'[s][i].phase \in {"turn", "ok"}
                                    /\ fire'[s][i].row.edition = jobs'[i].edition
    <2>0. TableStep(i) /\ jobs'[i] \in Rows
      BY <1>1, TableSteps DEF TypeOK
    <2>1. CASE EditsRow(i) \/ AddsRow(i)
      <3>1. editions \in Nat /\ editions' = editions + 1 /\ jobs'[i].edition = editions'
        BY <2>1 DEF EditsRow, AddsRow, TypeOK
      <3>2. turns' = turns
        BY <3>1, NumberSteps
      <3>3. jobs'[i].edition \in Numbers
        BY <2>0 DEF Rows
      <3>. QED  BY <1>1, <3>1, <3>2, <3>3 DEF Tally
    <2>2. CASE KeepsRow(i)
      <3>1. /\ jobs[i] # NoRow /\ jobs[i] \in Rows /\ ~jobs[i].sched.cron
            /\ jobs'[i].edition = jobs[i].edition
        BY <1>1, <2>2 DEF KeepsRow, SameRow, TypeOK
      <3>2. CASE NotYet(jobs[i])
        <4>1. PICK s \in Instances : TurnStarts(s, i) /\ fire[s][i].row.edition = jobs[i].edition
          BY <1>1, <3>1, <3>2, RunsByItsFire
        <4>. QED  BY <3>1, <4>1, TurnPhase
      <3>3. ASSUME NEW s \in Instances, fire[s][i] # NoFire, fire[s][i].phase \in {"turn", "ok"},
                   fire[s][i].row.edition = jobs[i].edition
            PROVE  /\ fire'[s][i] # NoFire /\ fire'[s][i].phase \in {"turn", "ok"}
                   /\ fire'[s][i].row.edition = jobs'[i].edition
        BY <1>1, <3>1, <3>3, RunningFire
      <3>. QED  BY <3>1, <3>2, <3>3 DEF OneShots
    <2>. QED  BY <1>1, <2>0, <2>1, <2>2 DEF TableStep
  <1>2. ASSUME NEW s \in Instances, NEW d \in due'[s], ~d.row.sched.cron
        PROVE  turns'[d.row.edition] = 0
    <2>1. CASE d \in due[s]
      <3>1. d.id \in Ids /\ d.row \in Rows /\ Held(d.id, d.row) /\ NotYet(d.row)
        BY <2>1 DEF TypeOK, Held, OneShots
      <3>2. ASSUME NEW t \in Instances, TurnStarts(t, d.id)
            PROVE  FALSE
        <4>1. fire[t][d.id] # NoFire
          BY <3>1, <3>2, TurnPhase
        <4>2. t = s
          BY <2>1, <3>1, <4>1 DEF Owned, Busy
        <4>. QED  BY <2>1, <3>1, <4>1, <4>2 DEF Flight
      <3>3. ASSUME NEW i \in Ids, NEW r \in Rows, Held(i, r), NotYet(r), ~r.sched.cron,
                   turns'[r.edition] # 0
            PROVE  \E t \in Instances : TurnStarts(t, i)
        BY <3>3, RunsByItsFire
      <3>. QED  BY <1>2, <3>1, <3>2, <3>3
    <2>2. CASE d \notin due[s]
      <3>0. s \in Instances /\ d.id \in Ids /\ d.row \in Rows
        BY DEF TypeOK
      <3>1. Select(s)
        <4>1. ASSUME NEW t \in Instances, Select(t)
              PROVE  t = s
          BY <2>2, <4>1 DEF Select, TypeOK
        <4>2. ASSUME NEW t \in Instances, NEW e \in due[t], Claim(t, e)
              PROVE  due'[s] \subseteq due[s]
          BY <4>2 DEF Claim, TypeOK
        <4>3. ASSUME NEW t \in Instances, Crash(t)
              PROVE  due'[s] \subseteq due[s]
          BY <4>3 DEF Crash, TypeOK
        <4>4. ASSUME NEW t \in Instances, NEW k \in Ids, FireNext(t, k)
              PROVE  due'[s] \subseteq due[s]
          BY <4>4, FireKeeps
        <4>. QED
          BY <2>2, <4>1, <4>2, <4>3, <4>4
             DEF Next, EditNext, InstanceNext, Tick, AddJob, UpdateJob, CancelJob, Start, RetryLock,
                 Stop, Release, vars, loop
      <3>2. /\ d.id \in Ids \ inflight[s] /\ d.row = jobs[d.id] /\ jobs[d.id] # NoRow
            /\ state[s] = "polling" /\ turns' = turns
        BY <3>1 DEF Select, DueRows, TypeOK, history
      <3>3. \A t \in Instances : fire[t][d.id] = NoFire
        BY <3>0, <3>2 DEF Flight, Owned, Busy
      <3>4. NotYet(jobs[d.id])
        BY <3>2, <3>3 DEF OneShots
      <3>. QED  BY <1>2, <3>2, <3>4 DEF NotYet
    <2>. QED  BY <2>1, <2>2
  <1>3. ASSUME NEW s \in Instances, NEW i \in Ids, fire'[s][i] # NoFire,
               fire'[s][i].phase \in {"posted", "failed"}, ~fire'[s][i].row.sched.cron
        PROVE  turns'[fire'[s][i].row.edition] = 0
    <2>1. ASSUME fire[s][i] # NoFire, fire[s][i].phase \in {"posted", "failed"},
                 fire[s][i].row = fire'[s][i].row
          PROVE  turns'[fire'[s][i].row.edition] = 0
      <3>1. /\ fire'[s][i].row \in Rows /\ Held(i, fire'[s][i].row) /\ NotYet(fire'[s][i].row)
        BY <2>1 DEF TypeOK, Fires, Held, OneShots
      <3>2. ASSUME NEW t \in Instances, TurnStarts(t, i)
            PROVE  FALSE
        <4>1. fire[t][i] # NoFire /\ fire'[t][i].phase = "turn"
          BY <3>2, TurnPhase
        <4>2. t = s
          BY <2>1, <4>1, OneFires
        <4>. QED  BY <1>3, <4>1, <4>2
      <3>3. ASSUME NEW r \in Rows, Held(i, r), NotYet(r), ~r.sched.cron, turns'[r.edition] # 0
            PROVE  \E t \in Instances : TurnStarts(t, i)
        BY <3>3, RunsByItsFire
      <3>. QED  BY <1>3, <3>1, <3>2, <3>3
    <2>2. CASE fire'[s][i] = fire[s][i]
      BY <1>3, <2>1, <2>2
    <2>3. ASSUME NEW d \in due[s], Claim(s, d), d.id = i
          PROVE  turns'[fire'[s][i].row.edition] = 0
      <3>1. fire'[s][i].row = d.row /\ turns' = turns
        BY <2>3 DEF Claim, TypeOK
      <3>2. NotYet(d.row)
        BY DEF OneShots
      <3>. QED  BY <1>3, <3>1, <3>2 DEF NotYet
    <2>4. CASE FireNext(s, i) /\ fire[s][i] # NoFire
      <3>0. fire[s][i] \in Fires
        BY <2>4 DEF TypeOK
      <3>1. ASSUME NEW phase \in {"turn", "ok", "failed"}, SetPhase(s, i, phase)
            PROVE  fire'[s][i].row = fire[s][i].row /\ fire'[s][i].phase = phase
        BY <3>0, <3>1 DEF SetPhase, TypeOK, Fires
      <3>2. ~FireRejected(s, i) /\ ~FireTimesOut(s, i)
        BY DEF Calm, FireRejected, FireTimesOut, Fault
      <3>3. ~FireOver(s, i)
        BY <1>3 DEF FireOver, TypeOK
      <3>4. ASSUME CountFire(s, i)
            PROVE  FALSE
        <4>1. \E n : Counted(s, i, n)
          BY <3>4 DEF CountFire
        <4>. QED  BY <1>3, <4>1 DEF Counted, TypeOK
      <3>5. FireRefused(s, i)
        BY <1>3, <2>4, <3>1, <3>2, <3>3, <3>4 DEF FireNext, TurnStarts, TurnEnds, SettleFailed,
           SettleOneShot, SettleCron
      <3>. QED  BY <2>1, <2>4, <3>1, <3>5 DEF FireRefused, InPhase
    <2>. QED  BY <1>3, <2>2, <2>3, <2>4, FireChanges
  <1>. QED  BY <1>1, <1>2, <1>3 DEF OneShots, NotYet

\* All of it together is inductive.
Counting == NoneStops /\ Homes /\ Kin /\ Tally /\ CountRead /\ AtLimit /\ Alive /\ OneShots

LEMMA CountingInit ==
  ASSUME Init
  PROVE  Owned /\ Flight /\ Counting
  <1>1. Owned /\ Flight
    BY DEF Init, Owned, Busy, Flight
  <1>2. \A i \in Ids, r \in Rows : ~Held(i, r)
    BY DEF Init, Held
  <1>3. Homes
    <2>1. PICK h : h \in [1 .. 0 -> Ids]
      <3>1. [n \in 1 .. 0 |-> CHOOSE i \in Ids : TRUE] \in [1 .. 0 -> Ids]
        OBVIOUS
      <3>. QED  BY <3>1
    <2>. QED  BY <1>2, <2>1 DEF Init, Homes
  <1>. QED
    BY <1>1, <1>2, <1>3 DEF Init, Counting, NoneStops, Kin, Tally, CountRead, AtLimit, Alive, OneShots

LEMMA CountingStep ==
  ASSUME Calm, ReuseIds = FALSE, TypeOK, TypeOK', Owned, Flight, Counting, [Next]_vars
  PROVE  Owned' /\ Flight' /\ Counting'
  <1>1. Owned' /\ Flight'
    BY OwnedStep, FlightStep
  <1>2. NoneStops'
    BY NoneStopsStep DEF Counting, Calm
  <1>3. Homes'
    BY HomesStep DEF Counting
  <1>4. Kin'
    BY KinStep DEF Counting
  <1>5. Tally'
    BY TallyStep DEF Counting
  <1>6. CountRead'
    BY CountReadStep DEF Counting
  <1>7. AtLimit'
    BY AtLimitStep DEF Counting
  <1>8. Alive'
    BY AliveStep DEF Counting
  <1>9. OneShots'
    BY OneShotsStep DEF Counting
  <1>. QED  BY <1>1, <1>2, <1>3, <1>4, <1>5, <1>6, <1>7, <1>8, <1>9 DEF Counting

\* A row is recorded as expired by the settling of a counted fire.
LEMMA ExpiredBySettling ==
  ASSUME TypeOK, [Next]_vars, NEW n \in Numbers, fate[n] = "live", fate'[n] = "expired"
  PROVE  \E s \in Instances, k \in Ids : SettleCron(s, k) /\ Remove(k, "expired") /\ jobs[k] # NoRow
  <1>. USE DEF loop, history
  <1>1. ASSUME NEW k \in Ids, NEW sched \in Schedules, NEW limit \in Limits, NEW ttl \in Lifetimes,
               AddJob(k, sched, limit, ttl)
        PROVE  FALSE
    BY <1>1 DEF AddJob, TypeOK
  <1>2. ASSUME NEW k \in Ids, NEW sched \in Schedules, UpdateJob(k, sched)
        PROVE  FALSE
    BY <1>2 DEF UpdateJob, TypeOK
  <1>3. ASSUME NEW k \in Ids, NEW why \in {"canceled", "fired"}, Remove(k, why)
        PROVE  FALSE
    BY <1>3 DEF Remove, TypeOK
  <1>4. ~RecoverMissedFires
    BY DEF RecoverMissedFires
  <1>5. ~UNCHANGED fate
    OBVIOUS
  <1>6. ASSUME NEW s \in Instances, NEW k \in Ids, FireNext(s, k)
        PROVE  SettleCron(s, k) /\ Remove(k, "expired") /\ jobs[k] # NoRow
    BY <1>3, <1>5, <1>6 DEF FireNext, TurnStarts, TurnEnds, FireRefused, FireRejected, FireTimesOut,
       SettleFailed, SettleOneShot, CountFire, SettleCron
  <1>. QED
    BY <1>1, <1>2, <1>3, <1>4, <1>5, <1>6
       DEF Next, EditNext, InstanceNext, Tick, CancelJob, Start, RetryLock, Acquire, Stop, Release,
           Crash, Select, Claim, vars

\* If an id is not added again under a cron that fires, and nothing worse
\* happens than a refused request or a slot that is not rescheduled, a row
\* expires by its own doing: it has started its max_fires turns, or outlived
\* its ttl.
THEOREM ExpiriesEarned ==
  ASSUME ReuseIds = FALSE, Faults \subseteq {"refused", "storeFault"}
  PROVE  Spec => ExpiryEarned
  <1>1. TypeOK /\ TypeOK' /\ Owned /\ Flight /\ Counting /\ [Next]_vars
          => Owned' /\ Flight' /\ Counting'
    BY CountingStep DEF Calm
  <1> DEFINE Earned(i) == \/ jobs[i].limit # NoLimit /\ served[jobs[i].birth] >= jobs[i].limit
                          \/ jobs[i].until # NoLimit /\ clock > jobs[i].until
  <1>2. ASSUME TypeOK, Homes, Kin, Tally, CountRead, Alive, [Next]_vars, NEW i \in Ids,
               jobs[i] # NoRow, fate'[jobs[i].edition] = "expired"
        PROVE  Earned(i)
    <2>1. jobs[i] \in Rows /\ fate[jobs[i].edition] = "live"
      BY <1>2 DEF TypeOK, Alive
    <2>2. PICK s \in Instances, k \in Ids : SettleCron(s, k) /\ Remove(k, "expired") /\ jobs[k] # NoRow
      BY <1>2, <2>1, ExpiredBySettling DEF Rows
    <2>3. k = i
      BY <1>2, <2>1, <2>2, HomeOf DEF Remove, TypeOK
    <2>4. fire[s][i] # NoFire /\ fire[s][i].phase = "counted" /\ Expired(fire[s][i].row)
      <3>1. fire[s][i] # NoFire /\ fire[s][i].phase = "counted"
        BY <2>2, <2>3 DEF SettleCron, InPhase
      <3>2. jobs' # jobs
        BY <1>2, <2>2, <2>3, SentinelAssumption DEF Remove, TypeOK
      <3>. QED  BY <2>2, <2>3, <3>1, <3>2 DEF SettleCron, Fired
    <2>5. /\ fire[s][i].row \in Rows /\ fire[s][i].row.sched.cron /\ Held(i, fire[s][i].row)
          /\ fire[s][i].row.count = jobs[i].count
      BY <1>2, <2>4 DEF TypeOK, Fires, CountRead, Held
    <2>6. fire[s][i].row.limit = jobs[i].limit /\ fire[s][i].row.until = jobs[i].until
      BY <1>2, <2>5 DEF Kin, Akin
    <2>7. jobs[i].limit # NoLimit => jobs[i].limit \in Nat
      BY <2>1 DEF Rows
    <2>8. served[jobs[i].birth] \in Nat /\ jobs[i].count \in Nat /\ served[jobs[i].birth] >= jobs[i].count
      BY <1>2, <2>1 DEF TypeOK, Rows, Tally
    <2>. QED  BY <2>4, <2>5, <2>6, <2>7, <2>8 DEF Expired
  <1>3. TypeOK /\ Counting /\ [Next]_vars
          => [\A i \in Ids : jobs[i] # NoRow /\ fate'[jobs[i].edition] = "expired" => Earned(i)]_vars
    BY <1>2 DEF Counting
  <1>. QED  BY <1>1, <1>3, CountingInit, TypeCorrect, PTL DEF Spec, ExpiryEarned

\* Under the same assumptions a one-shot runs once: retries of refused requests, edits and settling
\* never start a second turn for an edition of it.
THEOREM OneShotsOnce ==
  ASSUME ReuseIds = FALSE, Faults \subseteq {"refused", "storeFault"}
  PROVE  Spec => OneShotOnce
  <1>1. TypeOK /\ TypeOK' /\ Owned /\ Flight /\ Counting /\ [Next]_vars
          => Owned' /\ Flight' /\ Counting'
    BY CountingStep DEF Calm
  <1>2. ASSUME TypeOK, Owned, Homes, OneShots, [Next]_vars, NEW s \in Instances, NEW i \in Ids,
               NEW n \in Numbers, turns'[n] > turns[n], fire[s][i] # NoFire, Fired(s, i).edition = n,
               ~Fired(s, i).sched.cron
        PROVE  turns[n] = 0
    <2>1. turns \in [Numbers -> Nat] /\ turns[n] \in Nat /\ turns'[n] # turns[n]
      BY <1>2 DEF TypeOK
    <2>2. PICK t \in Instances, k \in Ids :
            /\ TurnStarts(t, k) /\ fire[t][k] # NoFire
            /\ fire[t][k].row \in Rows /\ Held(k, fire[t][k].row)
            /\ turns' = [turns EXCEPT ![fire[t][k].row.edition] = @ + 1]
      BY <1>2, <2>1, TurnCounts
    <2>3. fire[t][k].row.edition = n
      BY <2>1, <2>2
    <2>4. fire[s][i].row \in Rows /\ Held(i, fire[s][i].row)
      BY <1>2 DEF TypeOK, Fires, Held
    <2>5. k = i
      BY <1>2, <2>2, <2>3, <2>4, HeldHome DEF Fired
    <2>6. t = s
      BY <1>2, <2>2, OneFires
    <2>7. fire[s][i].phase = "posted"
      BY <1>2, <2>2, <2>5, <2>6, TurnPhase
    <2>. QED  BY <1>2, <2>7 DEF OneShots, NotYet, Fired
  <1>3. TypeOK /\ Owned /\ Counting /\ [Next]_vars
          => [\A s \in Instances, i \in Ids : \A n \in Numbers :
                turns'[n] > turns[n] /\ fire[s][i] # NoFire /\ Fired(s, i).edition = n
                  /\ ~Fired(s, i).sched.cron => turns[n] = 0]_vars
    BY <1>2 DEF Counting
  <1>. QED  BY <1>1, <1>3, CountingInit, TypeCorrect, PTL DEF Spec, OneShotOnce

(***************************************************************************)
(* Turns against max_fires, under every fault and however ids are reused.  *)
(***************************************************************************)

\* The fire of an id is that of the very add whose row is in the table.
Own(s, i) == /\ fire[s][i] # NoFire /\ fire[s][i].row.sched.cron
             /\ fire[s][i].row.birth = jobs[i].birth

\* Such a fire has its turn, and is not counted yet; or it has read a count
\* that will remove the row.
InTurn(i) == \E s \in Instances : Own(s, i) /\ fire[s][i].phase \in {"turn", "ok"}
Removes(i) == \E s \in Instances : /\ Own(s, i) /\ fire[s][i].phase = "counted"
                                   /\ fire[s][i].row.count >= jobs[i].limit

\* The turns of a row are counted, unsettled, or the one under way; and there
\* is room for another, unless the fire under way has taken the last place.
Room(i) ==
  /\ served[jobs[i].birth] <=
       jobs[i].count + unsettled[jobs[i].birth] + (IF InTurn(i) THEN 1 ELSE 0)
  /\ jobs[i].limit # NoLimit =>
       /\ served[jobs[i].birth] <= jobs[i].limit + unsettled[jobs[i].birth]
       /\ served[jobs[i].birth] = jobs[i].limit + unsettled[jobs[i].birth]
            => InTurn(i) \/ Removes(i)

\* Rows of one add have one limit, and an add to come has had no turn.
SameLimits == \A i \in Ids, r \in Rows :
  Held(i, r) /\ jobs[i] # NoRow /\ r.birth = jobs[i].birth => r.limit = jobs[i].limit
Unserved == \A n \in Numbers : n > editions => served[n] = 0
Rooms == \A i \in Ids : jobs[i] # NoRow => Room(i)

Capping == Homes /\ SameLimits /\ Unserved /\ Rooms

LEMMA SameLimitsStep ==
  ASSUME TypeOK, TypeOK', Owned, Flight, Homes, SameLimits, [Next]_vars
  PROVE  SameLimits'
  <1> SUFFICES ASSUME NEW i \in Ids, NEW r \in Rows, Held(i, r)', jobs'[i] # NoRow,
                      r.birth = jobs'[i].birth
               PROVE  r.limit = jobs'[i].limit
    BY DEF SameLimits, Held
  <1>1. CASE r = jobs[i] /\ UNCHANGED jobs
    BY <1>1
  <1>2. ASSUME NEW q \in Rows, Held(i, q), SameRow(q, r)
        PROVE  r.limit = jobs'[i].limit
    <2>1. q.birth <= editions /\ q.birth \in Nat /\ editions \in Nat
      <3>1. q.birth <= editions
        BY <1>2, KnownNumbers
      <3>. QED  BY <3>1 DEF TypeOK, Rows, Numbers
    <2>2. ~AddsRow(i)
      BY <1>2, <2>1 DEF AddsRow, SameRow
    <2>3. jobs[i] # NoRow /\ jobs'[i].birth = jobs[i].birth /\ jobs'[i].limit = jobs[i].limit
      BY <2>2, TableSteps DEF TableStep, KeepsRow, EditsRow, SameRow
    <2>. QED  BY <1>2, <2>3 DEF SameLimits, SameRow
  <1>. QED  BY <1>1, <1>2, HeldFrom

LEMMA UnservedStep ==
  ASSUME TypeOK, TypeOK', Homes, Unserved, [Next]_vars
  PROVE  Unserved'
  <1> SUFFICES ASSUME NEW n \in Numbers, n > editions'
               PROVE  served'[n] = 0
    BY DEF Unserved
  <1>1. editions \in Nat /\ editions' \in Nat /\ n \in Nat
    BY DEF TypeOK, Numbers
  <1>2. n > editions
    BY <1>1, NumberSteps
  <1>3. ASSUME NEW r \in Rows, NEW k \in Ids, Held(k, r)
        PROVE  r.birth # n
    BY <1>1, <1>2, <1>3, KnownNumbers
  <1>. QED  BY <1>2, <1>3, TurnCounts DEF TypeOK, Unserved

\* Turns that were left unsettled stay so.
LEMMA UnsettledGrows ==
  ASSUME TypeOK, [Next]_vars, NEW n \in Numbers
  PROVE  unsettled'[n] >= unsettled[n]
  <1>0. UNCHANGED unsettled => unsettled'[n] >= unsettled[n]
    BY DEF TypeOK
  <1>1. ASSUME NEW s \in Instances, NEW i \in Ids, FireNext(s, i)
        PROVE  unsettled'[n] >= unsettled[n]
    <2>1. fire[s][i] \in Fires
      BY <1>1 DEF FireNext, TurnStarts, TurnEnds, FireRefused, FireRejected, FireTimesOut,
         SettleFailed, SettleOneShot, CountFire, SettleCron, InPhase, TypeOK
    <2>2. UNCHANGED unsettled \/ LeavesUnsettled(s, i)
      BY <1>1 DEF FireNext, TurnStarts, TurnEnds, FireRefused, FireRejected, FireTimesOut,
         SettleFailed, SettleOneShot, CountFire, SettleCron, history
    <2>. QED  BY <1>0, <2>1, <2>2, LeavesType
  <1>2. ASSUME NEW s \in Instances, Release(s) \/ Crash(s)
        PROVE  unsettled'[n] >= unsettled[n]
    BY <1>2, DroppedType DEF Release, Crash
  <1>. QED
    BY <1>0, <1>1, <1>2
       DEF Next, EditNext, InstanceNext, Tick, AddJob, UpdateJob, CancelJob, Start, RetryLock, Stop,
           Select, Claim, vars, history

\* A turn of a row is started by its own fire.
LEMMA ServedByOwn ==
  ASSUME TypeOK, Homes, [Next]_vars, NEW i \in Ids, jobs[i] # NoRow
  PROVE  \/ served'[jobs[i].birth] = served[jobs[i].birth]
         \/ /\ served'[jobs[i].birth] = served[jobs[i].birth] + 1
            /\ \E s \in Instances : TurnStarts(s, i) /\ Own(s, i)
  <1>1. jobs[i].birth \in Numbers /\ served \in [Numbers -> Nat]
    BY DEF TypeOK, Rows
  <1>2. ASSUME NEW s \in Instances, NEW k \in Ids, TurnStarts(s, k), fire[s][k] # NoFire,
               fire[s][k].row \in Rows, Held(k, fire[s][k].row), fire[s][k].row.sched.cron,
               fire[s][k].row.birth = jobs[i].birth
        PROVE  k = i /\ Own(s, i)
    BY <1>2, HomeOf DEF Own
  <1>. QED  BY <1>1, <1>2, TurnCounts

\* How a fire changes: by a claim, a step of its own, or the end of its
\* instance, after which its turn is unsettled.
LEMMA FireLeaves ==
  ASSUME TypeOK, [Next]_vars, NEW s \in Instances, NEW i \in Ids, fire'[s][i] # fire[s][i]
  PROVE  \/ \E d \in due[s] : Claim(s, d) /\ d.id = i
         \/ FireNext(s, i)
         \/ Dropped(s)
  <1>1. ASSUME NEW r \in Instances, Release(r) \/ Crash(r)
        PROVE  Dropped(s)
    <2>1. fire' = [fire EXCEPT ![r] = [k \in Ids |-> NoFire]] /\ Dropped(r)
      BY <1>1 DEF Release, Crash
    <2>2. r = s
      BY <2>1 DEF TypeOK
    <2>. QED  BY <2>1, <2>2
  <1>2. ASSUME NEW r \in Instances, NEW d \in due[r], Claim(r, d)
        PROVE  r = s /\ d.id = i
    BY <1>2 DEF Claim, TypeOK
  <1>3. ASSUME NEW r \in Instances, NEW k \in Ids, FireNext(r, k)
        PROVE  r = s /\ k = i
    <2>1. ASSUME NEW f, fire' = [fire EXCEPT ![r][k] = f]
          PROVE  r = s /\ k = i
      BY <2>1 DEF TypeOK
    <2>2. \E f : fire' = [fire EXCEPT ![r][k] = f]
      BY <1>3, Zenon DEF FireNext, TurnStarts, TurnEnds, FireRefused, FireRejected, FireTimesOut,
         SettleFailed, SettleOneShot, CountFire, SettleCron, SetPhase, FireOver, Counted
    <2>. QED  BY <2>1, <2>2
  <1>4. ~UNCHANGED fire
    OBVIOUS
  <1>. QED
    BY <1>1, <1>2, <1>3, <1>4
       DEF Next, EditNext, InstanceNext, Tick, AddJob, UpdateJob, CancelJob, Start, RetryLock, Stop,
           Select, vars

\* There is room after a step that starts no turn of the row, if what took the
\* last place still does or is now unsettled.
LEMMA RoomStays ==
  ASSUME TypeOK, TypeOK', NEW i \in Ids, jobs[i] # NoRow, jobs'[i] # NoRow, Room(i),
         jobs'[i].birth = jobs[i].birth, jobs'[i].limit = jobs[i].limit,
         jobs'[i].count >= jobs[i].count,
         served'[jobs[i].birth] = served[jobs[i].birth],
         \/ unsettled'[jobs[i].birth] >= unsettled[jobs[i].birth] + 1
         \/ /\ unsettled'[jobs[i].birth] >= unsettled[jobs[i].birth]
            /\ InTurn(i) => InTurn(i)'
            /\ jobs[i].limit # NoLimit /\ Removes(i) => Removes(i)'
  PROVE  Room(i)'
  <1> DEFINE b == jobs[i].birth
             v == served[b]
             u == unsettled[b]
             w == unsettled'[b]
             c == jobs[i].count
             l == jobs[i].limit
  <1>1. v \in Nat /\ u \in Nat /\ w \in Nat /\ c \in Nat /\ jobs'[i].count \in Nat
    BY DEF TypeOK, Rows
  <1>2. l # NoLimit => l \in Nat
    BY DEF TypeOK, Rows
  <1>3. v <= c + u + 1 /\ (~InTurn(i) => v <= c + u)
    BY <1>1 DEF Room
  <1>4. l # NoLimit => v <= l + u /\ (v = l + u => InTurn(i) \/ Removes(i))
    BY DEF Room
  <1>5. v <= jobs'[i].count + w + (IF InTurn(i)' THEN 1 ELSE 0)
    BY <1>1, <1>3
  <1>6. ASSUME l # NoLimit
        PROVE  v <= l + w /\ (v = l + w => InTurn(i)' \/ Removes(i)')
    BY <1>1, <1>2, <1>4, <1>6
  <1>. QED  BY <1>5, <1>6 DEF Room

\* A step of the row's own fire.
LEMMA RoomOfFire ==
  ASSUME TypeOK, TypeOK', Owned, Flight, SameLimits, [Next]_vars, NEW s \in Instances, NEW i \in Ids,
         FireNext(s, i), ~(TurnStarts(s, i) /\ Own(s, i)), jobs[i] # NoRow, jobs'[i] # NoRow, Room(i),
         jobs'[i].birth = jobs[i].birth, jobs'[i].limit = jobs[i].limit,
         jobs'[i].count >= jobs[i].count,
         served'[jobs[i].birth] = served[jobs[i].birth]
  PROVE  Room(i)'
  <1>0. fire[s][i] # NoFire /\ fire[s][i] \in Fires /\ fire[s][i].row \in Rows
    BY DEF FireNext, TurnStarts, TurnEnds, FireRefused, FireRejected, FireTimesOut,
       SettleFailed, SettleOneShot, CountFire, SettleCron, InPhase, TypeOK, Fires
  <1>1. \A t \in Instances \ {s} : fire[t][i] = NoFire
    BY <1>0, OneFires
  <1>2. unsettled'[jobs[i].birth] >= unsettled[jobs[i].birth]
    BY UnsettledGrows DEF TypeOK, Rows
  <1>3. InTurn(i) <=> Own(s, i) /\ fire[s][i].phase \in {"turn", "ok"}
    BY <1>1 DEF InTurn, Own
  <1>4. Removes(i) <=> /\ Own(s, i) /\ fire[s][i].phase = "counted"
                       /\ fire[s][i].row.count >= jobs[i].limit
    BY <1>1 DEF Removes, Own
  <1>5. CASE ~InTurn(i) /\ (jobs[i].limit # NoLimit => ~Removes(i))
    BY <1>2, <1>5, RoomStays
  <1>6. CASE Own(s, i) /\ LeavesUnsettled(s, i)
    <2>1. unsettled'[jobs[i].birth] = unsettled[jobs[i].birth] + 1
      BY <1>6 DEF LeavesUnsettled, Own, Fired, TypeOK, Rows
    <2>. QED  BY <2>1, RoomStays DEF TypeOK, Rows
  <1>7. CASE TurnEnds(s, i) /\ Own(s, i)
    <2>1. fire'[s][i] = [fire[s][i] EXCEPT !.phase = "ok"] /\ fire[s][i].phase = "turn"
      BY <1>7 DEF TurnEnds, SetPhase, InPhase, TypeOK
    <2>2. [fire[s][i] EXCEPT !.phase = "ok"] \in Fires
      BY <1>0 DEF Fires
    <2>3. /\ fire'[s][i] # NoFire /\ fire'[s][i].row = fire[s][i].row
          /\ fire'[s][i].phase = "ok"
      BY <1>0, <2>1, <2>2, SentinelAssumption DEF Fires
    <2>4. InTurn(i)'
      BY <1>7, <2>3 DEF InTurn, Own
    <2>. QED  BY <1>2, <1>4, <2>1, <2>4, RoomStays
  <1>8. CASE TurnStarts(s, i) \/ FireRefused(s, i) \/ FireRejected(s, i) \/ SettleFailed(s, i)
    BY <1>3, <1>4, <1>5, <1>8 DEF TurnStarts, FireRefused, FireRejected, SettleFailed, InPhase
  <1>9. CASE SettleOneShot(s, i)
    BY <1>3, <1>4, <1>5, <1>9 DEF SettleOneShot, Fired, Own
  <1>10. CASE FireTimesOut(s, i)
    BY <1>3, <1>4, <1>5, <1>6, <1>10 DEF FireTimesOut
  <1>11. CASE CountFire(s, i) /\ Own(s, i)
    <2>1. fire[s][i].phase = "ok"
      BY <1>11 DEF CountFire, InPhase
    <2>2. CASE /\ jobs' = [jobs EXCEPT ![i].count = @ + 1] /\ Counted(s, i, jobs[i].count + 1)
               /\ UNCHANGED unsettled
      <3>1. jobs'[i].count = jobs[i].count + 1 /\ jobs[i].count \in Nat
        BY <2>2 DEF TypeOK, Rows
      <3>2. fire'[s][i] = [row |-> [fire[s][i].row EXCEPT !.count = jobs[i].count + 1],
                           phase |-> "counted"]
        BY <2>2 DEF Counted, TypeOK
      <3>3. /\ fire'[s][i].phase = "counted" /\ fire'[s][i].row.sched = fire[s][i].row.sched
            /\ fire'[s][i].row.birth = fire[s][i].row.birth
            /\ fire'[s][i].row.count = jobs[i].count + 1
        BY <1>0, <3>2 DEF Rows
      <3>4. fire'[s][i] # NoFire
        <4>1. [fire[s][i].row EXCEPT !.count = jobs[i].count + 1] \in Rows
          <5>1. jobs[i].count + 1 \in Nat
            BY <3>1
          <5>. QED  BY <1>0, <5>1, CountType
        <4>. QED  BY <3>2, <4>1, SentinelAssumption DEF Fires
      <3>5. Own(s, i)'
        BY <1>11, <3>3, <3>4 DEF Own
      <3>6. jobs[i].count + 1 >= jobs[i].limit => Removes(i)'
        BY <3>3, <3>5 DEF Removes
      <3>7. served[jobs[i].birth] <= jobs[i].count + unsettled[jobs[i].birth] + 1
        BY <1>3, <1>11, <2>1 DEF Room
      <3>8. served[jobs[i].birth] \in Nat /\ unsettled[jobs[i].birth] \in Nat
            /\ (jobs[i].limit # NoLimit => jobs[i].limit \in Nat)
        BY DEF TypeOK, Rows
      <3>9. served'[jobs'[i].birth] = served[jobs[i].birth]
            /\ unsettled'[jobs'[i].birth] = unsettled[jobs[i].birth]
        BY <2>2
      <3>10. served[jobs[i].birth] <= jobs'[i].count + unsettled[jobs[i].birth]
                                       + (IF InTurn(i)' THEN 1 ELSE 0)
        BY <3>1, <3>7, <3>8
      <3>11. ASSUME jobs[i].limit # NoLimit
             PROVE  /\ served[jobs[i].birth] <= jobs[i].limit + unsettled[jobs[i].birth]
                    /\ served[jobs[i].birth] = jobs[i].limit + unsettled[jobs[i].birth]
                         => Removes(i)'
        BY <3>1, <3>6, <3>7, <3>8, <3>11 DEF Room
      <3>. QED  BY <3>9, <3>10, <3>11 DEF Room
    <2>. QED  BY <1>6, <1>11, <2>2 DEF CountFire
  <1>12. CASE SettleCron(s, i) /\ Own(s, i)
    <2>1. fire[s][i].phase = "counted"
      BY <1>12 DEF SettleCron, InPhase
    <2>2. CASE ~Expired(Fired(s, i))
      <3>1. Held(i, fire[s][i].row)
        BY <1>0 DEF Held
      <3>2. fire[s][i].row.limit = jobs[i].limit
        BY <1>0, <1>12, <3>1 DEF SameLimits, Own
      <3>3. jobs[i].limit # NoLimit => ~Removes(i)
        BY <1>4, <2>2, <3>2 DEF Expired, Fired
      <3>. QED  BY <1>3, <1>5, <2>1, <3>3
    <2>3. ~Remove(i, "expired")
      BY DEF Remove, TypeOK
    <2>. QED  BY <1>6, <1>12, <2>2, <2>3 DEF SettleCron
  <1>. QED
    BY <1>3, <1>4, <1>5, <1>7, <1>8, <1>9, <1>10, <1>11, <1>12 DEF FireNext

LEMMA RoomsStep ==
  ASSUME TypeOK, TypeOK', Owned, Flight, Homes, SameLimits, Unserved, Rooms, [Next]_vars
  PROVE  Rooms'
  <1> SUFFICES ASSUME NEW i \in Ids, jobs'[i] # NoRow
               PROVE  Room(i)'
    BY DEF Rooms
  <1>0. TableStep(i)
    BY TableSteps
  <1>1. CASE AddsRow(i)
    <2>1. UNCHANGED served /\ jobs'[i].birth = editions + 1 /\ editions \in Nat
      BY <1>1, NumberSteps DEF AddsRow, TypeOK
    <2>2. jobs'[i] \in Rows
      BY DEF TypeOK
    <2>3. served'[jobs'[i].birth] = 0
      BY <2>1, <2>2 DEF Unserved, Rows
    <2>4. unsettled'[jobs'[i].birth] \in Nat /\ jobs'[i].count \in Nat
          /\ (jobs'[i].limit # NoLimit => jobs'[i].limit \in Nat \ {0})
      BY <2>2 DEF TypeOK, Rows
    <2>. QED  BY <2>3, <2>4 DEF Room
  <1>2. CASE KeepsRow(i) \/ EditsRow(i)
    <2>1. /\ jobs[i] # NoRow /\ jobs'[i].birth = jobs[i].birth /\ jobs'[i].limit = jobs[i].limit
          /\ jobs'[i].count >= jobs[i].count
      BY <1>2 DEF KeepsRow, EditsRow, SameRow, TypeOK, Rows
    <2>2. Room(i) /\ unsettled'[jobs[i].birth] >= unsettled[jobs[i].birth]
      BY <2>1, UnsettledGrows DEF Rooms, TypeOK, Rows
    <2>3. ASSUME NEW s \in Instances, TurnStarts(s, i), Own(s, i),
                 served'[jobs[i].birth] = served[jobs[i].birth] + 1
          PROVE  Room(i)'
      <3>1. /\ fire[s][i] # NoFire /\ fire[s][i].phase = "posted"
            /\ fire'[s][i] # NoFire /\ fire'[s][i].phase = "turn"
            /\ fire'[s][i].row = fire[s][i].row
        BY <2>3, TurnPhase
      <3>2. ~InTurn(i) /\ ~Removes(i)
        BY <3>1, OneFires DEF InTurn, Removes, Own
      <3>3. InTurn(i)'
        BY <2>1, <2>3, <3>1 DEF InTurn, Own
      <3>4. jobs[i].count \in Nat /\ jobs'[i].count \in Nat /\ served[jobs[i].birth] \in Nat
            /\ unsettled[jobs[i].birth] \in Nat /\ unsettled'[jobs[i].birth] \in Nat
            /\ (jobs[i].limit # NoLimit => jobs[i].limit \in Nat)
        BY <2>1 DEF TypeOK, Rows
      <3>5. served[jobs[i].birth] + 1 <= jobs'[i].count + unsettled'[jobs[i].birth] + 1
        BY <2>1, <2>2, <3>2, <3>4 DEF Room
      <3>6. jobs[i].limit # NoLimit =>
              served[jobs[i].birth] + 1 <= jobs[i].limit + unsettled'[jobs[i].birth]
        BY <2>2, <3>2, <3>4 DEF Room
      <3>. QED  BY <2>1, <2>3, <3>3, <3>5, <3>6 DEF Room
    <2>4. CASE served'[jobs[i].birth] = served[jobs[i].birth]
      <3>1. CASE \A s \in Instances : fire'[s][i] = fire[s][i]
        BY <2>1, <2>2, <2>4, <3>1, RoomStays DEF InTurn, Removes, Own
      <3>2. ASSUME NEW s \in Instances, NEW d \in due[s], Claim(s, d), d.id = i
            PROVE  Room(i)'
        <4>1. \A t \in Instances : fire[t][i] = NoFire
          BY <3>2 DEF Owned, Busy, Flight
        <4>. QED  BY <2>1, <2>2, <2>4, <4>1, RoomStays DEF InTurn, Removes, Own
      <3>3. ASSUME NEW s \in Instances, FireNext(s, i)
            PROVE  Room(i)'
        <4>1. TurnStarts(s, i) /\ Own(s, i) => FALSE
          <5>1. TurnStarts(s, i) /\ Own(s, i)
                  => served'[jobs[i].birth] = served[jobs[i].birth] + 1
            BY <2>1 DEF TurnStarts, Own, Fired, TypeOK, Rows
          <5>2. served[jobs[i].birth] \in Nat
            BY <2>1 DEF TypeOK, Rows
          <5>. QED  BY <2>4, <5>1, <5>2
        <4>. QED  BY <2>1, <2>2, <2>4, <3>3, <4>1, RoomOfFire
      <3>4. ASSUME NEW s \in Instances, fire'[s][i] # fire[s][i], Dropped(s)
            PROVE  Room(i)'
        <4>1. CASE Own(s, i) /\ fire[s][i].phase \in {"turn", "ok", "counted"}
          <5>1. unsettled'[jobs[i].birth] = unsettled[jobs[i].birth] + 1
            BY <2>1, <3>4, <4>1 DEF Dropped, Own, TypeOK, Rows
          <5>. QED  BY <2>1, <2>2, <2>4, <5>1, RoomStays DEF TypeOK, Rows
        <4>2. CASE ~(Own(s, i) /\ fire[s][i].phase \in {"turn", "ok", "counted"})
          <5>1. fire[s][i] # NoFire => ~InTurn(i) /\ ~Removes(i)
            BY <4>2, OneFires DEF InTurn, Removes, Own
          <5>2. CASE fire[s][i] = NoFire
            BY <2>1, <2>2, <2>4, <3>2, <3>3, <3>4, <5>2, PostedByClaim, FireLeaves
          <5>. QED  BY <2>1, <2>2, <2>4, <5>1, <5>2, RoomStays
        <4>. QED  BY <4>1, <4>2
      <3>. QED  BY <3>1, <3>2, <3>3, <3>4, FireLeaves
    <2>. QED  BY <2>1, <2>3, <2>4, ServedByOwn
  <1>. QED  BY <1>0, <1>1, <1>2 DEF TableStep

\* A cron that has a limit starts no more turns than its max_fires and one for
\* each turn that was started and not settled, whatever fails, however ids are
\* reused, edited and cancelled, and whichever instances stop and crash.
THEOREM TurnsAreCapped == Spec => []TurnsCapped
  <1>1. Init => Owned /\ Flight /\ Capping
    <2>1. ASSUME Init
          PROVE  Owned /\ Flight /\ Homes
      BY <2>1, CountingInit DEF Counting
    <2>2. Init => SameLimits /\ Unserved /\ Rooms
      BY DEF Init, SameLimits, Unserved, Rooms
    <2>. QED  BY <2>1, <2>2 DEF Capping
  <1>2. TypeOK /\ TypeOK' /\ Owned /\ Flight /\ Capping /\ [Next]_vars
          => Owned' /\ Flight' /\ Capping'
    BY OwnedStep, FlightStep, HomesStep, SameLimitsStep, UnservedStep, RoomsStep DEF Capping
  <1>3. Capping => TurnsCapped
    BY DEF Capping, Rooms, Room, TurnsCapped
  <1>. QED  BY <1>1, <1>2, <1>3, TypeCorrect, PTL DEF Spec
=============================================================================
