-------------------------- MODULE BackgroundProofs --------------------------
(***************************************************************************)
(* Theorems about Background, for every set of jobs, fan-outs and sessions,*)
(* every concurrency cap and every choice of faults.                       *)
(***************************************************************************)
EXTENDS Background, FiniteSetTheorems, TLAPS

\* What the building blocks of the actions do to the types.

LEMMA FaultType ==
  ASSUME faults \in 0 .. MaxFaults, NEW kind, Fault(kind) PROVE faults' \in 0 .. MaxFaults
  BY BackgroundAssumption DEF Fault

LEMMA MarkCompleteType ==
  ASSUME TypeOK, NEW j \in Jobs, NEW st \in Terminal, MarkComplete(j, st)
  PROVE  /\ row' \in [Jobs -> {"none", "running"} \cup Terminal]
         /\ row'[j] \in {"none"} \cup Terminal
  BY DEF TypeOK, MarkComplete, Terminal

LEMMA DrainType ==
  ASSUME TypeOK, NEW s, Drain(s)
  PROVE  /\ notified' \in [Jobs -> BOOLEAN]
         /\ reported' \in [Jobs -> {"none"} \cup Terminal]
<1>1. \A j \in Jobs : (notified[j] \/ j \in Pending(s)) \in BOOLEAN
  OBVIOUS
<1>2. notified' \in [Jobs -> BOOLEAN]
  BY <1>1, Zenon DEF Drain
<1>3. reported' \in [Jobs -> {"none"} \cup Terminal]
  BY DEF Drain, Pending, TypeOK
<1> QED BY <1>2, <1>3

LEMMA DeliverType ==
  ASSUME TypeOK, NEW j \in Jobs, NEW st, Deliver(j, st)
  PROVE  /\ resume' \in [Jobs -> {"none", "scheduled", "nudging", "joining", "held",
                                  "dropped", "done", "undelivered", "abandoned"}]
         /\ woken' \subseteq Jobs
  BY DEF TypeOK, Deliver, Wake

LEMMA CloseType ==
  ASSUME TypeOK, NEW s, CloseFanouts(s)
  PROVE  fanout' \in [Batches -> {"unborn", "open", "closed"}]
  BY DEF TypeOK, CloseFanouts

LEMMA EventType ==
  ASSUME TypeOK, NEW j \in Jobs, NEW st \in Terminal,
         events' = [events EXCEPT ![j] = Append(@, st)]
  PROVE  events' \in [Jobs -> Seq(Terminal)]
<1>1. events[j] \in Seq(Terminal)
  BY DEF TypeOK
<1>2. Append(events[j], st) \in Seq(Terminal)
  BY <1>1
<1> QED BY <1>2 DEF TypeOK

LEMMA PostNudgeType ==
  ASSUME TypeOK, NEW n \in Nudges, PostNudge(n)
  PROVE  /\ nudge' \in [Nudges -> {"none", "waiting", "active", "ended", "failed"}]
         /\ pushes' \in [Nudges -> Nat]
  BY DEF TypeOK, PostNudge

LEMMA Batched == \A j \in Jobs : ~Singleton(j) => BatchOf[j] \in Batches
  BY BackgroundAssumption DEF Singleton

\* Type correctness of the registry, the manager, the hooks and the sessions.
THEOREM TypeCorrect == Spec => []TypeOK
<1>1. Init => TypeOK
  BY BackgroundAssumption DEF Init, TypeOK, Terminal, Nudges
<1>2. TypeOK /\ [Next]_vars => TypeOK'
  <2> SUFFICES ASSUME TypeOK, [Next]_vars PROVE TypeOK'
    OBVIOUS
  <2> USE BackgroundAssumption DEF TypeOK, durable, worker, push, chat, history, Terminal, Nudges
  <2>1. ASSUME NEW j \in Jobs, JobNext(j) PROVE TypeOK'
    <3>1. CASE Spawn(j)
      BY <3>1 DEF Spawn
    <3>2. CASE AcquireSlot(j)
      BY <3>2 DEF AcquireSlot
    <3>3. CASE TurnStarts(j)
      BY <3>3 DEF TurnStarts
    <3>4. CASE FireReturns(j)
      BY <3>4 DEF FireReturns
    <3>5. CASE FireFails(j)
      BY <3>5 DEF FireFails, MarkComplete, Fault
    <3>6. CASE FireTimesOut(j)
      BY <3>6 DEF FireTimesOut, MarkComplete, Fault
    <3>7. CASE FireRefused(j)
      BY <3>7 DEF FireRefused, Fault
    <3>8. ASSUME NEW st \in Terminal, TurnEnds(j, st) PROVE TypeOK'
      BY <3>8, MarkCompleteType, DeliverType, EventType DEF TurnEnds
    <3>9. ASSUME NEW st \in Terminal, WorkEnds(j, st) PROVE TypeOK'
      <4>1. row' \in [Jobs -> {"none", "running"} \cup Terminal]
        BY <3>9, MarkCompleteType DEF WorkEnds
      <4>2. CASE row[j] = "running"
        BY <3>9, <4>1, <4>2, DeliverType, EventType DEF WorkEnds
      <4>3. CASE row[j] # "running"
        BY <3>9, <4>1, <4>3 DEF WorkEnds
      <4> QED BY <4>2, <4>3
    <3>10. CASE TurnEndsUnsettled(j)
      BY <3>10, FaultType DEF TurnEndsUnsettled
    <3>15. CASE WorkEndsUnsettled(j)
      BY <3>15, FaultType DEF WorkEndsUnsettled
    <3>16. CASE WorkUnwinds(j)
      BY <3>16 DEF WorkUnwinds
    <3>11. CASE ResumeSingleton(j)
      BY <3>11 DEF ResumeSingleton, PostNudge
    <3>12. CASE HoldForSiblings(j)
      BY <3>12 DEF HoldForSiblings, EnsureTimer
    <3>13. CASE JoinBatch(j)
      <4> DEFINE c == BatchOf[j]
      <4>1. c \in Batches
        BY <3>13 DEF JoinBatch, Singleton
      <4>2. CASE Claimed(c)
        BY <3>13, <4>2 DEF JoinBatch
      <4>3. CASE ~Claimed(c)
        BY <3>13, <4>1, <4>3, PostNudgeType DEF JoinBatch
      <4> QED BY <4>2, <4>3
    <3>14. CASE NudgeDelivered(j)
      BY <3>14 DEF NudgeDelivered
    <3>18. CASE NudgeUndelivered(j)
      BY <3>18 DEF NudgeUndelivered, Wake
    <3>17. CASE NudgeTimesOut(j)
      BY <3>17, FaultType DEF NudgeTimesOut, Wake
    <3> QED
      BY <2>1, <3>1, <3>2, <3>3, <3>4, <3>5, <3>6, <3>7, <3>8, <3>9, <3>10, <3>11, <3>12, <3>13,
         <3>14, <3>15, <3>16, <3>17, <3>18 DEF JobNext
  <2>2. ASSUME NEW c \in Batches, Straggle(c) PROVE TypeOK'
    <3>1. CASE Claimed(c)
      BY <2>2, <3>1 DEF Straggle
    <3>2. CASE ~Claimed(c)
      BY <2>2, <3>2, PostNudgeType DEF Straggle
    <3> QED BY <3>1, <3>2
  <2>3. CASE PanelNext
    <3>1. ASSUME NEW j \in PanelJobs, CancelWork(j) PROVE TypeOK'
      BY <3>1 DEF CancelWork
    <3>2. ASSUME NEW j \in PanelJobs, CancelUnannounced(j) PROVE TypeOK'
      BY <3>2 DEF CancelUnannounced
    <3>4. ASSUME NEW j \in PanelJobs, CancelRequest(j) PROVE TypeOK'
      BY <3>4 DEF CancelRequest
    <3>5. ASSUME NEW j \in PanelJobs, CancelSettles(j) PROVE TypeOK'
      BY <3>5, MarkCompleteType, FaultType DEF CancelSettles
    <3>3. ASSUME NEW S \in SUBSET PanelJobs, Dismiss(S) PROVE TypeOK'
      BY <3>3 DEF Dismiss
    <3> QED BY <2>3, <3>1, <3>2, <3>3, <3>4, <3>5 DEF PanelNext
  <2>4. CASE SessionNext
    <3>1. ASSUME NEW n \in Nudges, NudgeTurnStarts(n) PROVE TypeOK'
      BY <3>1, DrainType DEF NudgeTurnStarts
    <3>2. ASSUME NEW n \in Nudges, NudgeTurnEnds(n) PROVE TypeOK'
      BY <3>2, CloseType DEF NudgeTurnEnds
    <3>3. ASSUME NEW n \in Nudges, NudgeFails(n) PROVE TypeOK'
      BY <3>3, FaultType DEF NudgeFails
    <3>4. ASSUME NEW n \in Nudges, NudgeStalls(n) PROVE TypeOK'
      BY <3>4, FaultType DEF NudgeStalls
    <3>5. ASSUME NEW s \in Sessions, NEW fresh \in BOOLEAN, OperatorTurnStarts(s, fresh) PROVE TypeOK'
      BY <3>5, DrainType DEF OperatorTurnStarts
    <3>6. ASSUME NEW s \in Sessions, OperatorTurnEnds(s) PROVE TypeOK'
      BY <3>6, CloseType DEF OperatorTurnEnds
    <3>7. ASSUME NEW s \in Sessions, ContinuationDrains(s) PROVE TypeOK'
      BY <3>7, DrainType DEF ContinuationDrains
    <3> HIDE DEF TypeOK
    <3> QED BY <2>4, <3>1, <3>2, <3>3, <3>4, <3>5, <3>6, <3>7 DEF SessionNext
  <2>5. CASE Restart
    BY <2>5 DEF Restart, Fault
  <2>6. CASE UNCHANGED vars
    BY <2>6 DEF vars
  <2> QED
    BY <2>1, <2>2, <2>3, <2>4, <2>5, <2>6 DEF Next
<1> QED
  BY <1>1, <1>2, PTL DEF Spec

-----------------------------------------------------------------------------
(* The registry.  Whatever the handlers do, a step does one of four things  *)
(* to jobs.db, and the rest of this section follows from that.              *)

NoRegistryStep == UNCHANGED <<row, notified, reported>>

AcceptStep(j) == /\ row[j] = "none" /\ row' = [row EXCEPT ![j] = "running"]
                 /\ UNCHANGED <<notified, reported>>

SettleStep(S) == /\ \A j \in S : row[j] = "running"
                 /\ \E f \in [S -> Terminal] :
                      row' = [j \in Jobs |-> IF j \in S THEN f[j] ELSE row[j]]
                 /\ UNCHANGED <<notified, reported>>

DrainStep(s) == UNCHANGED row /\ Drain(s)

RegistryStep == \/ NoRegistryStep
                \/ \E j \in Jobs : AcceptStep(j)
                \/ \E S \in SUBSET Jobs : SettleStep(S)
                \/ \E s \in {OriginOf[j] : j \in Jobs} : DrainStep(s)

LEMMA MarkCompleteSettles ==
  ASSUME TypeOK, NEW j \in Jobs, NEW st \in Terminal, MarkComplete(j, st),
         UNCHANGED <<notified, reported>>
  PROVE  RegistryStep
<1>1. CASE row[j] = "running"
  <2> DEFINE S == {j}
             f == [i \in S |-> st]
  <2>1. f \in [S -> Terminal]
    OBVIOUS
  <2>2. row' = [i \in Jobs |-> IF i \in S THEN f[i] ELSE row[i]]
    BY <1>1 DEF MarkComplete, TypeOK
  <2>3. \A i \in S : row[i] = "running"
    BY <1>1
  <2> HIDE DEF f
  <2>4. SettleStep(S)
    BY <2>1, <2>2, <2>3, Zenon DEF SettleStep
  <2> QED BY <2>4 DEF RegistryStep
<1>2. CASE row[j] # "running"
  BY <1>2 DEF MarkComplete, RegistryStep, NoRegistryStep
<1> QED BY <1>1, <1>2

\* A session nobody spawned from has nothing to drain.
LEMMA DrainIsStep ==
  ASSUME TypeOK, NEW s, Drain(s), UNCHANGED row
  PROVE  RegistryStep
<1>1. CASE s \in {OriginOf[j] : j \in Jobs}
  BY <1>1 DEF RegistryStep, DrainStep
<1>2. CASE s \notin {OriginOf[j] : j \in Jobs}
  <2>1. Pending(s) = {}
    BY <1>2 DEF Pending
  <2>2. \A j \in Jobs : (notified[j] \/ j \in Pending(s)) = notified[j]
    BY <2>1 DEF TypeOK
  <2>3. notified' = notified
    <3>1. notified' = [j \in Jobs |-> notified[j]]
      BY <2>2, Zenon DEF Drain
    <3> QED BY <3>1 DEF TypeOK
  <2>4. reported' = reported
    BY <2>1 DEF Drain, TypeOK
  <2> QED BY <2>3, <2>4 DEF RegistryStep, NoRegistryStep
<1> QED BY <1>1, <1>2

LEMMA EveryStep ==
  ASSUME TypeOK, [Next]_vars
  PROVE  RegistryStep
<1> USE DEF durable, worker, push, chat, history
<1>1. ASSUME NEW j \in Jobs, JobNext(j) PROVE RegistryStep
  <2>1. CASE Spawn(j)
    BY <2>1 DEF Spawn, RegistryStep, AcceptStep
  <2>2. CASE \/ AcquireSlot(j) \/ TurnStarts(j) \/ FireReturns(j) \/ FireRefused(j)
             \/ TurnEndsUnsettled(j) \/ WorkEndsUnsettled(j) \/ WorkUnwinds(j)
    BY <2>2 DEF AcquireSlot, TurnStarts, FireReturns, FireRefused, TurnEndsUnsettled,
                WorkEndsUnsettled, WorkUnwinds, RegistryStep, NoRegistryStep
  <2>3. CASE FireFails(j)
    BY <2>3, MarkCompleteSettles DEF FireFails, Terminal
  <2>4. CASE FireTimesOut(j)
    BY <2>4, MarkCompleteSettles DEF FireTimesOut, Terminal
  <2>5. ASSUME NEW st \in Terminal, TurnEnds(j, st) PROVE RegistryStep
    BY <2>5, MarkCompleteSettles DEF TurnEnds
  <2>6. ASSUME NEW st \in Terminal, WorkEnds(j, st) PROVE RegistryStep
    BY <2>6, MarkCompleteSettles DEF WorkEnds
  <2>7. CASE ResumeSingleton(j) \/ HoldForSiblings(j) \/ JoinBatch(j)
    BY <2>7 DEF ResumeSingleton, HoldForSiblings, JoinBatch, RegistryStep, NoRegistryStep
  <2>8. CASE NudgeDelivered(j) \/ NudgeUndelivered(j) \/ NudgeTimesOut(j)
    BY <2>8 DEF NudgeDelivered, NudgeUndelivered, NudgeTimesOut, RegistryStep, NoRegistryStep
  <2> QED
    BY <1>1, <2>1, <2>2, <2>3, <2>4, <2>5, <2>6, <2>7, <2>8 DEF JobNext
<1>2. ASSUME NEW c \in Batches, Straggle(c) PROVE RegistryStep
  BY <1>2 DEF Straggle, RegistryStep, NoRegistryStep
<1>3. CASE PanelNext
  <2>1. ASSUME NEW j \in PanelJobs, CancelWork(j) \/ CancelUnannounced(j) PROVE RegistryStep
    <3>1. j \in Jobs /\ MarkComplete(j, "canceled") /\ UNCHANGED <<notified, reported>>
      BY <2>1, BackgroundAssumption DEF CancelWork, CancelUnannounced, MarkComplete
    <3> QED BY <3>1, MarkCompleteSettles DEF Terminal
  <2>2. ASSUME NEW j \in PanelJobs, CancelRequest(j) PROVE RegistryStep
    BY <2>2 DEF CancelRequest, RegistryStep, NoRegistryStep
  <2>3. ASSUME NEW j \in PanelJobs, CancelSettles(j) PROVE RegistryStep
    BY <2>3, MarkCompleteSettles, BackgroundAssumption DEF CancelSettles, Terminal
  <2>4. ASSUME NEW S \in SUBSET PanelJobs, Dismiss(S) PROVE RegistryStep
    BY <2>4 DEF Dismiss, RegistryStep, NoRegistryStep
  <2> QED BY <1>3, <2>1, <2>2, <2>3, <2>4 DEF PanelNext
<1>4. CASE SessionNext
  <2>1. ASSUME NEW n \in Nudges, NudgeTurnStarts(n) PROVE RegistryStep
    BY <2>1, DrainIsStep DEF NudgeTurnStarts
  <2>2. ASSUME NEW n \in Nudges, NudgeTurnEnds(n) \/ NudgeFails(n) \/ NudgeStalls(n)
        PROVE  RegistryStep
    BY <2>2 DEF NudgeTurnEnds, NudgeFails, NudgeStalls, RegistryStep, NoRegistryStep
  <2>3. ASSUME NEW s \in Sessions, NEW fresh \in BOOLEAN, OperatorTurnStarts(s, fresh)
        PROVE  RegistryStep
    <3>1. CASE fresh
      BY <2>3, <3>1, DrainIsStep DEF OperatorTurnStarts
    <3>2. CASE ~fresh
      BY <2>3, <3>2 DEF OperatorTurnStarts, RegistryStep, NoRegistryStep
    <3> QED BY <3>1, <3>2
  <2>4. ASSUME NEW s \in Sessions, OperatorTurnEnds(s) PROVE RegistryStep
    BY <2>4 DEF OperatorTurnEnds, RegistryStep, NoRegistryStep
  <2>5. ASSUME NEW s \in Sessions, ContinuationDrains(s) PROVE RegistryStep
    BY <2>5, DrainIsStep DEF ContinuationDrains
  <2> QED BY <1>4, <2>1, <2>2, <2>3, <2>4, <2>5 DEF SessionNext
<1>5. CASE Restart
  <2> DEFINE S == {j \in Jobs : row[j] = "running"}
  <2>1. [j \in S |-> "failed"] \in [S -> Terminal]
    BY DEF Terminal
  <2>2. row' = [j \in Jobs |-> IF j \in S THEN [i \in S |-> "failed"][j] ELSE row[j]]
    BY <1>5 DEF Restart, TypeOK
  <2>3. SettleStep(S)
    BY <1>5, <2>1, <2>2 DEF SettleStep, Restart
  <2> QED BY <2>3 DEF RegistryStep
<1>6. CASE UNCHANGED vars
  BY <1>6 DEF vars, RegistryStep, NoRegistryStep
<1> QED
  BY <1>1, <1>2, <1>3, <1>4, <1>5, <1>6 DEF Next

LEMMA DrainFacts ==
  ASSUME TypeOK, NEW s, Drain(s), NEW j \in Jobs
  PROVE  /\ notified'[j] <=> notified[j] \/ j \in Pending(s)
         /\ j \notin Pending(s) => reported'[j] = reported[j]
         /\ j \in Pending(s) => reported'[j] = row[j] /\ row[j] \in Terminal
<1>1. notified'[j] = (notified[j] \/ j \in Pending(s))
  BY Zenon DEF Drain
<1>2. /\ j \notin Pending(s) => reported'[j] = reported[j]
      /\ j \in Pending(s) => reported'[j] = row[j] /\ row[j] \in Terminal
  BY DEF Drain, Pending
<1> QED BY <1>1, <1>2

\* What a turn was told of a job is what the row of the job says, for good.
THEOREM ReportsAreFinal == Spec => []ReportIsFinal
<1>1. Init => ReportIsFinal
  BY DEF Init, ReportIsFinal
<1>2. ASSUME TypeOK, ReportIsFinal, [Next]_vars PROVE ReportIsFinal'
  <2>1. CASE NoRegistryStep
    BY <1>2, <2>1 DEF NoRegistryStep, ReportIsFinal
  <2>2. ASSUME NEW j \in Jobs, AcceptStep(j) PROVE ReportIsFinal'
    BY <1>2, <2>2 DEF AcceptStep, ReportIsFinal, TypeOK
  <2>3. ASSUME NEW S \in SUBSET Jobs, SettleStep(S) PROVE ReportIsFinal'
    <3>1. ASSUME NEW j \in Jobs, notified[j] PROVE j \notin S
      BY <1>2, <2>3, <3>1 DEF SettleStep, ReportIsFinal, TypeOK, Terminal
    <3>2. ASSUME NEW j \in Jobs, j \notin S PROVE row'[j] = row[j]
      BY <2>3, <3>2 DEF SettleStep
    <3> QED BY <1>2, <2>3, <3>1, <3>2 DEF SettleStep, ReportIsFinal
  <2>4. ASSUME NEW s, DrainStep(s) PROVE ReportIsFinal'
    <3> SUFFICES ASSUME NEW j \in Jobs
                 PROVE  /\ notified'[j] <=> reported'[j] # "none"
                        /\ notified'[j] => reported'[j] = row'[j]
      BY DEF ReportIsFinal
    <3>1. Drain(s) /\ row' = row
      BY <2>4 DEF DrainStep
    <3> QED BY <1>2, <3>1, DrainFacts DEF ReportIsFinal, Terminal
  <2> QED BY <1>2, <2>1, <2>2, <2>3, <2>4, EveryStep DEF RegistryStep
<1> QED BY <1>1, <1>2, TypeCorrect, PTL DEF Spec

\* A settled row keeps its status and a report is handed out once: no cancel,
\* late hook, delivery error or restart rewrites history.
THEOREM SettlesOnce == Spec => SettledForGood
<1>1. ASSUME TypeOK, ReportIsFinal, [Next]_vars
      PROVE  \A j \in Jobs : /\ row[j] \in Terminal => row'[j] = row[j]
                             /\ notified[j] => notified'[j] /\ reported'[j] = reported[j]
  <2> SUFFICES ASSUME NEW j \in Jobs
               PROVE  /\ row[j] \in Terminal => row'[j] = row[j]
                      /\ notified[j] => notified'[j] /\ reported'[j] = reported[j]
    OBVIOUS
  <2>1. CASE NoRegistryStep
    BY <2>1 DEF NoRegistryStep
  <2>2. ASSUME NEW i \in Jobs, AcceptStep(i) PROVE row[j] \in Terminal => row'[j] = row[j]
    BY <1>1, <2>2 DEF AcceptStep, TypeOK, Terminal
  <2>3. ASSUME NEW S \in SUBSET Jobs, SettleStep(S) PROVE row[j] \in Terminal => row'[j] = row[j]
    BY <2>3 DEF SettleStep, Terminal
  <2>4. ASSUME NEW s, DrainStep(s)
        PROVE  /\ row' = row
               /\ notified[j] => notified'[j] /\ reported'[j] = reported[j]
    <3>1. notified[j] => j \notin Pending(s)
      BY DEF Pending
    <3> QED BY <1>1, <2>4, <3>1, DrainFacts DEF DrainStep
  <2>5. row[j] \in Terminal => row'[j] = row[j]
    BY <1>1, <2>1, <2>2, <2>3, <2>4, EveryStep DEF RegistryStep, NoRegistryStep
  <2>6. notified[j] => notified'[j] /\ reported'[j] = reported[j]
    BY <1>1, <2>4, EveryStep DEF RegistryStep, NoRegistryStep, AcceptStep, SettleStep
  <2> QED BY <2>5, <2>6
<1> QED BY <1>1, TypeCorrect, ReportsAreFinal, PTL DEF Spec, SettledForGood

\* The registry with all its settlers and drains implements the promise of
\* BackgroundDelivery: accepted, settled once, told once.
THEOREM KeepsPromise == Spec => DeliverySafe
<1> DEFINE told == {j \in Jobs : notified[j]}
<1>1. Init => Delivery!Init
  BY DEF Init, Delivery!Init
<1>2. ASSUME TypeOK, [Next]_vars
      PROVE  Delivery!Next \/ UNCHANGED <<row, told>>
  <2>1. CASE NoRegistryStep
    BY <2>1 DEF NoRegistryStep
  <2>2. ASSUME NEW j \in Jobs, AcceptStep(j) PROVE Delivery!Next
    BY <2>2 DEF AcceptStep, Delivery!Next, Delivery!Accept
  <2>3. ASSUME NEW S \in SUBSET Jobs, SettleStep(S)
        PROVE  Delivery!Next \/ UNCHANGED <<row, told>>
    <3>1. CASE S # {}
      <4>1. Delivery!Settle(S)
        BY <2>3, <3>1 DEF SettleStep, Delivery!Settle, Terminal, Delivery!Terminal
      <4> QED BY <4>1 DEF Delivery!Next
    <3>2. CASE S = {}
      BY <1>2, <2>3, <3>2 DEF SettleStep, TypeOK
    <3> QED BY <3>1, <3>2
  <2>4. ASSUME NEW s \in {OriginOf[j] : j \in Jobs}, DrainStep(s)
        PROVE  Delivery!Next \/ UNCHANGED <<row, told>>
    <3>1. Pending(s) = Delivery!Pending(s)
      BY DEF Pending, Delivery!Pending, Terminal, Delivery!Terminal
    <3>2. told' = told \cup Pending(s)
      BY <1>2, <2>4, DrainFacts DEF DrainStep, Pending
    <3>3. row' = row
      BY <2>4 DEF DrainStep
    <3>4. CASE Pending(s) # {}
      <4>1. Delivery!Announce(s)
        BY <3>1, <3>2, <3>3, <3>4 DEF Delivery!Announce
      <4> QED BY <4>1 DEF Delivery!Next
    <3>5. CASE Pending(s) = {}
      BY <3>2, <3>3, <3>5
    <3> QED BY <3>4, <3>5
  <2> QED BY <1>2, <2>1, <2>2, <2>3, <2>4, EveryStep DEF RegistryStep
<1> QED BY <1>1, <1>2, TypeCorrect, PTL DEF Spec, DeliverySafe, Delivery!Spec

-----------------------------------------------------------------------------
(* The manager.                                                            *)

LEMMA SlotsFinite == ASSUME TypeOK PROVE IsFiniteSet(Slots)
  BY BackgroundAssumption, FS_Subset DEF Slots

\* Only acquiring a slot adds to the slots in use.
LEMMA SlotsShrink ==
  ASSUME TypeOK, [Next]_vars, \A j \in Jobs : ~AcquireSlot(j)
  PROVE  Slots' \subseteq Slots
<1> USE DEF durable, worker, push, chat, history, Slots, TypeOK
<1>1. ASSUME NEW j \in Jobs, JobNext(j) PROVE Slots' \subseteq Slots
  <2>1. CASE Spawn(j) \/ TurnStarts(j) \/ FireReturns(j) \/ FireFails(j) \/ FireTimesOut(j)
    BY <2>1 DEF Spawn, TurnStarts, FireReturns, FireFails, FireTimesOut
  <2>2. CASE FireRefused(j) \/ TurnEndsUnsettled(j) \/ WorkEndsUnsettled(j) \/ WorkUnwinds(j)
    BY <2>2 DEF FireRefused, TurnEndsUnsettled, WorkEndsUnsettled, WorkUnwinds
  <2>3. ASSUME NEW st \in Terminal, TurnEnds(j, st) \/ WorkEnds(j, st) PROVE Slots' \subseteq Slots
    BY <2>3 DEF TurnEnds, WorkEnds
  <2>4. CASE ResumeSingleton(j) \/ HoldForSiblings(j) \/ JoinBatch(j)
    BY <2>4 DEF ResumeSingleton, HoldForSiblings, JoinBatch
  <2>5. CASE NudgeDelivered(j) \/ NudgeUndelivered(j) \/ NudgeTimesOut(j)
    BY <2>5 DEF NudgeDelivered, NudgeUndelivered, NudgeTimesOut
  <2> QED BY <1>1, <2>1, <2>2, <2>3, <2>4, <2>5 DEF JobNext
<1>2. ASSUME NEW c \in Batches, Straggle(c) PROVE Slots' \subseteq Slots
  BY <1>2 DEF Straggle
<1>3. CASE PanelNext
  <2>1. ASSUME NEW j \in PanelJobs, CancelWork(j) PROVE Slots' \subseteq Slots
    BY <2>1 DEF CancelWork, WorkTaskAlive
  <2>2. ASSUME NEW j \in PanelJobs, CancelUnannounced(j) \/ CancelRequest(j) \/ CancelSettles(j)
        PROVE  Slots' \subseteq Slots
    BY <2>2 DEF CancelUnannounced, CancelRequest, CancelSettles
  <2>3. ASSUME NEW S \in SUBSET PanelJobs, Dismiss(S) PROVE Slots' \subseteq Slots
    BY <2>3 DEF Dismiss
  <2> QED BY <1>3, <2>1, <2>2, <2>3 DEF PanelNext
<1>4. CASE SessionNext
  BY <1>4 DEF SessionNext, NudgeTurnStarts, NudgeTurnEnds, NudgeFails, NudgeStalls,
              OperatorTurnStarts, OperatorTurnEnds, ContinuationDrains
<1>5. CASE Restart
  BY <1>5 DEF Restart
<1>6. CASE UNCHANGED vars
  BY <1>6 DEF vars
<1> QED BY <1>1, <1>2, <1>3, <1>4, <1>5, <1>6 DEF Next

\* Never more than BACKGROUND_MAX_CONCURRENCY tasks are past the semaphore,
\* those being unwound by a cancel included.
THEOREM SlotsAreCapped == Spec => []SlotCap
<1>1. Init => SlotCap
  <2>1. ASSUME Init PROVE Slots = {}
    BY <2>1 DEF Init, Slots
  <2> QED BY <2>1, FS_EmptySet, BackgroundAssumption DEF SlotCap
<1>2. ASSUME TypeOK, SlotCap, [Next]_vars PROVE SlotCap'
  <2>1. IsFiniteSet(Slots) /\ Cardinality(Slots) \in Nat
    BY <1>2, SlotsFinite, FS_CardinalityType
  <2>2. ASSUME NEW j \in Jobs, AcquireSlot(j) PROVE SlotCap'
    <3>1. Slots' = Slots \cup {j} /\ j \notin Slots
      BY <1>2, <2>2 DEF AcquireSlot, Slots, TypeOK
    <3>2. Cardinality(Slots') = Cardinality(Slots) + 1
      BY <2>1, <3>1, FS_AddElement
    <3> QED BY <2>1, <2>2, <3>2, BackgroundAssumption DEF AcquireSlot, SlotCap
  <2>3. CASE \A j \in Jobs : ~AcquireSlot(j)
    <3>1. Slots' \subseteq Slots
      BY <1>2, <2>3, SlotsShrink
    <3>2. Cardinality(Slots') \in Nat /\ Cardinality(Slots') <= Cardinality(Slots)
      BY <2>1, <3>1, FS_Subset, FS_CardinalityType
    <3> QED BY <1>2, <2>1, <3>2, BackgroundAssumption DEF SlotCap
  <2> QED BY <2>2, <2>3
<1> QED BY <1>1, <1>2, TypeCorrect, PTL DEF Spec

\* A job that was never spawned has no task and no turn, and neither has a
\* queued one a turn: what RunningHasOwner needs to be inductive.
Unstarted ==
  \A j \in Jobs : /\ row[j] = "none" => fire[j] = "none" /\ turn[j] = "none"
                  /\ fire[j] = "queued" => turn[j] = "none"

LEMMA UnstartedStays == TypeOK /\ Unstarted /\ [Next]_vars => Unstarted'
<1> SUFFICES ASSUME TypeOK, Unstarted, [Next]_vars PROVE Unstarted'
  OBVIOUS
<1> USE DEF durable, worker, push, chat, history, Unstarted
<1>1. ASSUME NEW j \in Jobs, JobNext(j) PROVE Unstarted'
  <2> USE <1>1 DEF TypeOK
  <2>1. CASE Spawn(j)
    BY <2>1 DEF Spawn
  <2>2. CASE AcquireSlot(j)
    BY <2>2 DEF AcquireSlot
  <2>3. CASE TurnStarts(j)
    BY <2>3 DEF TurnStarts
  <2>4. CASE FireReturns(j)
    BY <2>4 DEF FireReturns
  <2>5. ASSUME NEW st \in Terminal, MarkComplete(j, st)
        PROVE \A i \in Jobs : row'[i] = "none" <=> row[i] = "none"
    BY <2>5 DEF MarkComplete, Terminal
  <2>6. CASE FireFails(j) \/ FireTimesOut(j)
    <3>1. \A i \in Jobs : row'[i] = "none" <=> row[i] = "none"
      BY <2>5, <2>6 DEF FireFails, FireTimesOut, Terminal
    <3> QED BY <2>6, <3>1 DEF FireFails, FireTimesOut
  <2>7. CASE FireRefused(j) \/ TurnEndsUnsettled(j) \/ WorkEndsUnsettled(j) \/ WorkUnwinds(j)
    BY <2>7 DEF FireRefused, TurnEndsUnsettled, WorkEndsUnsettled, WorkUnwinds
  <2>8. ASSUME NEW st \in Terminal, TurnEnds(j, st) PROVE Unstarted'
    <3>1. \A i \in Jobs : row'[i] = "none" <=> row[i] = "none"
      BY <2>5, <2>8 DEF TurnEnds
    <3> QED BY <2>8, <3>1 DEF TurnEnds
  <2>9. ASSUME NEW st \in Terminal, WorkEnds(j, st) PROVE Unstarted'
    <3>1. \A i \in Jobs : row'[i] = "none" <=> row[i] = "none"
      BY <2>5, <2>9 DEF WorkEnds
    <3> QED BY <2>9, <3>1 DEF WorkEnds
  <2>10. CASE ResumeSingleton(j) \/ HoldForSiblings(j) \/ JoinBatch(j)
    BY <2>10 DEF ResumeSingleton, HoldForSiblings, JoinBatch
  <2>11. CASE NudgeDelivered(j) \/ NudgeUndelivered(j) \/ NudgeTimesOut(j)
    BY <2>11 DEF NudgeDelivered, NudgeUndelivered, NudgeTimesOut
  <2> QED BY <2>1, <2>2, <2>3, <2>4, <2>6, <2>7, <2>8, <2>9, <2>10, <2>11 DEF JobNext
<1>2. ASSUME NEW c \in Batches, Straggle(c) PROVE Unstarted'
  BY <1>2 DEF Straggle
<1>3. CASE PanelNext
  <2>1. ASSUME NEW j \in PanelJobs, CancelWork(j) PROVE Unstarted'
    BY <2>1, BackgroundAssumption DEF CancelWork, WorkTaskAlive, TypeOK
  <2>2. ASSUME NEW j \in PanelJobs, CancelUnannounced(j) \/ CancelRequest(j) PROVE Unstarted'
    BY <2>2, BackgroundAssumption DEF CancelUnannounced, CancelRequest, TypeOK
  <2>3. ASSUME NEW j \in PanelJobs, CancelSettles(j) PROVE Unstarted'
    BY <2>3, BackgroundAssumption DEF CancelSettles, MarkComplete, TypeOK
  <2>4. ASSUME NEW S \in SUBSET PanelJobs, Dismiss(S) PROVE Unstarted'
    BY <2>4 DEF Dismiss
  <2> QED BY <1>3, <2>1, <2>2, <2>3, <2>4 DEF PanelNext
<1>4. CASE SessionNext
  BY <1>4 DEF SessionNext, NudgeTurnStarts, NudgeTurnEnds, NudgeFails, NudgeStalls,
              OperatorTurnStarts, OperatorTurnEnds, ContinuationDrains
<1>5. CASE Restart
  BY <1>5 DEF Restart, TypeOK
<1>6. CASE UNCHANGED vars
  BY <1>6 DEF vars
<1> QED BY <1>1, <1>2, <1>3, <1>4, <1>5, <1>6 DEF Next

\* As long as no JSON-RPC error rides a 200 and no write of a terminal hook
\* fails, a running row has a task or a turn that will settle it.
THEOREM RunningIsOwned ==
  ASSUME "rpcError" \notin Faults, "storeFault" \notin Faults
  PROVE  Spec => []RunningHasOwner
<1>1. Init => RunningHasOwner
  BY DEF Init, RunningHasOwner
<1>2. ASSUME TypeOK, Unstarted, RunningHasOwner, [Next]_vars PROVE RunningHasOwner'
  <2> USE <1>2 DEF durable, worker, push, chat, history, RunningHasOwner, TypeOK
  <2>1. ASSUME NEW j \in Jobs, JobNext(j) PROVE RunningHasOwner'
    <3>1. CASE Spawn(j)
      BY <3>1 DEF Spawn
    <3>2. CASE AcquireSlot(j)
      BY <3>2 DEF AcquireSlot, Unstarted
    <3>3. CASE TurnStarts(j)
      BY <3>3 DEF TurnStarts
    <3>4. CASE FireReturns(j)
      <4>1. row[j] # "running"
        BY <3>4 DEF FireReturns
      <4> QED BY <3>4, <4>1 DEF FireReturns
    <3>5. CASE FireFails(j) \/ FireTimesOut(j)
      <4>1. /\ MarkComplete(j, "failed") /\ UNCHANGED turn
            /\ fire' = [fire EXCEPT ![j] = "done"]
        BY <3>5 DEF FireFails, FireTimesOut
      <4>2. row'[j] # "running" /\ \A i \in Jobs \ {j} : row'[i] = row[i] /\ fire'[i] = fire[i]
        BY <4>1 DEF MarkComplete
      <4> QED BY <4>1, <4>2
    <3>6. CASE FireRefused(j) \/ TurnEndsUnsettled(j) \/ WorkEndsUnsettled(j)
      BY <3>6 DEF FireRefused, TurnEndsUnsettled, WorkEndsUnsettled, Fault
    <3>7. ASSUME NEW st \in Terminal, TurnEnds(j, st) PROVE RunningHasOwner'
      <4>1. /\ MarkComplete(j, st) /\ UNCHANGED fire
            /\ turn' = [turn EXCEPT ![j] = "ended"]
        BY <3>7 DEF TurnEnds
      <4>2. row'[j] # "running" /\ \A i \in Jobs \ {j} : row'[i] = row[i] /\ turn'[i] = turn[i]
        BY <4>1 DEF MarkComplete, Terminal
      <4> QED BY <4>1, <4>2
    <3>8. ASSUME NEW st \in Terminal, WorkEnds(j, st) PROVE RunningHasOwner'
      <4>1. /\ MarkComplete(j, st) /\ UNCHANGED turn
            /\ fire' = [fire EXCEPT ![j] = "done"]
        BY <3>8 DEF WorkEnds
      <4>2. row'[j] # "running" /\ \A i \in Jobs \ {j} : row'[i] = row[i] /\ fire'[i] = fire[i]
        BY <4>1 DEF MarkComplete, Terminal
      <4> QED BY <4>1, <4>2
    <3>9. CASE WorkUnwinds(j)
      BY <3>9 DEF WorkUnwinds
    <3>10. CASE ResumeSingleton(j) \/ HoldForSiblings(j) \/ JoinBatch(j)
      BY <3>10 DEF ResumeSingleton, HoldForSiblings, JoinBatch
    <3>11. CASE NudgeDelivered(j) \/ NudgeUndelivered(j) \/ NudgeTimesOut(j)
      BY <3>11 DEF NudgeDelivered, NudgeUndelivered, NudgeTimesOut
    <3> QED BY <2>1, <3>1, <3>2, <3>3, <3>4, <3>5, <3>6, <3>7, <3>8, <3>9, <3>10, <3>11 DEF JobNext
  <2>2. ASSUME NEW c \in Batches, Straggle(c) PROVE RunningHasOwner'
    BY <2>2 DEF Straggle
  <2>3. CASE PanelNext
    <3>1. ASSUME NEW j \in PanelJobs, CancelWork(j) \/ CancelUnannounced(j) PROVE RunningHasOwner'
      BY <3>1, BackgroundAssumption DEF CancelWork, CancelUnannounced
    <3>2. ASSUME NEW j \in PanelJobs, CancelRequest(j) \/ CancelSettles(j) PROVE RunningHasOwner'
      BY <3>2, BackgroundAssumption DEF CancelRequest, CancelSettles, MarkComplete
    <3>3. ASSUME NEW S \in SUBSET PanelJobs, Dismiss(S) PROVE RunningHasOwner'
      BY <3>3 DEF Dismiss
    <3> QED BY <2>3, <3>1, <3>2, <3>3 DEF PanelNext
  <2>4. CASE SessionNext
    BY <2>4 DEF SessionNext, NudgeTurnStarts, NudgeTurnEnds, NudgeFails, NudgeStalls,
                OperatorTurnStarts, OperatorTurnEnds, ContinuationDrains
  <2>5. CASE Restart
    BY <2>5 DEF Restart
  <2>6. CASE UNCHANGED vars
    BY <2>6 DEF vars
  <2> QED BY <2>1, <2>2, <2>3, <2>4, <2>5, <2>6 DEF Next
<1>3. Init => Unstarted
  BY DEF Init, Unstarted
<1> QED BY <1>1, <1>2, <1>3, UnstartedStays, TypeCorrect, PTL DEF Spec

-----------------------------------------------------------------------------
(* What is announced of work done in this process.                         *)

LEMMA SettledStays ==
  ASSUME TypeOK, [Next]_vars, NEW j \in Jobs, row[j] \in Terminal
  PROVE  row'[j] = row[j]
  BY EveryStep DEF RegistryStep, NoRegistryStep, AcceptStep, SettleStep, DrainStep, TypeOK, Terminal

\* spawn_work starts no A2A turn, and announces nothing while the row runs.
WorkQuiet ==
  \A j \in WorkJobs : /\ turn[j] = "none"
                      /\ row[j] \in {"none", "running"} => events[j] = << >>
                      /\ events[j] # << >> => events[j] = << row[j] >>

\* An event of a job comes from its turn, or from the step that settles its row.
EventOf(j) == \/ events'[j] = events[j]
              \/ turn[j] = "running"
              \/ /\ row[j] = "running" /\ row'[j] \in Terminal
                 /\ events'[j] = Append(events[j], row'[j])

LEMMA EventSources ==
  ASSUME TypeOK, [Next]_vars, NEW i \in Jobs
  PROVE  EventOf(i)
<1> USE DEF durable, worker, push, chat, history, TypeOK, EventOf
<1>1. ASSUME NEW j \in Jobs, JobNext(j) PROVE EventOf(i)
  <2>1. CASE \/ Spawn(j) \/ AcquireSlot(j) \/ TurnStarts(j) \/ FireReturns(j) \/ FireFails(j)
             \/ FireTimesOut(j) \/ FireRefused(j) \/ TurnEndsUnsettled(j)
             \/ WorkEndsUnsettled(j) \/ WorkUnwinds(j)
    BY <2>1 DEF Spawn, AcquireSlot, TurnStarts, FireReturns, FireFails, FireTimesOut, FireRefused,
                TurnEndsUnsettled, WorkEndsUnsettled, WorkUnwinds
  <2>2. ASSUME NEW st \in Terminal, TurnEnds(j, st) PROVE EventOf(i)
    BY <2>2 DEF TurnEnds
  <2>3. ASSUME NEW st \in Terminal, WorkEnds(j, st) PROVE EventOf(i)
    BY <2>3 DEF WorkEnds, MarkComplete
  <2>4. CASE ResumeSingleton(j) \/ HoldForSiblings(j) \/ JoinBatch(j)
    BY <2>4 DEF ResumeSingleton, HoldForSiblings, JoinBatch
  <2>5. CASE NudgeDelivered(j) \/ NudgeUndelivered(j) \/ NudgeTimesOut(j)
    BY <2>5 DEF NudgeDelivered, NudgeUndelivered, NudgeTimesOut
  <2> QED BY <1>1, <2>1, <2>2, <2>3, <2>4, <2>5 DEF JobNext
<1>2. ASSUME NEW c \in Batches, Straggle(c) PROVE EventOf(i)
  BY <1>2 DEF Straggle
<1>3. CASE PanelNext
  <2>1. ASSUME NEW j \in PanelJobs, CancelWork(j) PROVE EventOf(i)
    BY <2>1, BackgroundAssumption DEF CancelWork, Terminal
  <2>2. ASSUME NEW j \in PanelJobs, CancelUnannounced(j) \/ CancelRequest(j) \/ CancelSettles(j)
        PROVE  EventOf(i)
    BY <2>2 DEF CancelUnannounced, CancelRequest, CancelSettles
  <2>3. ASSUME NEW S \in SUBSET PanelJobs, Dismiss(S) PROVE EventOf(i)
    BY <2>3 DEF Dismiss
  <2> QED BY <1>3, <2>1, <2>2, <2>3 DEF PanelNext
<1>4. CASE SessionNext
  BY <1>4 DEF SessionNext, NudgeTurnStarts, NudgeTurnEnds, NudgeFails, NudgeStalls,
              OperatorTurnStarts, OperatorTurnEnds, ContinuationDrains
<1>5. CASE Restart \/ UNCHANGED vars
  BY <1>5 DEF Restart, vars
<1> QED BY <1>1, <1>2, <1>3, <1>4, <1>5 DEF Next

\* What a step does to the turn of a job: nothing, unless it starts, ends or
\* dies with the process.
TurnStep(j) == \/ UNCHANGED turn[j]
               \/ turn'[j] = "none" /\ fire'[j] = "none"
               \/ turn[j] = "running" /\ turn'[j] = "ended"
               \/ j \notin WorkJobs /\ fire[j] = "posted" /\ turn[j] = "none"

LEMMA TurnSteps ==
  ASSUME TypeOK, [Next]_vars, NEW i \in Jobs
  PROVE  TurnStep(i)
<1> USE DEF durable, worker, push, chat, history, TypeOK, TurnStep
<1>1. ASSUME NEW j \in Jobs, JobNext(j) PROVE TurnStep(i)
  <2>1. CASE \/ Spawn(j) \/ AcquireSlot(j) \/ FireReturns(j) \/ FireFails(j)
             \/ FireTimesOut(j) \/ FireRefused(j) \/ WorkEndsUnsettled(j) \/ WorkUnwinds(j)
    BY <2>1 DEF Spawn, AcquireSlot, FireReturns, FireFails, FireTimesOut, FireRefused,
                WorkEndsUnsettled, WorkUnwinds
  <2>2. CASE TurnStarts(j) \/ TurnEndsUnsettled(j)
    BY <2>2 DEF TurnStarts, TurnEndsUnsettled
  <2>3. ASSUME NEW st \in Terminal, TurnEnds(j, st) \/ WorkEnds(j, st) PROVE TurnStep(i)
    BY <2>3 DEF TurnEnds, WorkEnds
  <2>4. CASE ResumeSingleton(j) \/ HoldForSiblings(j) \/ JoinBatch(j)
    BY <2>4 DEF ResumeSingleton, HoldForSiblings, JoinBatch
  <2>5. CASE NudgeDelivered(j) \/ NudgeUndelivered(j) \/ NudgeTimesOut(j)
    BY <2>5 DEF NudgeDelivered, NudgeUndelivered, NudgeTimesOut
  <2> QED BY <1>1, <2>1, <2>2, <2>3, <2>4, <2>5 DEF JobNext
<1>2. ASSUME NEW c \in Batches, Straggle(c) PROVE TurnStep(i)
  BY <1>2 DEF Straggle
<1>3. CASE PanelNext
  BY <1>3 DEF PanelNext, CancelWork, CancelUnannounced, CancelRequest, CancelSettles, Dismiss
<1>4. CASE SessionNext
  BY <1>4 DEF SessionNext, NudgeTurnStarts, NudgeTurnEnds, NudgeFails, NudgeStalls,
              OperatorTurnStarts, OperatorTurnEnds, ContinuationDrains
<1>5. CASE Restart \/ UNCHANGED vars
  BY <1>5 DEF Restart, vars
<1> QED BY <1>1, <1>2, <1>3, <1>4, <1>5 DEF Next

LEMMA WorkStaysQuiet == TypeOK /\ WorkQuiet /\ [Next]_vars => WorkQuiet'
<1> SUFFICES ASSUME TypeOK, WorkQuiet, [Next]_vars, NEW j \in WorkJobs
             PROVE  /\ turn'[j] = "none"
                    /\ row'[j] \in {"none", "running"} => events'[j] = << >>
                    /\ events'[j] # << >> => events'[j] = << row'[j] >>
  BY DEF WorkQuiet
<1>1. j \in Jobs
  BY BackgroundAssumption
<1>2. turn[j] = "none" /\ turn'[j] = "none"
  BY <1>1, TurnSteps DEF WorkQuiet, TurnStep
<1>3. row'[j] # row[j] => events[j] = << >>
  BY <1>1, SettledStays DEF WorkQuiet, TypeOK
<1>4. CASE events'[j] = events[j]
  BY <1>2, <1>3, <1>4 DEF WorkQuiet
<1>5. CASE events'[j] # events[j]
  <2>1. /\ row[j] = "running" /\ row'[j] \in Terminal
        /\ events'[j] = Append(events[j], row'[j])
    BY <1>1, <1>2, <1>5, EventSources DEF EventOf
  <2>2. events[j] = << >>
    BY <2>1 DEF WorkQuiet
  <2>3. events'[j] = << row'[j] >>
    BY <2>1, <2>2
  <2> QED BY <1>2, <2>1, <2>3 DEF Terminal
<1> QED BY <1>4, <1>5

\* spawn_work announces a job once, with the status its row holds, however its
\* end meets a cancel, a failed write or a restart.
THEOREM WorkIsAnnouncedOnce == Spec => []WorkAnnouncedOnce
<1>1. Init => WorkQuiet
  BY BackgroundAssumption DEF Init, WorkQuiet
<1>2. TypeOK /\ WorkQuiet => WorkAnnouncedOnce
  <2> SUFFICES ASSUME TypeOK, WorkQuiet, NEW j \in WorkJobs
               PROVE  /\ Len(events[j]) <= 1
                      /\ events[j] # << >> => events[j] = << row[j] >>
    BY DEF WorkAnnouncedOnce
  <2>1. CASE events[j] = << >>
    BY <2>1
  <2>2. CASE events[j] = << row[j] >>
    <3>1. Len(<< row[j] >>) = 1
      OBVIOUS
    <3> QED BY <2>2, <3>1
  <2> QED BY <2>1, <2>2 DEF WorkQuiet
<1> QED BY <1>1, <1>2, WorkStaysQuiet, TypeCorrect, PTL DEF Spec

-----------------------------------------------------------------------------
(* What is pushed to the model.                                            *)

\* A turn or a work that may still end, and so schedule a delivery; a job that
\* was never spawned counts, for it may yet be.
CanEnd(j) == \/ row[j] = "none"
             \/ turn[j] = "running"
             \/ turn[j] = "none" /\ fire[j] \in {"queued", "posted"}

\* A delivery is scheduled once, by the end of the turn or of the work, and
\* posts at most one nudge under the name of its job.
JobPush ==
  \A j \in Jobs : /\ CanEnd(j) => resume[j] = "none" /\ pushes[j] = 0
                  /\ resume[j] = "scheduled" => pushes[j] = 0
                  /\ pushes[j] <= 1

\* What a step can do to the delivery of a job: nothing; be scheduled by its
\* end; leave "scheduled" for good; or be moved on or lost afterwards.
DeliveryStep(j) ==
  \/ UNCHANGED <<resume[j], pushes[j]>> /\ (CanEnd(j)' => CanEnd(j))
  \/ /\ CanEnd(j) /\ ~CanEnd(j)' /\ row[j] # "none" /\ row'[j] \in Terminal
     /\ resume'[j] = "scheduled" /\ UNCHANGED pushes[j]
  \/ /\ resume[j] = "scheduled" /\ (CanEnd(j)' => CanEnd(j))
     /\ resume'[j] \notin {"none", "scheduled"} /\ pushes'[j] \in {pushes[j], pushes[j] + 1}
  \/ /\ resume'[j] \in {"none", "done", "undelivered", "abandoned"} /\ UNCHANGED pushes[j]
     /\ resume[j] \in {"nudging", "joining"} \/ resume'[j] = "none"
     /\ CanEnd(j)' => CanEnd(j)

LEMMA RowsStay ==
  ASSUME TypeOK, [Next]_vars, NEW j \in Jobs, row'[j] = "none"
  PROVE  row[j] = "none"
<1>1. ASSUME NEW S \in SUBSET Jobs, SettleStep(S) PROVE row[j] = "none"
  <2>1. PICK f \in [S -> Terminal] : row' = [i \in Jobs |-> IF i \in S THEN f[i] ELSE row[i]]
    BY <1>1 DEF SettleStep
  <2>2. j \in S => f[j] # "none"
    BY <2>1 DEF Terminal
  <2> QED BY <2>1, <2>2
<1>2. CASE NoRegistryStep \/ \E i \in Jobs : AcceptStep(i)
  BY <1>2 DEF NoRegistryStep, AcceptStep, TypeOK
<1>3. CASE \E s \in {OriginOf[i] : i \in Jobs} : DrainStep(s)
  BY <1>3 DEF DrainStep
<1> QED BY <1>1, <1>2, <1>3, EveryStep DEF RegistryStep

LEMMA DeliverySteps ==
  ASSUME TypeOK, Unstarted, WorkQuiet, [Next]_vars, NEW i \in Jobs
  PROVE  DeliveryStep(i)
<1>1. row'[i] = "none" => row[i] = "none"
  BY RowsStay
<1>2. i \notin Batches
  BY BackgroundAssumption
<1> USE <1>1, <1>2 DEF durable, worker, push, chat, history, DeliveryStep, CanEnd
<1>3. ASSUME NEW j \in Jobs, JobNext(j) PROVE DeliveryStep(i)
  <2> USE DEF TypeOK
  <2>1. CASE Spawn(j)
    BY <2>1 DEF Spawn, Unstarted
  <2>2. CASE AcquireSlot(j) \/ TurnStarts(j) \/ FireReturns(j)
    BY <2>2 DEF AcquireSlot, TurnStarts, FireReturns
  <2>3. CASE \/ FireFails(j) \/ FireTimesOut(j) \/ FireRefused(j) \/ TurnEndsUnsettled(j)
             \/ WorkEndsUnsettled(j) \/ WorkUnwinds(j)
    BY <2>3 DEF FireFails, FireTimesOut, FireRefused, TurnEndsUnsettled, WorkEndsUnsettled, WorkUnwinds
  <2>4. ASSUME NEW st \in Terminal, TurnEnds(j, st) PROVE DeliveryStep(i)
    <3>1. row[j] # "none"
      BY <2>4 DEF TurnEnds, Unstarted
    <3>2. row'[j] \in Terminal
      BY <2>4, <3>1, MarkCompleteType DEF TurnEnds, MarkComplete
    <3> QED BY <2>4, <3>1, <3>2 DEF TurnEnds, Deliver, Terminal
  <2>5. ASSUME NEW st \in Terminal, WorkEnds(j, st) PROVE DeliveryStep(i)
    <3>1. row[j] # "none" /\ turn[j] = "none"
      BY <2>5 DEF WorkEnds, Unstarted, WorkQuiet
    <3>2. row'[j] \in Terminal
      BY <2>5, <3>1, MarkCompleteType DEF WorkEnds, MarkComplete
    <3> QED BY <2>5, <3>1, <3>2 DEF WorkEnds, Deliver, Terminal
  <2>6. CASE ResumeSingleton(j)
    BY <2>6 DEF ResumeSingleton, PostNudge, Nudges
  <2>7. CASE HoldForSiblings(j)
    BY <2>7 DEF HoldForSiblings
  <2>8. CASE JoinBatch(j)
    <3>1. BatchOf[j] \in Batches
      BY <2>8, BackgroundAssumption DEF JoinBatch, Singleton
    <3>2. pushes'[i] = pushes[i]
      BY <2>8, <3>1 DEF JoinBatch, PostNudge, Nudges
    <3> QED BY <2>8, <3>2 DEF JoinBatch
  <2>9. CASE NudgeDelivered(j) \/ NudgeUndelivered(j) \/ NudgeTimesOut(j)
    BY <2>9 DEF NudgeDelivered, NudgeUndelivered, NudgeTimesOut
  <2> QED BY <1>3, <2>1, <2>2, <2>3, <2>4, <2>5, <2>6, <2>7, <2>8, <2>9 DEF JobNext
<1>4. ASSUME NEW c \in Batches, Straggle(c) PROVE DeliveryStep(i)
  BY <1>4 DEF Straggle, PostNudge, TypeOK, Nudges
<1>5. CASE PanelNext
  <2>1. ASSUME NEW j \in PanelJobs, CancelWork(j) PROVE DeliveryStep(i)
    BY <2>1, BackgroundAssumption DEF CancelWork, WorkTaskAlive, TypeOK
  <2>2. ASSUME NEW j \in PanelJobs, CancelUnannounced(j) \/ CancelRequest(j) \/ CancelSettles(j)
        PROVE  DeliveryStep(i)
    BY <2>2 DEF CancelUnannounced, CancelRequest, CancelSettles
  <2>3. ASSUME NEW S \in SUBSET PanelJobs, Dismiss(S) PROVE DeliveryStep(i)
    BY <2>3 DEF Dismiss
  <2> QED BY <1>5, <2>1, <2>2, <2>3 DEF PanelNext
<1>6. CASE SessionNext
  BY <1>6 DEF SessionNext, NudgeTurnStarts, NudgeTurnEnds, NudgeFails, NudgeStalls,
              OperatorTurnStarts, OperatorTurnEnds, ContinuationDrains
<1>7. CASE Restart \/ UNCHANGED vars
  BY <1>7 DEF Restart, vars
<1> QED BY <1>3, <1>4, <1>5, <1>6, <1>7 DEF Next

LEMMA JobPushStays == TypeOK /\ Unstarted /\ WorkQuiet /\ JobPush /\ [Next]_vars => JobPush'
<1> SUFFICES ASSUME TypeOK, Unstarted, WorkQuiet, JobPush, [Next]_vars, NEW j \in Jobs
             PROVE  /\ CanEnd(j)' => resume'[j] = "none" /\ pushes'[j] = 0
                    /\ resume'[j] = "scheduled" => pushes'[j] = 0
                    /\ pushes'[j] <= 1
  BY DEF JobPush, CanEnd
<1>1. DeliveryStep(j)
  BY DeliverySteps
<1>2. pushes[j] \in Nat
  BY DEF TypeOK, Nudges
<1> QED BY <1>1, <1>2 DEF DeliveryStep, JobPush

-----------------------------------------------------------------------------
(* What is pushed of a fan-out.                                            *)

Members(b) == {j \in Jobs : BatchOf[j] = b}

\* A job that may neither settle nor be delivered any more.
Spent(j) == /\ resume[j] # "scheduled" /\ turn[j] # "running"
            /\ fire[j] \notin {"queued", "posted"}

\* After a restart nothing is left that could push a fan-out again.
Dead(b) == /\ timer[b] = "off" /\ fanout[b] = "closed"
           /\ \A j \in Members(b) : Spent(j)

\* A fan-out that is posted is claimed, until a restart forgets the claim; by
\* then the turn that emitted it is over, and so are its members.
BatchPush ==
  \A b \in Batches :
    /\ fanout[b] = "unborn" => /\ pushes[b] = 0 /\ timer[b] = "off"
                               /\ \A j \in Members(b) : row[j] = "none"
    /\ pushes[b] <= 1
    /\ pushes[b] # 0 /\ b \notin joined => Dead(b)

\* A claimed fan-out has no straggler timer.
ClaimEndsTimer == \A b \in joined : timer[b] = "off"

MemberScheduled(b) == \E j \in Members(b) : resume[j] = "scheduled"

\* The claims, the timers and the posts of a step.
QuietStep(b) == UNCHANGED <<b \in joined, timer[b], pushes[b]>>
ArmStep(b)   == /\ b \notin joined /\ b \notin joined' /\ MemberScheduled(b)
                /\ timer'[b] = "armed" /\ UNCHANGED pushes[b]
PostStep(b)  == /\ b \notin joined /\ b \in joined' /\ timer'[b] = "off"
                /\ timer[b] = "armed" \/ MemberScheduled(b)
                /\ pushes'[b] = pushes[b] + 1 /\ nudge'[b] = "waiting"
LapseStep(b) == /\ b \in joined /\ b \in joined' /\ timer'[b] = "off" /\ UNCHANGED pushes[b]
LoseStep(b)  == /\ b \notin joined' /\ timer'[b] = "off" /\ UNCHANGED pushes[b]
                /\ fanout[b] # "unborn" => fanout'[b] = "closed"
                /\ \A j \in Jobs : resume'[j] = "none" /\ turn'[j] = "none" /\ fire'[j] = "none"
BatchStep(b) == QuietStep(b) \/ ArmStep(b) \/ PostStep(b) \/ LapseStep(b) \/ LoseStep(b)

LEMMA BatchSteps ==
  ASSUME TypeOK, [Next]_vars, NEW b \in Batches
  PROVE  BatchStep(b)
<1>1. b \notin Jobs
  BY BackgroundAssumption
<1> USE <1>1 DEF durable, worker, push, chat, history, BatchStep
<1>2. ASSUME NEW j \in Jobs, JobNext(j) PROVE BatchStep(b)
  <2>1. CASE \/ Spawn(j) \/ AcquireSlot(j) \/ TurnStarts(j) \/ FireReturns(j) \/ FireFails(j)
             \/ FireTimesOut(j) \/ FireRefused(j) \/ TurnEndsUnsettled(j)
             \/ WorkEndsUnsettled(j) \/ WorkUnwinds(j)
    BY <2>1 DEF Spawn, AcquireSlot, TurnStarts, FireReturns, FireFails, FireTimesOut, FireRefused,
                TurnEndsUnsettled, WorkEndsUnsettled, WorkUnwinds, QuietStep
  <2>2. ASSUME NEW st \in Terminal, TurnEnds(j, st) \/ WorkEnds(j, st) PROVE BatchStep(b)
    BY <2>2 DEF TurnEnds, WorkEnds, QuietStep
  <2>3. CASE ResumeSingleton(j)
    BY <2>3 DEF ResumeSingleton, PostNudge, QuietStep, TypeOK, Nudges
  <2>4. CASE HoldForSiblings(j)
    <3>1. CASE BatchOf[j] = b /\ b \notin joined
      BY <2>4, <3>1 DEF HoldForSiblings, EnsureTimer, Claimed, ArmStep, MemberScheduled, Members, TypeOK
    <3>2. CASE BatchOf[j] # b \/ b \in joined
      BY <2>4, <3>2 DEF HoldForSiblings, EnsureTimer, Claimed, QuietStep, TypeOK
    <3> QED BY <3>1, <3>2
  <2>5. CASE JoinBatch(j)
    <3>1. CASE BatchOf[j] = b /\ b \notin joined
      BY <2>5, <3>1 DEF JoinBatch, PostNudge, Claimed, PostStep, MemberScheduled, Members, TypeOK, Nudges
    <3>2. CASE BatchOf[j] # b \/ b \in joined
      BY <2>5, <3>2 DEF JoinBatch, PostNudge, Claimed, QuietStep, TypeOK, Nudges
    <3> QED BY <3>1, <3>2
  <2>6. CASE NudgeDelivered(j) \/ NudgeUndelivered(j) \/ NudgeTimesOut(j)
    BY <2>6 DEF NudgeDelivered, NudgeUndelivered, NudgeTimesOut, QuietStep
  <2> QED BY <1>2, <2>1, <2>2, <2>3, <2>4, <2>5, <2>6 DEF JobNext
<1>3. ASSUME NEW c \in Batches, Straggle(c) PROVE BatchStep(b)
  <2>1. CASE c # b
    BY <1>3, <2>1 DEF Straggle, PostNudge, QuietStep, TypeOK, Nudges
  <2>2. CASE c = b /\ b \in joined
    BY <1>3, <2>2 DEF Straggle, Claimed, LapseStep, TypeOK
  <2>3. CASE c = b /\ b \notin joined
    BY <1>3, <2>3 DEF Straggle, Claimed, PostNudge, PostStep, TypeOK, Nudges
  <2> QED BY <2>1, <2>2, <2>3
<1>4. CASE PanelNext
  BY <1>4 DEF PanelNext, CancelWork, CancelUnannounced, CancelRequest, CancelSettles, Dismiss, QuietStep
<1>5. CASE SessionNext
  BY <1>5 DEF SessionNext, NudgeTurnStarts, NudgeTurnEnds, NudgeFails, NudgeStalls,
              OperatorTurnStarts, OperatorTurnEnds, ContinuationDrains, QuietStep
<1>6. CASE Restart
  BY <1>6 DEF Restart, LoseStep, TypeOK
<1>7. CASE UNCHANGED vars
  BY <1>7 DEF vars, QuietStep
<1> QED BY <1>2, <1>3, <1>4, <1>5, <1>6, <1>7 DEF Next

\* The turn that emits a fan-out begins it with its first member and ends it
\* for good.
FanoutStep(b) ==
  /\ fanout'[b] = "unborn" => /\ fanout[b] = "unborn"
                              /\ \A j \in Members(b) : row[j] = "none" => row'[j] = "none"
  /\ fanout[b] = "closed" => fanout'[b] = "closed"

LEMMA RowsUnstarted ==
  ASSUME TypeOK, NEW j \in Jobs, NEW st, MarkComplete(j, st), NEW i \in Jobs, row[i] = "none"
  PROVE  row'[i] = "none"
  BY DEF MarkComplete, TypeOK

LEMMA FanoutSteps ==
  ASSUME TypeOK, [Next]_vars, NEW b \in Batches
  PROVE  FanoutStep(b)
<1> USE DEF durable, worker, push, chat, history, FanoutStep, Members
<1>1. ASSUME NEW j \in Jobs, JobNext(j) PROVE FanoutStep(b)
  <2>1. CASE Spawn(j)
    <3>1. CASE BatchOf[j] = NoBatch
      BY <2>1, <3>1, BackgroundAssumption DEF Spawn, TypeOK
    <3>2. CASE BatchOf[j] # NoBatch
      BY <2>1, <3>2 DEF Spawn, TypeOK
    <3> QED BY <3>1, <3>2
  <2>2. CASE \/ AcquireSlot(j) \/ TurnStarts(j) \/ FireReturns(j) \/ FireRefused(j)
             \/ TurnEndsUnsettled(j) \/ WorkEndsUnsettled(j) \/ WorkUnwinds(j)
    BY <2>2 DEF AcquireSlot, TurnStarts, FireReturns, FireRefused, TurnEndsUnsettled,
                WorkEndsUnsettled, WorkUnwinds
  <2>3. CASE FireFails(j) \/ FireTimesOut(j)
    BY <2>3, RowsUnstarted DEF FireFails, FireTimesOut
  <2>4. ASSUME NEW st \in Terminal, TurnEnds(j, st) \/ WorkEnds(j, st) PROVE FanoutStep(b)
    BY <2>4, RowsUnstarted DEF TurnEnds, WorkEnds
  <2>5. CASE ResumeSingleton(j) \/ HoldForSiblings(j) \/ JoinBatch(j)
    BY <2>5 DEF ResumeSingleton, HoldForSiblings, JoinBatch
  <2>6. CASE NudgeDelivered(j) \/ NudgeUndelivered(j) \/ NudgeTimesOut(j)
    BY <2>6 DEF NudgeDelivered, NudgeUndelivered, NudgeTimesOut
  <2> QED BY <1>1, <2>1, <2>2, <2>3, <2>4, <2>5, <2>6 DEF JobNext
<1>2. ASSUME NEW c \in Batches, Straggle(c) PROVE FanoutStep(b)
  BY <1>2 DEF Straggle
<1>3. CASE PanelNext
  <2>1. ASSUME NEW j \in PanelJobs, CancelWork(j) \/ CancelUnannounced(j) PROVE FanoutStep(b)
    BY <2>1 DEF CancelWork, CancelUnannounced, TypeOK
  <2>2. ASSUME NEW j \in PanelJobs, CancelRequest(j) \/ CancelSettles(j) PROVE FanoutStep(b)
    BY <2>2, RowsUnstarted, BackgroundAssumption DEF CancelRequest, CancelSettles
  <2>3. ASSUME NEW S \in SUBSET PanelJobs, Dismiss(S) PROVE FanoutStep(b)
    BY <2>3 DEF Dismiss
  <2> QED BY <1>3, <2>1, <2>2, <2>3 DEF PanelNext
<1>4. CASE SessionNext
  BY <1>4 DEF SessionNext, NudgeTurnStarts, NudgeTurnEnds, NudgeFails, NudgeStalls,
              OperatorTurnStarts, OperatorTurnEnds, ContinuationDrains, CloseFanouts, TypeOK
<1>5. CASE Restart \/ UNCHANGED vars
  BY <1>5 DEF Restart, vars, TypeOK
<1> QED BY <1>1, <1>2, <1>3, <1>4, <1>5 DEF Next

LEMMA SpentStays ==
  ASSUME TypeOK, Unstarted, WorkQuiet, JobPush, [Next]_vars,
         NEW i \in Jobs, BatchOf[i] \in Batches, fanout[BatchOf[i]] = "closed", Spent(i)
  PROVE  Spent(i)'
<1>1. DeliveryStep(i) /\ TurnStep(i)
  BY DeliverySteps, TurnSteps
<1>2. resume'[i] # "scheduled"
  BY <1>1 DEF DeliveryStep, CanEnd, Spent
<1>3. turn'[i] # "running"
  BY <1>1 DEF TurnStep, Spent
<1>4. fire'[i] \notin {"queued", "posted"}
  <2> USE DEF durable, worker, push, chat, history, Spent, TypeOK
  <2>1. ASSUME NEW j \in Jobs, JobNext(j) PROVE fire'[i] \notin {"queued", "posted"}
    <3>1. CASE Spawn(j)
      BY <3>1, BackgroundAssumption DEF Spawn
    <3>2. CASE AcquireSlot(j) \/ TurnStarts(j) \/ FireReturns(j) \/ FireFails(j) \/ FireTimesOut(j)
      BY <3>2 DEF AcquireSlot, TurnStarts, FireReturns, FireFails, FireTimesOut
    <3>3. CASE FireRefused(j) \/ TurnEndsUnsettled(j) \/ WorkEndsUnsettled(j) \/ WorkUnwinds(j)
      BY <3>3 DEF FireRefused, TurnEndsUnsettled, WorkEndsUnsettled, WorkUnwinds
    <3>4. ASSUME NEW st \in Terminal, TurnEnds(j, st) \/ WorkEnds(j, st)
          PROVE  fire'[i] \notin {"queued", "posted"}
      BY <3>4 DEF TurnEnds, WorkEnds
    <3>5. CASE ResumeSingleton(j) \/ HoldForSiblings(j) \/ JoinBatch(j)
      BY <3>5 DEF ResumeSingleton, HoldForSiblings, JoinBatch
    <3>6. CASE NudgeDelivered(j) \/ NudgeUndelivered(j) \/ NudgeTimesOut(j)
      BY <3>6 DEF NudgeDelivered, NudgeUndelivered, NudgeTimesOut
    <3> QED BY <2>1, <3>1, <3>2, <3>3, <3>4, <3>5, <3>6 DEF JobNext
  <2>2. ASSUME NEW c \in Batches, Straggle(c) PROVE fire'[i] \notin {"queued", "posted"}
    BY <2>2 DEF Straggle
  <2>3. CASE PanelNext
    BY <2>3 DEF PanelNext, CancelWork, CancelUnannounced, CancelRequest, CancelSettles, Dismiss
  <2>4. CASE SessionNext
    BY <2>4 DEF SessionNext, NudgeTurnStarts, NudgeTurnEnds, NudgeFails, NudgeStalls,
                OperatorTurnStarts, OperatorTurnEnds, ContinuationDrains
  <2>5. CASE Restart \/ UNCHANGED vars
    BY <2>5 DEF Restart, vars
  <2> QED BY <2>1, <2>2, <2>3, <2>4, <2>5 DEF Next
<1> QED BY <1>2, <1>3, <1>4 DEF Spent

LEMMA BatchPushStays ==
  ASSUME TypeOK, Unstarted, WorkQuiet, JobPush, BatchPush, [Next]_vars
  PROVE  BatchPush'
<1> SUFFICES ASSUME NEW b \in Batches
             PROVE  /\ fanout'[b] = "unborn" => /\ pushes'[b] = 0 /\ timer'[b] = "off"
                                                /\ \A j \in Members(b) : row'[j] = "none"
                    /\ pushes'[b] <= 1
                    /\ pushes'[b] # 0 /\ b \notin joined' => Dead(b)'
  BY DEF BatchPush, Members, Dead, Spent
<1>1. BatchStep(b) /\ FanoutStep(b) /\ pushes[b] \in Nat
  BY BatchSteps, FanoutSteps DEF TypeOK, Nudges
<1>2. CASE LoseStep(b)
  <2>1. ASSUME fanout[b] = "unborn", fanout'[b] = "unborn"
        PROVE  \A j \in Members(b) : row'[j] = "none"
    BY <1>1, <2>1 DEF BatchPush, FanoutStep
  <2>2. ASSUME fanout[b] # "unborn" PROVE Dead(b)'
    BY <1>2, <2>2 DEF LoseStep, Dead, Members, Spent
  <2> QED BY <1>1, <1>2, <2>1, <2>2 DEF LoseStep, FanoutStep, BatchPush
<1>3. CASE ~LoseStep(b)
  <2>1. ASSUME Dead(b) PROVE ~MemberScheduled(b) /\ timer[b] # "armed" /\ Dead(b)'
    <3>1. \A j \in Members(b) : Spent(j)'
      BY <2>1, SpentStays DEF Dead, Members
    <3>2. ~MemberScheduled(b) /\ timer[b] # "armed"
      BY <2>1 DEF Dead, MemberScheduled, Spent
    <3>3. timer'[b] = "off" /\ fanout'[b] = "closed"
      BY <1>1, <1>3, <2>1, <3>2
         DEF BatchStep, QuietStep, ArmStep, PostStep, LapseStep, FanoutStep, Dead
    <3> QED BY <3>1, <3>2, <3>3 DEF Dead, Members
  <2>2. ASSUME fanout[b] = "unborn" PROVE ~MemberScheduled(b) /\ timer[b] # "armed" /\ pushes[b] = 0
    BY <2>2 DEF BatchPush, JobPush, CanEnd, MemberScheduled, Members
  <2>3. CASE QuietStep(b) \/ LapseStep(b)
    BY <1>1, <2>1, <2>3 DEF QuietStep, LapseStep, FanoutStep, BatchPush
  <2>4. CASE ArmStep(b)
    BY <1>1, <2>1, <2>2, <2>4 DEF ArmStep, FanoutStep, BatchPush
  <2>5. CASE PostStep(b)
    BY <1>1, <2>1, <2>2, <2>5 DEF PostStep, FanoutStep, BatchPush
  <2> QED BY <1>1, <1>3, <2>3, <2>4, <2>5 DEF BatchStep
<1> QED BY <1>2, <1>3

\* A fan-out is pushed at most once, and so is a job on its own, whatever the
\* order of the members, the straggler timer, faults and restarts.
THEOREM PushesOnce == Spec => []PushedOnce
<1> DEFINE IInv == Unstarted /\ WorkQuiet /\ JobPush /\ BatchPush
<1>1. Init => IInv
  BY BackgroundAssumption DEF Init, Unstarted, WorkQuiet, JobPush, BatchPush, Nudges, Members
<1>2. TypeOK /\ IInv /\ [Next]_vars => IInv'
  BY UnstartedStays, WorkStaysQuiet, JobPushStays, BatchPushStays
<1>3. IInv => PushedOnce
  BY DEF JobPush, BatchPush, PushedOnce, Nudges
<1> HIDE DEF IInv
<1> QED BY <1>1, <1>2, <1>3, TypeCorrect, PTL DEF Spec

-----------------------------------------------------------------------------
(* What wakes the Activity thread.                                         *)

\* Who asks for the Activity wake of a job: its end, when no delivery is
\* scheduled, or its delivery task, when the nudge was refused or given up.
WakeStep(j) ==
  \/ j \in woken' => j \in woken
  \/ CanEnd(j) /\ ~CanEnd(j)' /\ UNCHANGED <<resume[j], nudge[j]>>
  \/ /\ resume[j] \in {"nudging", "joining"} /\ nudge[NudgeOf(j)] = "failed"
     /\ resume'[j] = "undelivered" /\ UNCHANGED <<nudge, pushes, joined>>
  \/ resume[j] \in {"nudging", "joining"} /\ resume'[j] = "abandoned"

LEMMA WakeSteps ==
  ASSUME TypeOK, Unstarted, WorkQuiet, [Next]_vars, NEW i \in Jobs
  PROVE  WakeStep(i)
<1> USE DEF durable, worker, push, chat, history, WakeStep, CanEnd
<1>1. ASSUME NEW j \in Jobs, JobNext(j) PROVE WakeStep(i)
  <2>1. CASE \/ Spawn(j) \/ AcquireSlot(j) \/ TurnStarts(j) \/ FireReturns(j) \/ FireFails(j)
             \/ FireTimesOut(j) \/ FireRefused(j) \/ TurnEndsUnsettled(j)
             \/ WorkEndsUnsettled(j) \/ WorkUnwinds(j)
    BY <2>1 DEF Spawn, AcquireSlot, TurnStarts, FireReturns, FireFails, FireTimesOut, FireRefused,
                TurnEndsUnsettled, WorkEndsUnsettled, WorkUnwinds
  <2>2. ASSUME NEW st \in Terminal, TurnEnds(j, st) PROVE WakeStep(i)
    <3>1. row[j] # "none"
      BY <2>2 DEF TurnEnds, Unstarted
    <3>2. row'[j] \in Terminal
      BY <2>2, <3>1, MarkCompleteType DEF TurnEnds, MarkComplete
    <3> QED BY <2>2, <3>1, <3>2 DEF TurnEnds, Deliver, Wake, Terminal, TypeOK
  <2>3. ASSUME NEW st \in Terminal, WorkEnds(j, st) PROVE WakeStep(i)
    <3>1. row[j] # "none" /\ turn[j] = "none"
      BY <2>3 DEF WorkEnds, Unstarted, WorkQuiet
    <3>2. row'[j] \in Terminal
      BY <2>3, <3>1, MarkCompleteType DEF WorkEnds, MarkComplete
    <3> QED BY <2>3, <3>1, <3>2 DEF WorkEnds, Deliver, Wake, Terminal, TypeOK
  <2>4. CASE ResumeSingleton(j) \/ HoldForSiblings(j) \/ JoinBatch(j) \/ NudgeDelivered(j)
    BY <2>4 DEF ResumeSingleton, HoldForSiblings, JoinBatch, NudgeDelivered
  <2>5. CASE NudgeUndelivered(j)
    BY <2>5 DEF NudgeUndelivered, Wake, TypeOK
  <2>6. CASE NudgeTimesOut(j)
    BY <2>6 DEF NudgeTimesOut, Wake, TypeOK
  <2> QED BY <1>1, <2>1, <2>2, <2>3, <2>4, <2>5, <2>6 DEF JobNext
<1>2. ASSUME NEW c \in Batches, Straggle(c) PROVE WakeStep(i)
  BY <1>2 DEF Straggle
<1>3. CASE PanelNext
  BY <1>3 DEF PanelNext, CancelWork, CancelUnannounced, CancelRequest, CancelSettles, Dismiss
<1>4. CASE SessionNext
  BY <1>4 DEF SessionNext, NudgeTurnStarts, NudgeTurnEnds, NudgeFails, NudgeStalls,
              OperatorTurnStarts, OperatorTurnEnds, ContinuationDrains
<1>5. CASE Restart \/ UNCHANGED vars
  BY <1>5 DEF Restart, vars
<1> QED BY <1>1, <1>2, <1>3, <1>4, <1>5 DEF Next

\* What a step does to the turn a push-resume starts: nothing; post it; move it
\* on; or lose it, with every delivery task and every name it was posted under.
NudgeStep(n) ==
  \/ UNCHANGED nudge[n]
  \/ nudge'[n] = "waiting" /\ pushes'[n] = pushes[n] + 1
  \/ nudge[n] \in {"waiting", "active"} /\ UNCHANGED pushes[n]
  \/ nudge'[n] = "none" /\ \A j \in Jobs : resume'[j] = "none" /\ nudge'[j] = "none"

LEMMA NudgeMoves ==
  ASSUME TypeOK, [Next]_vars, NEW n \in Nudges
  PROVE  NudgeStep(n)
<1> USE DEF durable, worker, push, chat, history, NudgeStep
<1>1. ASSUME NEW j \in Jobs, JobNext(j) PROVE NudgeStep(n)
  <2>1. CASE \/ Spawn(j) \/ AcquireSlot(j) \/ TurnStarts(j) \/ FireReturns(j) \/ FireFails(j)
             \/ FireTimesOut(j) \/ FireRefused(j) \/ TurnEndsUnsettled(j)
             \/ WorkEndsUnsettled(j) \/ WorkUnwinds(j)
    BY <2>1 DEF Spawn, AcquireSlot, TurnStarts, FireReturns, FireFails, FireTimesOut, FireRefused,
                TurnEndsUnsettled, WorkEndsUnsettled, WorkUnwinds
  <2>2. ASSUME NEW st \in Terminal, TurnEnds(j, st) \/ WorkEnds(j, st) PROVE NudgeStep(n)
    BY <2>2 DEF TurnEnds, WorkEnds
  <2>3. CASE ResumeSingleton(j) \/ HoldForSiblings(j) \/ JoinBatch(j)
    BY <2>3 DEF ResumeSingleton, HoldForSiblings, JoinBatch, PostNudge, TypeOK
  <2>4. CASE NudgeDelivered(j) \/ NudgeUndelivered(j) \/ NudgeTimesOut(j)
    BY <2>4 DEF NudgeDelivered, NudgeUndelivered, NudgeTimesOut
  <2> QED BY <1>1, <2>1, <2>2, <2>3, <2>4 DEF JobNext
<1>2. ASSUME NEW c \in Batches, Straggle(c) PROVE NudgeStep(n)
  BY <1>2 DEF Straggle, PostNudge, TypeOK
<1>3. CASE PanelNext
  BY <1>3 DEF PanelNext, CancelWork, CancelUnannounced, CancelRequest, CancelSettles, Dismiss
<1>4. CASE SessionNext
  BY <1>4 DEF SessionNext, NudgeTurnStarts, NudgeTurnEnds, NudgeFails, NudgeStalls,
              OperatorTurnStarts, OperatorTurnEnds, ContinuationDrains, TypeOK
<1>5. CASE Restart \/ UNCHANGED vars
  BY <1>5 DEF Restart, vars, Nudges
<1> QED BY <1>1, <1>2, <1>3, <1>4, <1>5 DEF Next

\* How a delivery task comes to wait for a push-resume, and to be refused one.
PostingStep(j) ==
  \/ UNCHANGED resume[j]
  \/ resume'[j] \notin {"nudging", "joining", "undelivered"}
  \/ resume[j] = "scheduled" /\ resume'[j] = "nudging" /\ pushes'[j] = pushes[j] + 1
  \/ /\ resume[j] = "scheduled" /\ resume'[j] = "joining" /\ UNCHANGED pushes[j]
     /\ BatchOf[j] \in Batches /\ BatchOf[j] \in joined'
  \/ resume[j] \in {"nudging", "joining"} /\ resume'[j] = "undelivered" /\ UNCHANGED <<pushes, joined>>

LEMMA Postings ==
  ASSUME TypeOK, [Next]_vars, NEW i \in Jobs
  PROVE  PostingStep(i)
<1> USE DEF durable, worker, push, chat, history, PostingStep
<1>1. ASSUME NEW j \in Jobs, JobNext(j) PROVE PostingStep(i)
  <2>1. CASE \/ Spawn(j) \/ AcquireSlot(j) \/ TurnStarts(j) \/ FireReturns(j) \/ FireFails(j)
             \/ FireTimesOut(j) \/ FireRefused(j) \/ TurnEndsUnsettled(j)
             \/ WorkEndsUnsettled(j) \/ WorkUnwinds(j)
    BY <2>1 DEF Spawn, AcquireSlot, TurnStarts, FireReturns, FireFails, FireTimesOut, FireRefused,
                TurnEndsUnsettled, WorkEndsUnsettled, WorkUnwinds
  <2>2. ASSUME NEW st \in Terminal, TurnEnds(j, st) \/ WorkEnds(j, st) PROVE PostingStep(i)
    BY <2>2 DEF TurnEnds, WorkEnds, Deliver, TypeOK
  <2>3. CASE ResumeSingleton(j)
    BY <2>3 DEF ResumeSingleton, PostNudge, TypeOK, Nudges
  <2>4. CASE HoldForSiblings(j)
    BY <2>4 DEF HoldForSiblings, TypeOK
  <2>5. CASE JoinBatch(j)
    <3>1. BatchOf[j] \in Batches /\ i # BatchOf[j]
      BY <2>5, BackgroundAssumption DEF JoinBatch, Singleton
    <3> QED BY <2>5, <3>1 DEF JoinBatch, PostNudge, TypeOK, Nudges
  <2>6. CASE NudgeDelivered(j) \/ NudgeUndelivered(j) \/ NudgeTimesOut(j)
    BY <2>6 DEF NudgeDelivered, NudgeUndelivered, NudgeTimesOut, TypeOK
  <2> QED BY <1>1, <2>1, <2>2, <2>3, <2>4, <2>5, <2>6 DEF JobNext
<1>2. ASSUME NEW c \in Batches, Straggle(c) PROVE PostingStep(i)
  BY <1>2 DEF Straggle
<1>3. CASE PanelNext
  BY <1>3 DEF PanelNext, CancelWork, CancelUnannounced, CancelRequest, CancelSettles, Dismiss
<1>4. CASE SessionNext
  BY <1>4 DEF SessionNext, NudgeTurnStarts, NudgeTurnEnds, NudgeFails, NudgeStalls,
              OperatorTurnStarts, OperatorTurnEnds, ContinuationDrains
<1>5. CASE Restart \/ UNCHANGED vars
  BY <1>5 DEF Restart, vars
<1> QED BY <1>1, <1>2, <1>3, <1>4, <1>5 DEF Next

\* A turn exists only under a name that was posted; a delivery task waits for
\* the one posted under its own name, or under the name of its claimed fan-out.
Postmarked(j) ==
  /\ nudge[j] # "none" => pushes[j] > 0
  /\ resume[j] = "nudging" => pushes[j] > 0
  /\ resume[j] \in {"joining", "undelivered"} /\ pushes[j] = 0 =>
       BatchOf[j] \in Batches /\ BatchOf[j] \in joined
  /\ resume[j] = "joining" => pushes[j] = 0

\* A woken completion can neither end again nor be posted again.
WokenAlone(j) ==
  j \in woken => /\ ~CanEnd(j)
                 /\ \/ resume[j] = "none" /\ nudge[j] = "none"
                    \/ resume[j] = "undelivered" /\ nudge[Posted(j)] = "failed"
                    \/ resume[j] = "abandoned"

\* A delivery that is forgotten is forgotten by a restart, with its turn.
LEMMA Lost ==
  ASSUME TypeOK, [Next]_vars, NEW i \in Jobs, resume[i] # "none", resume'[i] = "none"
  PROVE  nudge'[i] = "none"
<1> USE DEF durable, worker, push, chat, history, TypeOK
<1>1. ASSUME NEW j \in Jobs, JobNext(j) PROVE resume'[i] # "none"
  <2>1. CASE \/ Spawn(j) \/ AcquireSlot(j) \/ TurnStarts(j) \/ FireReturns(j) \/ FireFails(j)
             \/ FireTimesOut(j) \/ FireRefused(j) \/ TurnEndsUnsettled(j)
             \/ WorkEndsUnsettled(j) \/ WorkUnwinds(j)
    BY <2>1 DEF Spawn, AcquireSlot, TurnStarts, FireReturns, FireFails, FireTimesOut, FireRefused,
                TurnEndsUnsettled, WorkEndsUnsettled, WorkUnwinds
  <2>2. ASSUME NEW st \in Terminal, TurnEnds(j, st) \/ WorkEnds(j, st) PROVE resume'[i] # "none"
    BY <2>2 DEF TurnEnds, WorkEnds, Deliver
  <2>3. CASE ResumeSingleton(j) \/ HoldForSiblings(j) \/ JoinBatch(j)
    BY <2>3 DEF ResumeSingleton, HoldForSiblings, JoinBatch
  <2>4. CASE NudgeDelivered(j) \/ NudgeUndelivered(j) \/ NudgeTimesOut(j)
    BY <2>4 DEF NudgeDelivered, NudgeUndelivered, NudgeTimesOut
  <2> QED BY <1>1, <2>1, <2>2, <2>3, <2>4 DEF JobNext
<1>2. ASSUME NEW c \in Batches, Straggle(c) PROVE resume'[i] # "none"
  BY <1>2 DEF Straggle
<1>3. CASE PanelNext
  BY <1>3 DEF PanelNext, CancelWork, CancelUnannounced, CancelRequest, CancelSettles, Dismiss
<1>4. CASE SessionNext
  BY <1>4 DEF SessionNext, NudgeTurnStarts, NudgeTurnEnds, NudgeFails, NudgeStalls,
              OperatorTurnStarts, OperatorTurnEnds, ContinuationDrains
<1>5. CASE Restart \/ UNCHANGED vars
  BY <1>5 DEF Restart, vars, Nudges
<1> QED BY <1>1, <1>2, <1>3, <1>4, <1>5 DEF Next

\* A refused push-resume is not posted again, unless everything is lost.
LEMMA OwnRefusal ==
  ASSUME TypeOK, Unstarted, WorkQuiet, [Next]_vars, NEW j \in Jobs,
         resume[j] # "scheduled", nudge[j] = "failed"
  PROVE  nudge'[j] = "failed" \/ (resume'[j] = "none" /\ nudge'[j] = "none")
<1>1. NudgeStep(j)
  BY NudgeMoves DEF Nudges
<1>2. pushes'[j] = pushes[j] /\ pushes[j] \in Nat
  BY DeliverySteps DEF DeliveryStep, TypeOK, Nudges
<1> QED BY <1>1, <1>2 DEF NudgeStep

LEMMA FanoutRefusal ==
  ASSUME TypeOK, [Next]_vars, NEW b \in Batches, b \in joined, nudge[b] = "failed"
  PROVE  nudge'[b] = "failed" \/ \A j \in Jobs : resume'[j] = "none" /\ nudge'[j] = "none"
<1>1. NudgeStep(b)
  BY NudgeMoves DEF Nudges
<1>2. BatchStep(b) /\ pushes[b] \in Nat
  BY BatchSteps DEF TypeOK, Nudges
<1> QED BY <1>1, <1>2 DEF NudgeStep, BatchStep, QuietStep, ArmStep, PostStep, LapseStep, LoseStep

LEMMA PostmarksStay ==
  ASSUME TypeOK, Unstarted, WorkQuiet, JobPush, [Next]_vars, NEW j \in Jobs, Postmarked(j)
  PROVE  Postmarked(j)'
<1>1. DeliveryStep(j) /\ PostingStep(j) /\ NudgeStep(j)
  BY DeliverySteps, Postings, NudgeMoves DEF Nudges
<1>2. pushes[j] \in Nat
  BY DEF TypeOK, Nudges
<1>3. pushes'[j] \in {pushes[j], pushes[j] + 1}
  BY <1>1, <1>2 DEF DeliveryStep
<1>4. nudge'[j] # "none" => pushes'[j] > 0
  BY <1>1, <1>2, <1>3 DEF NudgeStep, Postmarked
<1>5. resume[j] = "scheduled" => pushes[j] = 0
  BY DEF JobPush
<1>6. resume'[j] = "nudging" => pushes'[j] > 0
  BY <1>1, <1>2, <1>3 DEF PostingStep, Postmarked
<1>7. resume'[j] = "joining" => pushes'[j] = 0
  BY <1>1, <1>2, <1>5 DEF PostingStep, DeliveryStep, Postmarked
<1>8. ASSUME resume'[j] \in {"joining", "undelivered"}, pushes'[j] = 0
      PROVE  BatchOf[j] \in Batches /\ BatchOf[j] \in joined'
  <2>1. pushes[j] = 0
    BY <1>2, <1>3, <1>8
  <2>2. CASE resume[j] \in {"joining", "undelivered"}
    <3>1. BatchOf[j] \in Batches /\ BatchOf[j] \in joined
      BY <2>1, <2>2 DEF Postmarked
    <3>2. BatchStep(BatchOf[j])
      BY <3>1, BatchSteps
    <3> QED BY <1>8, <3>1, <3>2
            DEF BatchStep, QuietStep, ArmStep, PostStep, LapseStep, LoseStep
  <2>3. CASE resume[j] \notin {"joining", "undelivered"}
    BY <1>1, <1>8, <2>1, <2>3 DEF PostingStep, Postmarked
  <2> QED BY <2>2, <2>3
<1> QED BY <1>4, <1>6, <1>7, <1>8 DEF Postmarked

LEMMA WokenStays ==
  ASSUME TypeOK, TypeOK', Unstarted, WorkQuiet, JobPush, [Next]_vars,
         NEW j \in Jobs, Postmarked(j), WokenAlone(j)
  PROVE  WokenAlone(j)'
<1> SUFFICES ASSUME j \in woken'
             PROVE  /\ ~CanEnd(j)'
                    /\ \/ resume'[j] = "none" /\ nudge'[j] = "none"
                       \/ resume'[j] = "undelivered" /\ nudge'[Posted(j)'] = "failed"
                       \/ resume'[j] = "abandoned"
  BY DEF WokenAlone, CanEnd, Posted
<1>1. DeliveryStep(j) /\ PostingStep(j) /\ NudgeStep(j) /\ WakeStep(j)
  BY DeliverySteps, Postings, NudgeMoves, WakeSteps DEF Nudges
<1>2. pushes[j] \in Nat
  BY DEF TypeOK, Nudges
<1>3. CASE j \in woken
  <2>1. ~CanEnd(j) /\ ~CanEnd(j)'
    BY <1>1, <1>3 DEF WokenAlone, DeliveryStep
  <2>2. CASE resume[j] = "none" /\ nudge[j] = "none"
    BY <1>1, <1>2, <2>1, <2>2 DEF DeliveryStep, NudgeStep
  <2>3. CASE resume[j] = "undelivered" /\ nudge[Posted(j)] = "failed"
    <3>1. pushes'[j] = pushes[j] /\ Posted(j)' = Posted(j)
          /\ (resume'[j] = "undelivered" \/ resume'[j] = "none")
      BY <1>1, <2>1, <2>3 DEF DeliveryStep, Posted
    <3>2. CASE pushes[j] > 0
      <4>1. nudge[j] = "failed" /\ Posted(j) = j
        BY <2>3, <3>2 DEF Posted
      <4>2. nudge'[j] = "failed" \/ (resume'[j] = "none" /\ nudge'[j] = "none")
        BY <2>3, <4>1, OwnRefusal
      <4> QED BY <1>1, <2>1, <2>3, <3>1, <4>1, <4>2, Lost
    <3>3. CASE pushes[j] = 0
      <4>1. BatchOf[j] \in Batches /\ BatchOf[j] \in joined /\ nudge[BatchOf[j]] = "failed"
        BY <2>3, <3>3 DEF Posted, Postmarked
      <4>2. nudge[j] = "none" /\ nudge'[j] = "none"
        BY <1>1, <1>2, <3>1, <3>3 DEF Postmarked, NudgeStep
      <4> QED BY <2>1, <3>1, <3>3, <4>1, <4>2, FanoutRefusal DEF Posted
    <3> QED BY <1>2, <3>2, <3>3
  <2>4. CASE resume[j] = "abandoned"
    BY <1>1, <2>1, <2>4, Lost DEF DeliveryStep
  <2> QED BY <1>3, <2>1, <2>2, <2>3, <2>4 DEF WokenAlone
<1>4. CASE j \notin woken
  <2>1. CASE CanEnd(j) /\ ~CanEnd(j)' /\ UNCHANGED <<resume[j], nudge[j]>>
    BY <1>2, <2>1 DEF JobPush, Postmarked, TypeOK, Nudges
  <2>2. CASE /\ resume[j] \in {"nudging", "joining"} /\ nudge[NudgeOf(j)] = "failed"
             /\ resume'[j] = "undelivered" /\ UNCHANGED <<nudge, pushes, joined>>
    <3>1. Posted(j)' = NudgeOf(j)
      BY <1>2, <2>2 DEF Posted, NudgeOf, Postmarked
    <3>2. ~CanEnd(j)'
      BY <1>1, <2>2 DEF JobPush, DeliveryStep
    <3> QED BY <2>2, <3>1, <3>2
  <2>3. CASE resume[j] \in {"nudging", "joining"} /\ resume'[j] = "abandoned"
    <3>1. ~CanEnd(j)'
      BY <1>1, <2>3 DEF JobPush, DeliveryStep
    <3> QED BY <2>3, <3>1
  <2> QED BY <1>1, <1>4, <2>1, <2>2, <2>3 DEF WakeStep
<1> QED BY <1>3, <1>4

\* A completion that wakes the Activity thread was not pushed to its session
\* and never will be, or its push was refused and started no turn, or the
\* client gave the push up; whatever fails, dies or restarts, and when.
THEOREM NeverBothWays == Spec => []NeverBoth
<1> DEFINE IInv == /\ Unstarted /\ WorkQuiet /\ JobPush
                   /\ \A j \in Jobs : Postmarked(j) /\ WokenAlone(j)
<1>1. Init => IInv
  BY BackgroundAssumption
     DEF Init, Unstarted, WorkQuiet, JobPush, Postmarked, WokenAlone, Nudges
<1>2. ASSUME TypeOK, TypeOK', IInv, [Next]_vars PROVE IInv'
  <2>1. Unstarted' /\ WorkQuiet' /\ JobPush'
    BY <1>2, UnstartedStays, WorkStaysQuiet, JobPushStays
  <2>2. \A j \in Jobs : Postmarked(j)'
    BY <1>2, PostmarksStay
  <2>3. \A j \in Jobs : WokenAlone(j)'
    BY <1>2, WokenStays
  <2> QED BY <2>1, <2>2, <2>3
<1>3. TypeOK /\ IInv => NeverBoth
  BY DEF NeverBoth, WokenAlone, TypeOK
<1> HIDE DEF IInv
<1> QED BY <1>1, <1>2, <1>3, TypeCorrect, PTL DEF Spec

-----------------------------------------------------------------------------
(* What is held back.                                                      *)

\* A delivery exists only for a settled row, and is held only for siblings.
DeliveredIsSettled ==
  \A j \in Jobs : /\ resume[j] # "none" => row[j] \in Terminal
                  /\ resume[j] = "held" => BatchOf[j] \in Batches

\* A delivery is held back with the timer armed, unless the join is claimed.
LEMMA HeldSteps ==
  ASSUME TypeOK, [Next]_vars, NEW i \in Jobs, resume'[i] = "held"
  PROVE  resume[i] = "held" \/ (BatchOf[i] \in Batches /\ timer'[BatchOf[i]] = "armed")
<1> USE DEF durable, worker, push, chat, history, TypeOK
<1>1. ASSUME NEW j \in Jobs, JobNext(j)
      PROVE  resume[i] = "held" \/ (BatchOf[i] \in Batches /\ timer'[BatchOf[i]] = "armed")
  <2>1. CASE \/ Spawn(j) \/ AcquireSlot(j) \/ TurnStarts(j) \/ FireReturns(j) \/ FireFails(j)
             \/ FireTimesOut(j) \/ FireRefused(j) \/ TurnEndsUnsettled(j)
             \/ WorkEndsUnsettled(j) \/ WorkUnwinds(j)
    BY <2>1 DEF Spawn, AcquireSlot, TurnStarts, FireReturns, FireFails, FireTimesOut, FireRefused,
                TurnEndsUnsettled, WorkEndsUnsettled, WorkUnwinds
  <2>2. ASSUME NEW st \in Terminal, TurnEnds(j, st) \/ WorkEnds(j, st) PROVE resume[i] = "held"
    BY <2>2 DEF TurnEnds, WorkEnds, Deliver
  <2>3. CASE HoldForSiblings(j)
    <3>1. BatchOf[j] \in Batches
      BY <2>3, Batched DEF HoldForSiblings
    <3> QED BY <2>3, <3>1 DEF HoldForSiblings, EnsureTimer
  <2>4. CASE ResumeSingleton(j) \/ JoinBatch(j)
    BY <2>4 DEF ResumeSingleton, JoinBatch
  <2>5. CASE NudgeDelivered(j) \/ NudgeUndelivered(j) \/ NudgeTimesOut(j)
    BY <2>5 DEF NudgeDelivered, NudgeUndelivered, NudgeTimesOut
  <2> QED BY <1>1, <2>1, <2>2, <2>3, <2>4, <2>5 DEF JobNext
<1>2. ASSUME NEW c \in Batches, Straggle(c) PROVE resume[i] = "held"
  BY <1>2 DEF Straggle
<1>3. CASE PanelNext
  BY <1>3 DEF PanelNext, CancelWork, CancelUnannounced, CancelRequest, CancelSettles, Dismiss
<1>4. CASE SessionNext
  BY <1>4 DEF SessionNext, NudgeTurnStarts, NudgeTurnEnds, NudgeFails, NudgeStalls,
              OperatorTurnStarts, OperatorTurnEnds, ContinuationDrains
<1>5. CASE Restart \/ UNCHANGED vars
  BY <1>5 DEF Restart, vars
<1> QED BY <1>1, <1>2, <1>3, <1>4, <1>5 DEF Next

\* A waiting nudge becomes the turn that drains its session, unless its POST
\* is refused or the stall guard ends it; or the process dies.
LEMMA NudgeSteps ==
  ASSUME "nudge" \notin Faults, "stall" \notin Faults,
         TypeOK, [Next]_vars, NEW b \in Batches, nudge[b] = "waiting"
  PROVE  \/ nudge'[b] = "waiting"
         \/ Drain(BatchOrigin[b]) /\ UNCHANGED row
         \/ \A j \in Jobs : resume'[j] = "none"
<1>1. b \notin Jobs
  BY BackgroundAssumption
<1> USE <1>1 DEF durable, worker, push, chat, history, TypeOK
<1>2. ASSUME NEW j \in Jobs, JobNext(j) PROVE nudge'[b] = "waiting"
  <2>1. CASE \/ Spawn(j) \/ AcquireSlot(j) \/ TurnStarts(j) \/ FireReturns(j) \/ FireFails(j)
             \/ FireTimesOut(j) \/ FireRefused(j) \/ TurnEndsUnsettled(j)
             \/ WorkEndsUnsettled(j) \/ WorkUnwinds(j)
    BY <2>1 DEF Spawn, AcquireSlot, TurnStarts, FireReturns, FireFails, FireTimesOut, FireRefused,
                TurnEndsUnsettled, WorkEndsUnsettled, WorkUnwinds
  <2>2. ASSUME NEW st \in Terminal, TurnEnds(j, st) \/ WorkEnds(j, st) PROVE nudge'[b] = "waiting"
    BY <2>2 DEF TurnEnds, WorkEnds
  <2>3. CASE ResumeSingleton(j) \/ HoldForSiblings(j) \/ JoinBatch(j)
    BY <2>3 DEF ResumeSingleton, HoldForSiblings, JoinBatch, PostNudge, Nudges
  <2>4. CASE NudgeDelivered(j) \/ NudgeUndelivered(j) \/ NudgeTimesOut(j)
    BY <2>4 DEF NudgeDelivered, NudgeUndelivered, NudgeTimesOut
  <2> QED BY <1>2, <2>1, <2>2, <2>3, <2>4 DEF JobNext
<1>3. ASSUME NEW c \in Batches, Straggle(c) PROVE nudge'[b] = "waiting"
  BY <1>3 DEF Straggle, PostNudge, Nudges
<1>4. CASE PanelNext
  BY <1>4 DEF PanelNext, CancelWork, CancelUnannounced, CancelRequest, CancelSettles, Dismiss
<1>5. ASSUME SessionNext PROVE nudge'[b] = "waiting" \/ (Drain(BatchOrigin[b]) /\ UNCHANGED row)
  <2>1. ASSUME NEW n \in Nudges, NudgeTurnStarts(n)
        PROVE  nudge'[b] = "waiting" \/ (Drain(BatchOrigin[b]) /\ UNCHANGED row)
    <3>1. CASE n = b
      BY <2>1, <3>1 DEF NudgeTurnStarts, NudgeSession
    <3>2. CASE n # b
      BY <2>1, <3>2 DEF NudgeTurnStarts
    <3> QED BY <3>1, <3>2
  <2>2. ASSUME NEW n \in Nudges, NudgeTurnEnds(n) PROVE nudge'[b] = "waiting"
    BY <2>2 DEF NudgeTurnEnds
  <2>3. ASSUME NEW n \in Nudges, NudgeFails(n) \/ NudgeStalls(n) PROVE FALSE
    BY <2>3 DEF NudgeFails, NudgeStalls, Fault
  <2>4. ASSUME NEW s \in Sessions, NEW fresh \in BOOLEAN,
               OperatorTurnStarts(s, fresh) \/ OperatorTurnEnds(s) \/ ContinuationDrains(s)
        PROVE  nudge'[b] = "waiting"
    BY <2>4 DEF OperatorTurnStarts, OperatorTurnEnds, ContinuationDrains
  <2> QED BY <1>5, <2>1, <2>2, <2>3, <2>4 DEF SessionNext
<1>6. CASE Restart \/ UNCHANGED vars
  BY <1>6 DEF Restart, vars
<1> QED BY <1>2, <1>3, <1>4, <1>5, <1>6 DEF Next

LEMMA SettledDeliveries ==
  ASSUME TypeOK, Unstarted, WorkQuiet, DeliveredIsSettled, [Next]_vars
  PROVE  DeliveredIsSettled'
<1> SUFFICES ASSUME NEW j \in Jobs
             PROVE  /\ resume'[j] # "none" => row'[j] \in Terminal
                    /\ resume'[j] = "held" => BatchOf[j] \in Batches
  BY DEF DeliveredIsSettled
<1>1. row[j] \in Terminal => row'[j] = row[j]
  BY SettledStays
<1>2. DeliveryStep(j)
  BY DeliverySteps
<1> QED BY <1>1, <1>2, HeldSteps DEF DeliveryStep, DeliveredIsSettled

LEMMA ClaimsEndTimers ==
  ASSUME TypeOK, TypeOK', ClaimEndsTimer, [Next]_vars
  PROVE  ClaimEndsTimer'
<1> SUFFICES ASSUME NEW b \in joined' PROVE timer'[b] = "off"
  BY DEF ClaimEndsTimer
<1>1. BatchStep(b)
  BY BatchSteps DEF TypeOK
<1> QED BY <1>1
        DEF BatchStep, QuietStep, ArmStep, PostStep, LapseStep, LoseStep, ClaimEndsTimer

\* As long as no nudge is refused or stalls in the queue for its session, a
\* completion held back for its siblings has a timer or a posted join.
THEOREM HeldAreCovered ==
  ASSUME "nudge" \notin Faults, "stall" \notin Faults
  PROVE  Spec => []HeldIsCovered
<1> DEFINE IInv == Unstarted /\ WorkQuiet /\ DeliveredIsSettled /\ ClaimEndsTimer /\ HeldIsCovered
<1>1. Init => IInv
  BY BackgroundAssumption
     DEF Init, Unstarted, WorkQuiet, DeliveredIsSettled, ClaimEndsTimer, HeldIsCovered
<1>2. ASSUME TypeOK, TypeOK', IInv, [Next]_vars PROVE HeldIsCovered'
  <2> SUFFICES ASSUME NEW j \in Jobs, resume'[j] = "held", ~notified'[j]
               PROVE  timer'[BatchOf[j]] = "armed" \/ nudge'[BatchOf[j]] = "waiting"
    BY DEF HeldIsCovered
  <2> DEFINE b == BatchOf[j]
  <2>1. CASE resume[j] # "held"
    BY <1>2, <2>1, HeldSteps
  <2>2. CASE resume[j] = "held"
    <3>1. b \in Batches /\ row[j] \in Terminal /\ OriginOf[j] = BatchOrigin[b]
      BY <1>2, <2>2, BackgroundAssumption, BatchAssumption DEF DeliveredIsSettled
    <3>2. ~notified[j]
      BY <1>2, EveryStep, DrainFacts
         DEF RegistryStep, NoRegistryStep, AcceptStep, SettleStep, DrainStep
    <3>3. BatchStep(b) /\ ~LoseStep(b)
      BY <1>2, <3>1, BatchSteps DEF LoseStep
    <3>4. CASE timer[b] = "armed"
      BY <1>2, <3>1, <3>3, <3>4
         DEF BatchStep, QuietStep, ArmStep, PostStep, LapseStep, ClaimEndsTimer
    <3>5. CASE nudge[b] = "waiting"
      <4>1. ~Drain(BatchOrigin[b])
        <5>1. j \in Pending(BatchOrigin[b])
          BY <3>1, <3>2 DEF Pending
        <5> QED BY <1>2, <5>1, DrainFacts
      <4> QED BY <1>2, <3>1, <3>5, <4>1, NudgeSteps
    <3> QED BY <1>2, <2>2, <3>2, <3>4, <3>5 DEF HeldIsCovered
  <2> QED BY <2>1, <2>2
<1>3. TypeOK /\ TypeOK' /\ IInv /\ [Next]_vars => IInv'
  BY <1>2, UnstartedStays, WorkStaysQuiet, SettledDeliveries, ClaimsEndTimers
<1>4. IInv => HeldIsCovered
  OBVIOUS
<1> HIDE DEF IInv
<1> QED BY <1>1, <1>3, <1>4, TypeCorrect, PTL DEF Spec
=============================================================================
