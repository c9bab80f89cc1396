----------------------------- MODULE Scheduler -----------------------------
(***************************************************************************)
(* scheduler/local.py: a table of cron and one-shot jobs, and the polling  *)
(* loop of the instance that owns its lock.  A tick selects the due rows,  *)
(* then claims them one after the other; a fire is a self-POST that lasts  *)
(* as long as the turn and is settled when it answers.  The agent's tools  *)
(* and the console edit the table from worker threads, so their statements *)
(* fall between any two statements of the loop.                            *)
(*                                                                         *)
(* Time is a small clock.  A cron with period p is due at the multiples of *)
(* p; a one-shot is its own due time.                                      *)
(***************************************************************************)
EXTENDS Naturals, FiniteSets

CONSTANTS
  Ids,                \* job ids (a wait and a plugin's cadence reuse theirs)
  Instances,          \* LocalScheduler objects that share one jobs.db
  Periods, Dates,     \* the crons, by period, and the one-shots' due times
  Limits,             \* max_fires of the crons that are added, or NoLimit
  Lifetimes,          \* their ttl, or NoLimit
  NoLimit, NoRow, NoFire, NoOwner,
  MaxTime,            \* the clock stops here
  MaxEditions,        \* how many rows are added or rewritten
  Window,             \* _MISSED_FIRE_WINDOW_S
  ReuseIds,           \* an id is added again while a cron of it fires
  PastDates,          \* one-shots are added or edited with a time that has come
  Faults, MaxFaults   \* the fault kinds that occur, and how many

FaultKinds == {"refused", "rpcError", "timeout", "stop", "crash",
                "storeFault",     \* the write that reschedules a cron fails
                "settleFault"}    \* a write that settles a fire fails

ASSUME SchedulerAssumption ==
  /\ Periods \subseteq Nat \ {0} /\ Dates \subseteq Nat
  /\ Limits \subseteq (Nat \ {0}) \cup {NoLimit} /\ NoLimit \notin Nat
  /\ Lifetimes \subseteq (Nat \ {0}) \cup {NoLimit}
  /\ MaxTime \in Nat /\ MaxEditions \in Nat /\ Window \in Nat /\ MaxFaults \in Nat
  /\ {ReuseIds, PastDates} \subseteq BOOLEAN /\ Faults \subseteq FaultKinds
  /\ NoOwner \notin Instances

VARIABLES
  clock,
  jobs,        \* the table
  state,       \* of each instance: stopped, waiting for the lock, polling...
  owner,       \* the instance that holds the lock on jobs.db
  due,         \* the rows a tick selected and has not claimed yet
  inflight,    \* _inflight_ids
  fire,        \* the fire task of an instance for a job id
  editions,    \* history: how many rows were added or rewritten
  turns,       \* history: the turns that each edition of a row has started
  served,      \* history: the cron turns that each added row has started
  slots,       \* history: the cron slots that were claimed
  fate,        \* history: how each edition left the table
  excused,     \* history: editions taken for fired after an error, or taken off the
               \* table by the settling of another edition's fire
  unsettled,   \* history: cron turns of each added row that were started but
               \* neither counted nor held against its limit
  faults       \* how many faults have occurred

loop    == <<state, owner, due, inflight>>
history == <<turns, served, slots, fate, excused, unsettled>>
vars    == <<clock, jobs, loop, fire, editions, history, faults>>

Schedules == [cron : {TRUE}, at : Periods] \cup [cron : {FALSE}, at : Dates]
Numbers   == 1 .. MaxEditions

\* A row, with the number of the edition and of the add that made it.
Rows == [sched : Schedules, next : Nat, limit : Limits \cup {NoLimit},
         until : Nat \cup {NoLimit}, count : Nat, edition : Numbers, birth : Numbers]

\* A fire task, with its snapshot of the row.
Fires == [row : Rows, phase : {"posted", "turn", "ok", "failed", "counted"}]

ASSUME SentinelAssumption == NoRow \notin Rows /\ NoFire \notin Fires

TypeOK ==
  /\ clock \in 0 .. MaxTime
  /\ jobs \in [Ids -> Rows \cup {NoRow}]
  /\ state \in [Instances -> {"off", "waiting", "polling", "stopping"}]
  /\ owner \in Instances \cup {NoOwner}
  /\ due \in [Instances -> SUBSET [id : Ids, row : Rows]]
  /\ inflight \in [Instances -> SUBSET Ids]
  /\ fire \in [Instances -> [Ids -> Fires \cup {NoFire}]]
  /\ editions \in 0 .. MaxEditions
  /\ turns \in [Numbers -> Nat] /\ served \in [Numbers -> Nat]
  /\ slots \subseteq Numbers \X Nat
  /\ fate \in [Numbers -> {"none", "live", "edited", "canceled", "stale", "fired", "expired"}]
  /\ excused \subseteq Numbers /\ unsettled \in [Numbers -> Nat]
  /\ faults \in 0 .. MaxFaults

Init ==
  /\ clock = 0 /\ jobs = [i \in Ids |-> NoRow]
  /\ state = [s \in Instances |-> "off"] /\ owner = NoOwner
  /\ due = [s \in Instances |-> {}] /\ inflight = [s \in Instances |-> {}]
  /\ fire = [s \in Instances |-> [i \in Ids |-> NoFire]]
  /\ editions = 0
  /\ turns = [n \in Numbers |-> 0] /\ served = [n \in Numbers |-> 0]
  /\ slots = {} /\ fate = [n \in Numbers |-> "none"]
  /\ excused = {} /\ unsettled = [n \in Numbers |-> 0]
  /\ faults = 0

Fault(kind) == kind \in Faults /\ faults < MaxFaults /\ faults' = faults + 1

-----------------------------------------------------------------------------
(* Statements on the table.                                                *)

\* _compute_next_fire: the next slot after t, or the one-shot's own time.
NextFire(sched, t) == IF sched.cron THEN (t \div sched.at + 1) * sched.at ELSE sched.at

\* Slips in the settle path: the delete is not scoped, or finds nothing.
MatchesAny(row, claimed) == row # NoRow
MatchesNone(row, claimed) == FALSE

\* DELETE ... WHERE id = ? AND next_fire = ?, with the next_fire claimed.
Matches(row, claimed) == row # NoRow /\ row.next = claimed.next

\* A row leaves the table; why is recorded for its edition.
Remove(i, why) ==
  /\ jobs' = [jobs EXCEPT ![i] = NoRow]
  /\ fate' = [fate EXCEPT ![jobs[i].edition] = why]

\* An instance's loop is between two tasks: no tick and no settling is under
\* way.  Only worker threads get a word in otherwise.
Yielded(s) == /\ due[s] = {}
              /\ \A i \in Ids : fire[s][i] # NoFire => fire[s][i].phase # "counted"

LoopIdle == \A s \in Instances : Yielded(s)

\* A cron with this id has been selected, or fires.
CronUnderWay(i) ==
  \E s \in Instances : \/ \E d \in due[s] : d.id = i /\ d.row.sched.cron
                       \/ fire[s][i] # NoFire /\ fire[s][i].row.sched.cron

MayEdit(sched) == PastDates \/ sched.cron \/ sched.at > clock

-----------------------------------------------------------------------------
(* Edits: the agent's tools, the console and the plugin SDK.               *)

\* add_job: the primary key refuses an id that is taken.
AddJob(i, sched, limit, ttl) ==
  /\ MayEdit(sched) /\ jobs[i] = NoRow /\ editions < MaxEditions
  /\ ReuseIds \/ ~CronUnderWay(i)
  /\ ~sched.cron => limit = NoLimit /\ ttl = NoLimit
  /\ LET n == editions + 1 IN
       /\ editions' = n /\ fate' = [fate EXCEPT ![n] = "live"]
       /\ jobs' = [jobs EXCEPT ![i] =
            [sched |-> sched, next |-> NextFire(sched, clock), limit |-> limit,
             until |-> IF ttl = NoLimit THEN NoLimit ELSE clock + ttl,
             count |-> 0, edition |-> n, birth |-> n]]
  /\ UNCHANGED <<clock, loop, fire, turns, served, slots, excused, unsettled, faults>>

CancelJob(i) ==
  /\ jobs[i] # NoRow
  /\ Remove(i, "canceled")
  /\ UNCHANGED <<clock, loop, fire, editions, turns, served, slots, excused, unsettled, faults>>

\* update_job keeps the id, the birth, the limits and the count.
UpdateJob(i, sched) ==
  /\ MayEdit(sched) /\ jobs[i] # NoRow /\ editions < MaxEditions
  /\ LET n == editions + 1 IN
       /\ editions' = n
       /\ fate' = [fate EXCEPT ![n] = "live", ![jobs[i].edition] = "edited"]
       /\ jobs' = [jobs EXCEPT ![i] = [@ EXCEPT !.sched = sched, !.edition = n,
                                                !.next = NextFire(sched, clock)]]
  /\ UNCHANGED <<clock, loop, fire, turns, served, slots, excused, unsettled, faults>>

-----------------------------------------------------------------------------
(* The life of an instance: the owner lock, recovery, stop.                *)

\* Due longer ago than the window of missed fires.
Stale(i) == jobs[i] # NoRow /\ jobs[i].next + Window <= clock

\* _recover_missed_fires: stale crons are rolled forward, stale one-shots go.
RecoverMissedFires ==
  /\ jobs' = [i \in Ids |->
       IF ~Stale(i) THEN jobs[i]
       ELSE IF jobs[i].sched.cron THEN [jobs[i] EXCEPT !.next = NextFire(jobs[i].sched, clock)]
       ELSE NoRow]
  /\ fate' = [n \in Numbers |->
       IF \E i \in Ids : Stale(i) /\ ~jobs[i].sched.cron /\ jobs[i].edition = n
       THEN "stale" ELSE fate[n]]

Acquire(s) ==
  /\ owner = NoOwner
  /\ owner' = s /\ state' = [state EXCEPT ![s] = "polling"]
  /\ RecoverMissedFires

Start(s) ==
  /\ state[s] = "off"
  /\ \/ Acquire(s)
     \/ owner # NoOwner /\ state' = [state EXCEPT ![s] = "waiting"] /\ UNCHANGED <<owner, jobs, fate>>
  /\ UNCHANGED <<clock, due, inflight, fire, editions, turns, served, slots, excused, unsettled,
                 faults>>

\* _await_lock_then_poll: try again until the lock is free.
RetryLock(s) ==
  /\ state[s] = "waiting" /\ Acquire(s)
  /\ UNCHANGED <<clock, due, inflight, fire, editions, turns, served, slots, excused, unsettled,
                 faults>>

\* stop ends the polling at once and lets the fires in flight finish briefly.
Stop(s) ==
  /\ state[s] \in {"waiting", "polling"} /\ Yielded(s) /\ Fault("stop")
  /\ state' = [state EXCEPT ![s] = IF @ = "polling" THEN "stopping" ELSE "off"]
  /\ UNCHANGED <<clock, jobs, owner, due, inflight, fire, editions, history>>

\* The turns whose fires are dropped with the instance stay unsettled.
Dropped(s) ==
  unsettled' = [n \in Numbers |->
    IF \E i \in Ids : /\ fire[s][i] # NoFire /\ fire[s][i].phase \in {"turn", "ok", "counted"}
                     /\ fire[s][i].row.sched.cron /\ fire[s][i].row.birth = n
    THEN unsettled[n] + 1 ELSE unsettled[n]]

\* Then the stragglers are cancelled (their turns run on) and the lock freed.
Release(s) ==
  /\ state[s] = "stopping" /\ Yielded(s)
  /\ state' = [state EXCEPT ![s] = "off"]
  /\ owner' = NoOwner
  /\ fire' = [fire EXCEPT ![s] = [i \in Ids |-> NoFire]]
  /\ inflight' = [inflight EXCEPT ![s] = {}]
  /\ Dropped(s)
  /\ UNCHANGED <<clock, jobs, due, editions, turns, served, slots, fate, excused, faults>>

\* The process dies; its lock goes with it.
Crash(s) ==
  /\ state[s] # "off" /\ Fault("crash")
  /\ state' = [state EXCEPT ![s] = "off"]
  /\ owner' = IF owner = s THEN NoOwner ELSE owner
  /\ due' = [due EXCEPT ![s] = {}] /\ inflight' = [inflight EXCEPT ![s] = {}]
  /\ fire' = [fire EXCEPT ![s] = [i \in Ids |-> NoFire]]
  /\ Dropped(s)
  /\ UNCHANGED <<clock, jobs, editions, turns, served, slots, fate, excused>>

-----------------------------------------------------------------------------
(* Ticks.                                                                  *)

\* A slip in _claim_due_jobs: the fires in flight are not left out.
DueRowsInFlight(s) == {[id |-> i, row |-> jobs[i]] : i \in {k \in Ids : jobs[k] # NoRow /\ jobs[k].next <= clock}}

DueRows(s) ==
  {[id |-> i, row |-> jobs[i]] :
     i \in {k \in Ids \ inflight[s] : jobs[k] # NoRow /\ jobs[k].next <= clock}}

Select(s) ==
  /\ state[s] = "polling" /\ Yielded(s) /\ DueRows(s) # {}
  /\ due' = [due EXCEPT ![s] = DueRows(s)]
  /\ UNCHANGED <<clock, jobs, state, owner, inflight, fire, editions, history, faults>>

\* A slip in _tick: the cron is rescheduled when its fire has landed.
RescheduleLater(d) == UNCHANGED <<jobs, faults>>

\* _reschedule_or_delete: the slot after now of the schedule selected, written
\* to whatever row has the id; a failed write is logged.
Reschedule(d) ==
  \/ /\ jobs' = IF jobs[d.id] = NoRow THEN jobs
                ELSE [jobs EXCEPT ![d.id].next = NextFire(d.row.sched, clock)]
     /\ UNCHANGED faults
  \/ Fault("storeFault") /\ UNCHANGED jobs

\* The loop body of _tick: rows in the order of their due times.
Claim(s, d) ==
  /\ d \in due[s] /\ \A e \in due[s] : d.row.next <= e.row.next
  /\ due' = [due EXCEPT ![s] = @ \ {d}]
  /\ inflight' = [inflight EXCEPT ![s] = @ \cup {d.id}]
  /\ fire' = [fire EXCEPT ![s][d.id] = [row |-> d.row, phase |-> "posted"]]
  /\ \/ /\ d.row.sched.cron
        /\ Reschedule(d) /\ slots' = slots \cup {<<d.row.edition, d.row.next>>}
     \/ ~d.row.sched.cron /\ UNCHANGED <<jobs, slots, faults>>
  /\ UNCHANGED <<clock, state, owner, editions, turns, served, fate, excused, unsettled>>

Tick ==
  /\ clock < MaxTime /\ LoopIdle
  /\ clock' = clock + 1
  /\ UNCHANGED <<jobs, loop, fire, editions, history, faults>>

-----------------------------------------------------------------------------
(* Fires.                                                                  *)

InPhase(s, i, phase) == /\ fire[s][i] # NoFire /\ fire[s][i].phase = phase
                        /\ phase # "counted" => Yielded(s)

\* The fire's snapshot of the row.
Fired(s, i) == fire[s][i].row

SetPhase(s, i, phase) == fire' = [fire EXCEPT ![s][i].phase = phase]

\* The turn that the fire started will not be held against the limit.
LeavesUnsettled(s, i) ==
  unsettled' = IF Fired(s, i).sched.cron THEN [unsettled EXCEPT ![Fired(s, i).birth] = @ + 1]
               ELSE unsettled

TurnStarts(s, i) ==
  /\ InPhase(s, i, "posted")
  /\ SetPhase(s, i, "turn")
  /\ turns' = [turns EXCEPT ![Fired(s, i).edition] = @ + 1]
  /\ served' = IF Fired(s, i).sched.cron THEN [served EXCEPT ![Fired(s, i).birth] = @ + 1] ELSE served
  /\ UNCHANGED <<clock, jobs, loop, editions, slots, fate, excused, unsettled, faults>>

\* The POST answers 200 once the turn is over, however the turn went.
TurnEnds(s, i) ==
  /\ InPhase(s, i, "turn") /\ SetPhase(s, i, "ok")
  /\ UNCHANGED <<clock, jobs, loop, editions, history, faults>>

\* No connection, or an HTTP error: no turn runs.
FireRefused(s, i) ==
  /\ InPhase(s, i, "posted") /\ Fault("refused") /\ SetPhase(s, i, "failed")
  /\ UNCHANGED <<clock, jobs, loop, editions, history>>

\* A JSON-RPC error rides a 200, and _fire looks at the status alone.
FireRejected(s, i) ==
  /\ InPhase(s, i, "posted") /\ Fault("rpcError") /\ SetPhase(s, i, "ok")
  /\ excused' = excused \cup {Fired(s, i).edition}
  /\ UNCHANGED <<clock, jobs, loop, editions, turns, served, slots, fate, unsettled>>

\* The client gives up on a long turn, which runs on.
FireTimesOut(s, i) ==
  /\ InPhase(s, i, "turn") /\ Fault("timeout") /\ SetPhase(s, i, "failed")
  /\ LeavesUnsettled(s, i)
  /\ UNCHANGED <<clock, jobs, loop, editions, turns, served, slots, fate, excused>>

\* A slip in _fire_and_settle: the id is not taken off the in-flight set.
FireOverLeaky(s, i) == fire' = [fire EXCEPT ![s][i] = NoFire] /\ UNCHANGED inflight

\* The finally of _fire_and_settle.
FireOver(s, i) ==
  /\ fire' = [fire EXCEPT ![s][i] = NoFire]
  /\ inflight' = [inflight EXCEPT ![s] = @ \ {i}]

\* A failed one-shot stays for a retry; a failed cron waits for its next slot.
SettleFailed(s, i) ==
  /\ InPhase(s, i, "failed") /\ FireOver(s, i)
  /\ UNCHANGED <<clock, jobs, state, owner, due, editions, history, faults>>

\* The row has been edited since the claim, to the very time that was claimed.
SameDate(s, i) == /\ jobs[i] # NoRow /\ jobs[i].edition # Fired(s, i).edition
                  /\ jobs[i].next = Fired(s, i).next

\* _delete_job scoped to the claimed next_fire; a failed write is logged.
SettleOneShot(s, i) ==
  /\ InPhase(s, i, "ok") /\ ~Fired(s, i).sched.cron /\ FireOver(s, i)
  /\ \/ Matches(jobs[i], Fired(s, i)) /\ Remove(i, "fired") /\ UNCHANGED faults
     \/ ~Matches(jobs[i], Fired(s, i)) /\ UNCHANGED <<jobs, fate, faults>>
     \/ Fault("settleFault") /\ UNCHANGED <<jobs, fate>>
  /\ excused' = excused \cup (IF SameDate(s, i) THEN {jobs[i].edition} ELSE {})
  /\ UNCHANGED <<clock, state, owner, due, editions, turns, served, slots, unsettled>>

\* _settle_cron_expiry, first statement: the count of whatever row has the id.
\* It reads 0 if the row is gone or the write failed.
Counted(s, i, n) ==
  fire' = [fire EXCEPT ![s][i] = [row |-> [@.row EXCEPT !.count = n], phase |-> "counted"]]

CountFire(s, i) ==
  /\ InPhase(s, i, "ok") /\ Fired(s, i).sched.cron
  /\ \/ /\ jobs[i] # NoRow /\ UNCHANGED <<unsettled, faults>>
        /\ jobs' = [jobs EXCEPT ![i].count = @ + 1] /\ Counted(s, i, jobs[i].count + 1)
     \/ jobs[i] = NoRow /\ Counted(s, i, 0) /\ UNCHANGED <<jobs, unsettled, faults>>
     \/ Fault("settleFault") /\ Counted(s, i, 0) /\ LeavesUnsettled(s, i) /\ UNCHANGED jobs
  /\ UNCHANGED <<clock, loop, editions, turns, served, slots, fate, excused>>

\* Slips in _settle_cron_expiry: one fire too early, and one too late.
ExpiredEarly(row) == \/ row.limit # NoLimit /\ row.count + 1 >= row.limit
                     \/ row.until # NoLimit /\ clock > row.until
ExpiredLate(row)  == \/ row.limit # NoLimit /\ row.count > row.limit
                     \/ row.until # NoLimit /\ clock > row.until

\* Its second: expired by the limit or the deadline of the row that was
\* claimed and the count just read, the row with the id is deleted; a failed
\* write is logged.
Expired(row) == \/ row.limit # NoLimit /\ row.count >= row.limit
                \/ row.until # NoLimit /\ clock > row.until

SettleCron(s, i) ==
  /\ InPhase(s, i, "counted") /\ FireOver(s, i)
  /\ \/ /\ Expired(Fired(s, i)) /\ jobs[i] # NoRow
        /\ Remove(i, "expired") /\ UNCHANGED <<unsettled, faults>>
        /\ excused' = excused \cup ({jobs[i].edition} \ {Fired(s, i).edition})
     \/ /\ ~(Expired(Fired(s, i)) /\ jobs[i] # NoRow)
        /\ UNCHANGED <<jobs, fate, excused, unsettled, faults>>
     \/ /\ Expired(Fired(s, i)) /\ Fault("settleFault")
        /\ LeavesUnsettled(s, i) /\ UNCHANGED <<jobs, fate, excused>>
  /\ UNCHANGED <<clock, state, owner, due, editions, turns, served, slots>>

-----------------------------------------------------------------------------
FireNext(s, i) ==
  \/ TurnStarts(s, i) \/ TurnEnds(s, i)
  \/ FireRefused(s, i) \/ FireRejected(s, i) \/ FireTimesOut(s, i)
  \/ SettleFailed(s, i) \/ SettleOneShot(s, i) \/ CountFire(s, i) \/ SettleCron(s, i)

EditNext(i) ==
  \/ \E sched \in Schedules : \/ \E limit \in Limits, ttl \in Lifetimes : AddJob(i, sched, limit, ttl)
                             \/ UpdateJob(i, sched)
  \/ CancelJob(i)

InstanceNext(s) ==
  \/ Start(s) \/ RetryLock(s) \/ Stop(s) \/ Release(s) \/ Crash(s)
  \/ Select(s) \/ \E d \in due[s] : Claim(s, d)
  \/ \E i \in Ids : FireNext(s, i)

Next == \/ Tick
        \/ \E i \in Ids : EditNext(i)
        \/ \E s \in Instances : InstanceNext(s)

Spec == Init /\ [][Next]_vars

(* Fairness: the clock goes on, an instance that is down is started again,  *)
(* the loop polls, and turns end.  Edits and faults owe nothing.            *)
LoopRunsOn(s) == \/ Start(s) \/ RetryLock(s) \/ Release(s)
                 \/ Select(s) \/ \E d \in due[s] : Claim(s, d)

FireRunsOn(s, i) == \/ TurnStarts(s, i) \/ TurnEnds(s, i) \/ SettleFailed(s, i)
                    \/ SettleOneShot(s, i) \/ CountFire(s, i) \/ SettleCron(s, i)

Fairness ==
  /\ WF_vars(Tick)
  /\ \A s \in Instances : /\ WF_vars(LoopRunsOn(s))
                          /\ \A i \in Ids : WF_vars(FireRunsOn(s, i))

FairSpec == Spec /\ Fairness

-----------------------------------------------------------------------------
(* Properties.                                                             *)

\* Only the owner of the lock polls, and every fire that is awaited is the
\* owner's: a second instance takes over after the first has let go.
OwnerFires ==
  \A s \in Instances : state[s] \in {"polling", "stopping"} \/ (\E i \in Ids : fire[s][i] # NoFire)
                      => owner = s

NewFire(s, i) == fire'[s][i] # NoFire /\ fire[s][i] = NoFire

\* A job that is firing is not claimed again, by any instance: no turn is
\* started for a job while an earlier one of it is awaited.
SingleFlight ==
  [][\A s \in Instances, i \in Ids :
       i \in inflight'[s] /\ fire'[s][i] # fire[s][i] /\ fire'[s][i].phase = "posted" =>
         \A r \in Instances : fire[r][i] = NoFire]_vars

\* A slot of a cron is fired at most once, whatever edits, stops and crashes
\* come between the claim and the end of the turn.
SlotOnce ==
  [][\A s \in Instances, i \in Ids : NewFire(s, i) /\ fire'[s][i].row.sched.cron =>
       <<fire'[s][i].row.edition, fire'[s][i].row.next>> \notin slots]_vars

\* A one-shot runs once: retries of refused deliveries, and edits, never start
\* a second turn for the same edition of it.
OneShotOnce ==
  [][\A s \in Instances, i \in Ids : \A n \in Numbers :
       turns'[n] > turns[n] /\ fire[s][i] # NoFire /\ Fired(s, i).edition = n /\ ~Fired(s, i).sched.cron
         => turns[n] = 0]_vars

\* A one-shot that leaves the table as fired has run, in the edition that
\* leaves: the settling of an earlier fire never takes a newer row with it.
FiredHasRun == \A n \in Numbers : fate[n] = "fired" => turns[n] >= 1

\* A cron starts no more turns than its max_fires, and one for each turn that was
\* started but not settled: the POST timed out, the instance was stopped or
\* crashed, or the write failed (scheduler/local.py:623-632).
TurnsCapped ==
  \A i \in Ids : jobs[i] # NoRow /\ jobs[i].limit # NoLimit =>
    served[jobs[i].birth] <= jobs[i].limit + unsettled[jobs[i].birth]

\* A row expires by its own doing: it has started max_fires turns of its own,
\* or outlived its ttl.
ExpiryEarned ==
  [][\A i \in Ids : jobs[i] # NoRow /\ fate'[jobs[i].edition] = "expired" =>
       \/ jobs[i].limit # NoLimit /\ served[jobs[i].birth] >= jobs[i].limit
       \/ jobs[i].until # NoLimit /\ clock > jobs[i].until]_vars

DueOneShot(i, n) == /\ jobs[i] # NoRow /\ jobs[i].edition = n
                    /\ ~jobs[i].sched.cron /\ jobs[i].next <= clock

\* A one-shot that is due runs, unless it is cancelled, edited or dropped as
\* stale, or a reschedule decided before an edit made it a one-shot puts it off;
\* or it is deleted for a turn it did not have: its POST was answered with a
\* JSON-RPC error (scheduler/local.py:894-908), it was made by an edit, while
\* the earlier edition fired, with the very time that was claimed
\* (scheduler/local.py:617), or by an edit or a new add while a cron of that id
\* fired, which then expired (scheduler/local.py:640-664).
PutOff(i, n) == jobs[i] # NoRow /\ jobs[i].edition = n /\ jobs[i].next > clock
OneShotFires ==
  \A i \in Ids, n \in Numbers :
    DueOneShot(i, n) ~> \/ turns[n] >= 1 \/ n \in excused
                        \/ fate[n] \in {"canceled", "edited", "stale"} \/ PutOff(i, n)
=============================================================================
