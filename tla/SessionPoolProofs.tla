------------------------- MODULE SessionPoolProofs -------------------------
(* Theorems about the session pool, for any number of calls, sessions and  *)
(* faults; close() may come at any time, also while a call is being posted.*)
EXTENDS SessionPool, TLAPS

USE PoolAssumption

(***************************************************************************)
(* The invariant.                                                          *)
(***************************************************************************)

Using == {"sent", "failed", "close"}

\* The lock is with the call that opens or closes, or with close().
Locked ==
  /\ \A c \in Calls : call[c].at \in {"open", "close"} => lock = c
  /\ closer = "closing" => lock = Closer

\* Sessions are numbered as they are started; the slot holds one it has held.
Fresh ==
  /\ ready \subseteq 1 .. opens /\ served \subseteq 1 .. opens
  /\ \A s \in Sessions : owner[s] # "none" => s <= opens
  /\ current # None => current \in served

\* A session that is up and does not answer is broken.
UpIsLive == \A s \in Sessions : owner[s] = "up" => s \in live \/ s \in broken

\* While a call opens a session the slot is empty, and it never held that one.
Opening ==
  \A c \in Calls : At(c, "open") =>
    /\ current = None /\ call[c].on \in Sessions /\ call[c].on \notin served
    /\ call[c].on \in ready => owner[call[c].on] = "up" \/ call[c].on \in broken \/ Closed

\* The generation tells whether the slot still holds the session of a request.
Generations ==
  \A c \in Calls : call[c].at \in Using =>
    /\ call[c].on \in served /\ call[c].gen <= generation
    /\ call[c].at # "close" /\ current # None => (call[c].gen = generation <=> current = call[c].on)
    /\ At(c, "failed") => call[c].on \in broken \/ Closed \/ current # call[c].on
    /\ At(c, "close") => current # call[c].on

\* What a call has sent, and that the slot does not hold a session it retries.
Counted ==
  \A c \in Calls :
    /\ tried[c] \subseteq served
    /\ call[c].at \in {"out", "bridge", "posted", "late", "stray"} => sends[c] = 0 /\ ~call[c].again /\ tried[c] = {}
    /\ call[c].at \in {"want", "open"} =>
         IF call[c].again THEN sends[c] = 1 /\ current \notin tried[c] ELSE sends[c] = 0 /\ tried[c] = {}
    /\ call[c].at \in Using /\ ~call[c].again => sends[c] = 1 /\ tried[c] = {call[c].on}

IInv == /\ TypeOK /\ Locked /\ Fresh /\ UpIsLive /\ Opening /\ Generations /\ Counted
        /\ NoOrphan /\ HealthyStays

(***************************************************************************)
(* The operators that the actions are made of.                             *)
(***************************************************************************)

\* One task changes, and of it the place.
Moves(c, pc) ==
  /\ call' \in [Calls -> Task]
  /\ call'[c].at = pc /\ call'[c].on = call[c].on /\ call'[c].gen = call[c].gen
  /\ call'[c].opened = call[c].opened /\ call'[c].again = call[c].again
  /\ \A d \in Calls \ {c} : call'[d] = call[d]

LEMMA GoesMoves ==
  ASSUME TypeOK, NEW c \in Calls,
         NEW pc \in {"bridge", "posted", "late", "stray", "want", "open", "sent", "failed", "close", "done"},
         Goes(c, pc)
  PROVE  Moves(c, pc)
  <1>1. call \in [Calls -> Task] /\ call[c] \in Task
    BY DEF TypeOK
  <1>2. [call[c] EXCEPT !.at = pc] \in Task
    BY <1>1 DEF Task
  <1>. QED  BY <1>1, <1>2 DEF Goes, Moves, Task

LEMMA EndsMoves ==
  ASSUME TypeOK, NEW c \in Calls, NEW a \in {"answer", "error"}, Ends(c, a)
  PROVE  /\ Moves(c, "done") /\ axed' \subseteq Calls
         /\ answer' \in [Calls -> {"none", "answer", "error", "cancelled"}]
  BY GoesMoves DEF Ends, Gives, TypeOK

LEMMA SentMoves ==
  ASSUME TypeOK, NEW c \in Calls, NEW s \in Sessions, NEW gen \in Nat, NEW opened \in BOOLEAN,
         Sent(c, s, gen, opened)
  PROVE  /\ call' \in [Calls -> Task]
         /\ call'[c].at = "sent" /\ call'[c].on = s /\ call'[c].gen = gen
         /\ call'[c].again = call[c].again
         /\ \A d \in Calls \ {c} : call'[d] = call[d]
         /\ sends' \in [Calls -> Nat] /\ tried' \in [Calls -> SUBSET Sessions]
         /\ sends'[c] = sends[c] + 1 /\ tried'[c] = tried[c] \cup {s}
         /\ \A d \in Calls \ {c} : sends'[d] = sends[d] /\ tried'[d] = tried[d]
  <1>1. call \in [Calls -> Task] /\ call[c] \in Task /\ s \in 0 .. MaxOpens
    BY DEF TypeOK, Sessions
  <1>2. [call[c] EXCEPT !.at = "sent", !.on = s, !.gen = gen, !.opened = opened] \in Task
    BY <1>1 DEF Task
  <1>3. /\ call' \in [Calls -> Task] /\ call'[c].at = "sent" /\ call'[c].on = s /\ call'[c].gen = gen
        /\ call'[c].again = call[c].again
        /\ \A d \in Calls \ {c} : call'[d] = call[d]
    BY <1>1, <1>2 DEF Sent, Task
  <1>. QED  BY <1>3 DEF Sent, TypeOK

LEMMA StopType ==
  ASSUME TypeOK, NEW s \in Sessions, ToldToStop(s)
  PROVE  /\ owner' \in [Sessions -> {"none", "opening", "up", "stopping", "gone"}]
         /\ owner'[s] \notin {"opening", "up"} /\ (owner'[s] # "none" => owner[s] # "none")
         /\ \A r \in Sessions \ {s} : owner'[r] = owner[r]
  BY DEF ToldToStop, TypeOK

LEMMA BeginInv ==
  ASSUME IInv, NEW c \in Calls, Begin(c)
  PROVE  IInv'
  <1>1. \/ Moves(c, "bridge") /\ axed' = axed /\ answer' = answer
        \/ Moves(c, "done") /\ axed' \subseteq Calls
           /\ answer' \in [Calls -> {"none", "answer", "error", "cancelled"}]
    BY GoesMoves, EndsMoves DEF Begin, GoesOn, IInv
  <1>2. TypeOK'
    BY <1>1 DEF Begin, IInv, TypeOK, slot, session, request, past, Moves, At
  <1>3. Locked'
    BY <1>1 DEF Begin, IInv, Locked, TypeOK, slot, session, request, past, Moves, At
  <1>4. Fresh'
    BY <1>1 DEF Begin, IInv, Fresh, TypeOK, slot, session, request, past, Moves, At
  <1>5. UpIsLive'
    BY <1>1 DEF Begin, IInv, UpIsLive, TypeOK, slot, session, request, past, Moves, At
  <1>6. Opening'
    BY <1>1 DEF Begin, IInv, Opening, At, Closed, TypeOK, slot, session, request, past, Moves, At
  <1>7. Generations'
    BY <1>1 DEF Begin, IInv, Generations, At, Closed, Using, TypeOK, slot, session, request, past, Moves, At
  <1>8. Counted'
    BY <1>1 DEF Begin, IInv, Counted, Using, TypeOK, slot, session, request, past, Moves, At
  <1>9. NoOrphan'
    BY <1>1 DEF Begin, IInv, NoOrphan, At, Opening, Locked, TypeOK, slot, session, request, past, Moves, At
  <1>10. HealthyStays'
    BY <1>1 DEF Begin, IInv, HealthyStays, Closed, TypeOK, slot, session, request, past, Moves, At
  <1>. QED  BY <1>2, <1>3, <1>4, <1>5, <1>6, <1>7, <1>8, <1>9, <1>10 DEF IInv

LEMMA PostInv ==
  ASSUME IInv, NEW c \in Calls, Post(c)
  PROVE  IInv'
  <1>1. \/ (Moves(c, "posted") \/ Moves(c, "late")) /\ axed' = axed /\ answer' = answer
        \/ Moves(c, "done") /\ axed' \subseteq Calls
           /\ answer' \in [Calls -> {"none", "answer", "error", "cancelled"}]
    BY GoesMoves, EndsMoves DEF Post, GoesOn, IInv
  <1>2. TypeOK'
    BY <1>1 DEF Post, IInv, TypeOK, slot, session, request, past, Moves, At
  <1>3. Locked'
    BY <1>1 DEF Post, IInv, Locked, TypeOK, slot, session, request, past, Moves, At
  <1>4. Fresh'
    BY <1>1 DEF Post, IInv, Fresh, TypeOK, slot, session, request, past, Moves, At
  <1>5. UpIsLive'
    BY <1>1 DEF Post, IInv, UpIsLive, TypeOK, slot, session, request, past, Moves, At
  <1>6. Opening'
    BY <1>1 DEF Post, IInv, Opening, At, Closed, TypeOK, slot, session, request, past, Moves, At
  <1>7. Generations'
    BY <1>1 DEF Post, IInv, Generations, At, Closed, Using, TypeOK, slot, session, request, past, Moves, At
  <1>8. Counted'
    BY <1>1 DEF Post, IInv, Counted, Using, TypeOK, slot, session, request, past, Moves, At
  <1>9. NoOrphan'
    BY <1>1 DEF Post, IInv, NoOrphan, At, Opening, Locked, TypeOK, slot, session, request, past, Moves, At
  <1>10. HealthyStays'
    BY <1>1 DEF Post, IInv, HealthyStays, Closed, TypeOK, slot, session, request, past, Moves, At
  <1>. QED  BY <1>2, <1>3, <1>4, <1>5, <1>6, <1>7, <1>8, <1>9, <1>10 DEF IInv

LEMMA RunPostedInv ==
  ASSUME IInv, NEW c \in Calls, RunPosted(c)
  PROVE  IInv'
  <1>1. (Moves(c, "want") \/ Moves(c, "stray")) /\ axed' = axed /\ answer' = answer
    BY GoesMoves DEF RunPosted, GoesOn, IInv
  <1>2. TypeOK'
    BY <1>1 DEF RunPosted, IInv, TypeOK, slot, session, request, past, Moves, At
  <1>3. Locked'
    BY <1>1 DEF RunPosted, IInv, Locked, TypeOK, slot, session, request, past, Moves, At
  <1>4. Fresh'
    BY <1>1 DEF RunPosted, IInv, Fresh, TypeOK, slot, session, request, past, Moves, At
  <1>5. UpIsLive'
    BY <1>1 DEF RunPosted, IInv, UpIsLive, TypeOK, slot, session, request, past, Moves, At
  <1>6. Opening'
    BY <1>1 DEF RunPosted, IInv, Opening, At, Closed, TypeOK, slot, session, request, past, Moves, At
  <1>7. Generations'
    BY <1>1 DEF RunPosted, IInv, Generations, At, Closed, Using, TypeOK, slot, session, request, past, Moves, At
  <1>8. Counted'
    BY <1>1 DEF RunPosted, IInv, Counted, Using, TypeOK, slot, session, request, past, Moves, At
  <1>9. NoOrphan'
    BY <1>1 DEF RunPosted, IInv, NoOrphan, At, Opening, Locked, TypeOK, slot, session, request, past, Moves, At
  <1>10. HealthyStays'
    BY <1>1 DEF RunPosted, IInv, HealthyStays, Closed, TypeOK, slot, session, request, past, Moves, At
  <1>. QED  BY <1>2, <1>3, <1>4, <1>5, <1>6, <1>7, <1>8, <1>9, <1>10 DEF IInv

LEMMA StopInv ==
  ASSUME IInv, NEW c \in Calls, Stop(c)
  PROVE  IInv'
  <1>1. /\ axed' \subseteq Calls /\ faults' \in 0 .. MaxFaults
        /\ answer' \in [Calls -> {"none", "answer", "error", "cancelled"}]
    BY DEF Stop, Gives, Fault, IInv, TypeOK
  <1>2. TypeOK'
    BY <1>1 DEF Stop, IInv, TypeOK, slot, session, past, At
  <1>3. Locked'
    BY <1>1 DEF Stop, IInv, Locked, TypeOK, slot, session, past, At
  <1>4. Fresh'
    BY <1>1 DEF Stop, IInv, Fresh, TypeOK, slot, session, past, At
  <1>5. UpIsLive'
    BY <1>1 DEF Stop, IInv, UpIsLive, TypeOK, slot, session, past, At
  <1>6. Opening'
    BY <1>1 DEF Stop, IInv, Opening, At, Closed, TypeOK, slot, session, past, At
  <1>7. Generations'
    BY <1>1 DEF Stop, IInv, Generations, At, Closed, Using, TypeOK, slot, session, past, At
  <1>8. Counted'
    BY <1>1 DEF Stop, IInv, Counted, Using, TypeOK, slot, session, past, At
  <1>9. NoOrphan'
    BY <1>1 DEF Stop, IInv, NoOrphan, At, Opening, Locked, TypeOK, slot, session, past, At
  <1>10. HealthyStays'
    BY <1>1 DEF Stop, IInv, HealthyStays, Closed, TypeOK, slot, session, past, At
  <1>. QED  BY <1>2, <1>3, <1>4, <1>5, <1>6, <1>7, <1>8, <1>9, <1>10 DEF IInv

LEMMA StopLateInv ==
  ASSUME IInv, NEW c \in Calls, StopLate(c)
  PROVE  IInv'
  <1>1. /\ Moves(c, "done") /\ axed' \subseteq Calls
        /\ answer' \in [Calls -> {"none", "answer", "error", "cancelled"}]
        /\ faults' \in 0 .. MaxFaults
    BY EndsMoves DEF StopLate, Fault, IInv, TypeOK
  <1>2. TypeOK'
    BY <1>1 DEF StopLate, IInv, TypeOK, slot, session, request, past, Moves, At
  <1>3. Locked'
    BY <1>1 DEF StopLate, IInv, Locked, TypeOK, slot, session, request, past, Moves, At
  <1>4. Fresh'
    BY <1>1 DEF StopLate, IInv, Fresh, TypeOK, slot, session, request, past, Moves, At
  <1>5. UpIsLive'
    BY <1>1 DEF StopLate, IInv, UpIsLive, TypeOK, slot, session, request, past, Moves, At
  <1>6. Opening'
    BY <1>1 DEF StopLate, IInv, Opening, At, Closed, TypeOK, slot, session, request, past, Moves, At
  <1>7. Generations'
    BY <1>1 DEF StopLate, IInv, Generations, At, Closed, Using, TypeOK, slot, session, request, past, Moves, At
  <1>8. Counted'
    BY <1>1 DEF StopLate, IInv, Counted, Using, TypeOK, slot, session, request, past, Moves, At
  <1>9. NoOrphan'
    BY <1>1 DEF StopLate, IInv, NoOrphan, At, Opening, Locked, TypeOK, slot, session, request, past, Moves, At
  <1>10. HealthyStays'
    BY <1>1 DEF StopLate, IInv, HealthyStays, Closed, TypeOK, slot, session, request, past, Moves, At
  <1>. QED  BY <1>2, <1>3, <1>4, <1>5, <1>6, <1>7, <1>8, <1>9, <1>10 DEF IInv

LEMMA RefusedInv ==
  ASSUME IInv, NEW c \in Calls, Refused(c)
  PROVE  IInv'
  <1>1. /\ Moves(c, "done") /\ axed' \subseteq Calls
        /\ answer' \in [Calls -> {"none", "answer", "error", "cancelled"}]
    BY EndsMoves DEF Refused, IInv
  <1>2. TypeOK'
    BY <1>1 DEF Refused, IInv, TypeOK, slot, session, request, past, Moves, At
  <1>3. Locked'
    BY <1>1 DEF Refused, IInv, Locked, TypeOK, slot, session, request, past, Moves, At
  <1>4. Fresh'
    BY <1>1 DEF Refused, IInv, Fresh, TypeOK, slot, session, request, past, Moves, At
  <1>5. UpIsLive'
    BY <1>1 DEF Refused, IInv, UpIsLive, TypeOK, slot, session, request, past, Moves, At
  <1>6. Opening'
    BY <1>1 DEF Refused, IInv, Opening, At, Closed, TypeOK, slot, session, request, past, Moves, At
  <1>7. Generations'
    BY <1>1 DEF Refused, IInv, Generations, At, Closed, Using, TypeOK, slot, session, request, past, Moves, At
  <1>8. Counted'
    BY <1>1 DEF Refused, IInv, Counted, Using, TypeOK, slot, session, request, past, Moves, At
  <1>9. NoOrphan'
    BY <1>1 DEF Refused, IInv, NoOrphan, At, Opening, Locked, TypeOK, slot, session, request, past, Moves, At
  <1>10. HealthyStays'
    BY <1>1 DEF Refused, IInv, HealthyStays, Closed, TypeOK, slot, session, request, past, Moves, At
  <1>. QED  BY <1>2, <1>3, <1>4, <1>5, <1>6, <1>7, <1>8, <1>9, <1>10 DEF IInv

LEMMA ReuseInv ==
  ASSUME IInv, NEW c \in Calls, Reuse(c)
  PROVE  IInv'
  <1>1. current \in served /\ current \in Sessions
    BY DEF Reuse, IInv, Fresh, TypeOK, Sessions, None
  <1>2. /\ call' \in [Calls -> Task]
        /\ call'[c].at = "sent" /\ call'[c].on = current /\ call'[c].gen = generation
        /\ call'[c].again = call[c].again
        /\ \A d \in Calls \ {c} : call'[d] = call[d]
        /\ sends' \in [Calls -> Nat] /\ tried' \in [Calls -> SUBSET Sessions]
        /\ sends'[c] = sends[c] + 1 /\ tried'[c] = tried[c] \cup {current}
        /\ \A d \in Calls \ {c} : sends'[d] = sends[d] /\ tried'[d] = tried[d]
    BY <1>1, SentMoves DEF Reuse, IInv, TypeOK
  <1>3. TypeOK'
    BY <1>1, <1>2 DEF Reuse, IInv, TypeOK, slot, session, At
  <1>4. Locked'
    BY <1>1, <1>2 DEF Reuse, IInv, Locked, TypeOK, slot, session, At
  <1>5. Fresh'
    BY <1>1, <1>2 DEF Reuse, IInv, Fresh, TypeOK, slot, session, At
  <1>6. UpIsLive'
    BY <1>1, <1>2 DEF Reuse, IInv, UpIsLive, TypeOK, slot, session, At
  <1>7. Opening'
    BY <1>1, <1>2 DEF Reuse, IInv, Opening, At, Closed, TypeOK, slot, session, At
  <1>8. Generations'
    BY <1>1, <1>2 DEF Reuse, IInv, Generations, At, Closed, Using, TypeOK, slot, session, At
  <1>9. Counted'
    BY <1>1, <1>2 DEF Reuse, IInv, Counted, Using, TypeOK, slot, session, At
  <1>10. NoOrphan'
    BY <1>1, <1>2 DEF Reuse, IInv, NoOrphan, At, Opening, Locked, TypeOK, slot, session, At
  <1>11. HealthyStays'
    BY <1>1, <1>2 DEF Reuse, IInv, HealthyStays, Closed, TypeOK, slot, session, At
  <1>. QED  BY <1>3, <1>4, <1>5, <1>6, <1>7, <1>8, <1>9, <1>10, <1>11 DEF IInv

LEMMA OpensInv ==
  ASSUME IInv, NEW c \in Calls, Opens(c)
  PROVE  IInv'
  <1>1. PICK s \in Sessions : s = opens + 1
    BY DEF Opens, IInv, TypeOK, Sessions
  <1>2. [call[c] EXCEPT !.at = "open", !.on = s] \in Task
    <2>1. call[c] \in Task /\ s \in 0 .. MaxOpens
      BY DEF IInv, TypeOK, Sessions
    <2>. QED  BY <2>1 DEF Task
  <1>3. /\ call' \in [Calls -> Task]
        /\ call'[c].at = "open" /\ call'[c].on = s
        /\ call'[c].again = call[c].again
        /\ \A d \in Calls \ {c} : call'[d] = call[d]
    BY <1>1, <1>2 DEF Opens, IInv, TypeOK, Task
  <1>4. /\ \A d \in Calls : call[d].at \notin {"open", "close"}
        /\ s \notin ready /\ s \notin served
    BY <1>1 DEF Opens, IInv, Locked, Fresh, TypeOK
  <1>5. /\ call[c].at = "want" /\ current = None /\ lock = Nobody /\ lock' = c /\ opens' = s
        /\ owner' = [owner EXCEPT ![s] = "opening"]
        /\ UNCHANGED <<current, generation, ready, live, axed, answer, closer, served, broken, sends, tried, faults>>
    BY <1>1 DEF Opens, At, past
  <1>6. TypeOK'
    BY <1>1, <1>3, <1>4, <1>5 DEF IInv, TypeOK, None, Sessions
  <1>7. Locked'
    BY <1>1, <1>3, <1>4, <1>5 DEF IInv, Locked, TypeOK, None, Sessions
  <1>8. Fresh'
    BY <1>1, <1>3, <1>4, <1>5 DEF IInv, Fresh, TypeOK, None, Sessions
  <1>9. UpIsLive'
    BY <1>1, <1>3, <1>4, <1>5 DEF IInv, UpIsLive, TypeOK, None, Sessions
  <1>10. Opening'
    <2>. SUFFICES ASSUME NEW d \in Calls, call'[d].at = "open"
                  PROVE  /\ current' = None /\ call'[d].on \in Sessions /\ call'[d].on \notin served
                         /\ call'[d].on \notin ready
      BY <1>5 DEF Opening, At
    <2>1. d = c
      BY <1>3, <1>4
    <2>. QED  BY <2>1, <1>3, <1>4, <1>5
  <1>11. Generations'
    <2>. SUFFICES ASSUME NEW d \in Calls, call'[d].at \in Using
                  PROVE  /\ call'[d].on \in served' /\ call'[d].gen <= generation'
                         /\ call'[d].at # "close" /\ current' # None =>
                              (call'[d].gen = generation' <=> current' = call'[d].on)
                         /\ call'[d].at = "failed" => \/ call'[d].on \in broken' \/ Closed'
                                                     \/ current' # call'[d].on
                         /\ call'[d].at = "close" => current' # call'[d].on
      BY DEF Generations, At
    <2>1. d # c
      BY <1>3 DEF Using
    <2>2. call'[d] = call[d] /\ UNCHANGED <<served, generation, broken, closer, current>>
      BY <2>1, <1>3, <1>5
    <2>. QED  BY <2>2 DEF IInv, Generations, At, Closed
  <1>12. Counted'
    BY <1>1, <1>3, <1>4, <1>5 DEF IInv, Counted, Using, TypeOK, None, Sessions
  <1>13. NoOrphan'
    <2>. SUFFICES ASSUME NEW t \in Sessions, owner'[t] \in {"opening", "up"}
                  PROVE  current' = t \/ \E d \in Calls : call'[d].at = "open" /\ call'[d].on = t
      BY DEF NoOrphan, At
    <2>1. CASE t = s
      BY <2>1, <1>3
    <2>2. CASE t # s
      <3>1. owner[t] \in {"opening", "up"}
        BY <2>2, <1>5 DEF IInv, TypeOK
      <3>2. current = t
        BY <3>1, <1>4 DEF IInv, NoOrphan, At
      <3>. QED  BY <3>2, <1>5
    <2>. QED  BY <2>1, <2>2
  <1>14. HealthyStays'
    BY <1>1, <1>3, <1>4, <1>5 DEF IInv, HealthyStays, Closed, TypeOK, None, Sessions
  <1>. QED  BY <1>6, <1>7, <1>8, <1>9, <1>10, <1>11, <1>12, <1>13, <1>14 DEF IInv

LEMMA OpenedInv ==
  ASSUME IInv, NEW c \in Calls, Opened(c)
  PROVE  IInv'
  <1>1. PICK s \in Sessions : s = call[c].on
    BY DEF Opened, IInv, Opening
  <1>2. PICK g \in Nat : g = generation + 1
    BY DEF IInv, TypeOK
  <1>3. /\ s \notin served /\ current = None /\ lock = c /\ s \in 1 .. opens
        /\ owner[s] = "up" \/ s \in broken \/ Closed
    BY <1>1 DEF Opened, IInv, Opening, Locked, Fresh, TypeOK, At
  <1>4. /\ call' \in [Calls -> Task]
        /\ call'[c].at = "sent" /\ call'[c].on = s /\ call'[c].gen = g
        /\ call'[c].again = call[c].again
        /\ \A d \in Calls \ {c} : call'[d] = call[d]
        /\ sends' \in [Calls -> Nat] /\ tried' \in [Calls -> SUBSET Sessions]
        /\ sends'[c] = sends[c] + 1 /\ tried'[c] = tried[c] \cup {s}
        /\ \A d \in Calls \ {c} : sends'[d] = sends[d] /\ tried'[d] = tried[d]
    <2>1. Sent(c, s, g, TRUE)
      BY <1>1, <1>2 DEF Opened, Sent
    <2>. QED  BY <2>1, SentMoves DEF IInv
  <1>5. \A d \in Calls \ {c} : call[d].at \notin {"open", "close"}
    BY <1>3 DEF IInv, Locked
  <1>6. /\ call[c].at = "open" /\ lock' = Nobody /\ current' = s
        /\ generation' = g /\ served' = served \cup {s}
        /\ UNCHANGED <<opens, owner, ready, live, axed, answer, closer, broken, faults>>
    BY <1>1, <1>2 DEF Opened, session, At
  <1>7. TypeOK'
    <2>1. TypeOK /\ s \in 0 .. MaxOpens /\ served \cup {s} \subseteq Sessions
      BY DEF IInv, TypeOK, Sessions
    <2>2. /\ current' \in 0 .. MaxOpens /\ generation' \in Nat /\ served' \subseteq Sessions
          /\ lock' \in Calls \cup {Nobody, Closer}
      BY <1>2, <1>6, <2>1
    <2>. QED  BY <1>4, <1>6, <2>1, <2>2 DEF TypeOK
  <1>8. Locked'
    BY <1>1, <1>2, <1>3, <1>4, <1>5, <1>6 DEF IInv, Locked, TypeOK, None, Sessions
  <1>9. Fresh'
    BY <1>1, <1>2, <1>3, <1>4, <1>5, <1>6 DEF IInv, Fresh, TypeOK, None, Sessions
  <1>10. UpIsLive'
    BY <1>1, <1>2, <1>3, <1>4, <1>5, <1>6 DEF IInv, UpIsLive, TypeOK, None, Sessions
  <1>11. Opening'
    BY <1>1, <1>2, <1>3, <1>4, <1>5, <1>6 DEF IInv, Opening, At, Closed, TypeOK, None, Sessions
  <1>12. Generations'
    <2>. SUFFICES ASSUME NEW d \in Calls, call'[d].at \in Using
                  PROVE  /\ call'[d].on \in served' /\ call'[d].gen <= generation'
                         /\ call'[d].at # "close" => (call'[d].gen = generation' <=> current' = call'[d].on)
                         /\ call'[d].at = "failed" => call'[d].on \in broken' \/ Closed' \/ current' # call'[d].on
                         /\ call'[d].at = "close" => current' # call'[d].on
      BY DEF Generations, At
    <2>1. CASE d = c
      BY <1>2, <1>4, <1>6, <2>1
    <2>2. CASE d # c
      <3>1. call'[d] = call[d] /\ call[d].at \in Using /\ call[d].at # "close"
        BY <1>4, <1>5, <2>2
      <3>2. call[d].on \in served /\ call[d].gen <= generation /\ call[d].gen \in Nat
        BY <3>1 DEF IInv, Generations, TypeOK, Task
      <3>3. call[d].on # s /\ call[d].gen < g
        BY <1>2, <1>3, <3>2 DEF IInv, TypeOK
      <3>. QED  BY <1>2, <1>6, <3>1, <3>2, <3>3
    <2>. QED  BY <2>1, <2>2
  <1>13. Counted'
    BY <1>1, <1>2, <1>3, <1>4, <1>5, <1>6 DEF IInv, Counted, Using, TypeOK, None, Sessions
  <1>14. NoOrphan'
    BY <1>1, <1>2, <1>3, <1>4, <1>5, <1>6 DEF IInv, NoOrphan, At, Opening, Locked, TypeOK, None, Sessions
  <1>15. HealthyStays'
    BY <1>1, <1>2, <1>3, <1>4, <1>5, <1>6 DEF IInv, HealthyStays, Closed, TypeOK, None, Sessions
  <1>. QED  BY <1>7, <1>8, <1>9, <1>10, <1>11, <1>12, <1>13, <1>14, <1>15 DEF IInv

LEMMA OpenFailsInv ==
  ASSUME IInv, NEW c \in Calls, OpenFails(c)
  PROVE  IInv'
  <1>1. /\ call[c].on \in Sessions /\ current = None /\ lock = c /\ call[c].on \notin served
    BY DEF OpenFails, IInv, Opening, Locked, TypeOK, At
  <1>2. /\ Moves(c, "done") /\ axed' \subseteq Calls
        /\ answer' \in [Calls -> {"none", "answer", "error", "cancelled"}]
    BY EndsMoves DEF OpenFails, IInv
  <1>3. /\ owner' \in [Sessions -> {"none", "opening", "up", "stopping", "gone"}]
        /\ owner'[call[c].on] \notin {"opening", "up"} /\ (owner'[call[c].on] # "none" => owner[call[c].on] # "none")
        /\ \A r \in Sessions \ {call[c].on} : owner'[r] = owner[r]
    BY <1>1, StopType DEF OpenFails, IInv
  <1>4. \A d \in Calls \ {c} : call[d].at \notin {"open", "close"}
    BY <1>1 DEF IInv, Locked
  <1>5. TypeOK'
    BY <1>1, <1>2, <1>3, <1>4 DEF OpenFails, IInv, TypeOK, past, At, Moves
  <1>6. Locked'
    BY <1>1, <1>2, <1>3, <1>4 DEF OpenFails, IInv, Locked, TypeOK, past, At, Moves
  <1>7. Fresh'
    BY <1>1, <1>2, <1>3, <1>4 DEF OpenFails, IInv, Fresh, TypeOK, past, At, Moves
  <1>8. UpIsLive'
    BY <1>1, <1>2, <1>3, <1>4 DEF OpenFails, IInv, UpIsLive, TypeOK, past, At, Moves
  <1>9. Opening'
    BY <1>1, <1>2, <1>3, <1>4 DEF OpenFails, IInv, Opening, At, Closed, TypeOK, past, At, Moves
  <1>10. Generations'
    BY <1>1, <1>2, <1>3, <1>4 DEF OpenFails, IInv, Generations, At, Closed, Using, TypeOK, past, At, Moves
  <1>11. Counted'
    BY <1>1, <1>2, <1>3, <1>4 DEF OpenFails, IInv, Counted, Using, TypeOK, past, At, Moves
  <1>12. NoOrphan'
    BY <1>1, <1>2, <1>3, <1>4 DEF OpenFails, IInv, NoOrphan, At, Opening, Locked, TypeOK, past, At, Moves
  <1>13. HealthyStays'
    BY <1>1, <1>2, <1>3, <1>4 DEF OpenFails, IInv, HealthyStays, Closed, TypeOK, past, At, Moves
  <1>. QED  BY <1>5, <1>6, <1>7, <1>8, <1>9, <1>10, <1>11, <1>12, <1>13 DEF IInv

LEMMA AnswersInv ==
  ASSUME IInv, NEW c \in Calls, Answers(c)
  PROVE  IInv'
  <1>1. /\ Moves(c, "done") /\ axed' \subseteq Calls
        /\ answer' \in [Calls -> {"none", "answer", "error", "cancelled"}]
    BY EndsMoves DEF Answers, IInv
  <1>2. TypeOK'
    BY <1>1 DEF Answers, IInv, TypeOK, slot, session, request, past, Moves, At
  <1>3. Locked'
    BY <1>1 DEF Answers, IInv, Locked, TypeOK, slot, session, request, past, Moves, At
  <1>4. Fresh'
    BY <1>1 DEF Answers, IInv, Fresh, TypeOK, slot, session, request, past, Moves, At
  <1>5. UpIsLive'
    BY <1>1 DEF Answers, IInv, UpIsLive, TypeOK, slot, session, request, past, Moves, At
  <1>6. Opening'
    BY <1>1 DEF Answers, IInv, Opening, At, Closed, TypeOK, slot, session, request, past, Moves, At
  <1>7. Generations'
    BY <1>1 DEF Answers, IInv, Generations, At, Closed, Using, TypeOK, slot, session, request, past, Moves, At
  <1>8. Counted'
    BY <1>1 DEF Answers, IInv, Counted, Using, TypeOK, slot, session, request, past, Moves, At
  <1>9. NoOrphan'
    BY <1>1 DEF Answers, IInv, NoOrphan, At, Opening, Locked, TypeOK, slot, session, request, past, Moves, At
  <1>10. HealthyStays'
    BY <1>1 DEF Answers, IInv, HealthyStays, Closed, TypeOK, slot, session, request, past, Moves, At
  <1>. QED  BY <1>2, <1>3, <1>4, <1>5, <1>6, <1>7, <1>8, <1>9, <1>10 DEF IInv

LEMMA RaisesInv ==
  ASSUME IInv, NEW c \in Calls, Raises(c)
  PROVE  IInv'
  <1>1. Moves(c, "failed") /\ faults' \in 0 .. MaxFaults /\ call[c].on \in served
    BY GoesMoves DEF Raises, Fault, IInv, TypeOK, Generations, Using, At
  <1>2. TypeOK'
    BY <1>1 DEF Raises, IInv, TypeOK, slot, session, At, Moves
  <1>3. Locked'
    BY <1>1 DEF Raises, IInv, Locked, TypeOK, slot, session, At, Moves
  <1>4. Fresh'
    BY <1>1 DEF Raises, IInv, Fresh, TypeOK, slot, session, At, Moves
  <1>5. UpIsLive'
    BY <1>1 DEF Raises, IInv, UpIsLive, TypeOK, slot, session, At, Moves
  <1>6. Opening'
    BY <1>1 DEF Raises, IInv, Opening, At, Closed, TypeOK, slot, session, At, Moves
  <1>7. Generations'
    BY <1>1 DEF Raises, IInv, Generations, At, Closed, Using, TypeOK, slot, session, At, Moves
  <1>8. Counted'
    BY <1>1 DEF Raises, IInv, Counted, Using, TypeOK, slot, session, At, Moves
  <1>9. NoOrphan'
    BY <1>1 DEF Raises, IInv, NoOrphan, At, Opening, Locked, TypeOK, slot, session, At, Moves
  <1>10. HealthyStays'
    BY <1>1 DEF Raises, IInv, HealthyStays, Closed, TypeOK, slot, session, At, Moves
  <1>. QED  BY <1>2, <1>3, <1>4, <1>5, <1>6, <1>7, <1>8, <1>9, <1>10 DEF IInv

LEMMA FailsInv ==
  ASSUME IInv, NEW c \in Calls, Fails(c)
  PROVE  IInv'
  <1>1. /\ Moves(c, "failed") /\ call[c].on \in served
        /\ call[c].on \in broken \/ Closed \/ current # call[c].on
    BY GoesMoves DEF Fails, IInv, TypeOK, Generations, HealthyStays, UpIsLive, Using, At
  <1>2. TypeOK'
    BY <1>1 DEF Fails, IInv, TypeOK, slot, session, past, At, Moves
  <1>3. Locked'
    BY <1>1 DEF Fails, IInv, Locked, TypeOK, slot, session, past, At, Moves
  <1>4. Fresh'
    BY <1>1 DEF Fails, IInv, Fresh, TypeOK, slot, session, past, At, Moves
  <1>5. UpIsLive'
    BY <1>1 DEF Fails, IInv, UpIsLive, TypeOK, slot, session, past, At, Moves
  <1>6. Opening'
    BY <1>1 DEF Fails, IInv, Opening, At, Closed, TypeOK, slot, session, past, At, Moves
  <1>7. Generations'
    BY <1>1 DEF Fails, IInv, Generations, At, Closed, Using, TypeOK, slot, session, past, At, Moves
  <1>8. Counted'
    BY <1>1 DEF Fails, IInv, Counted, Using, TypeOK, slot, session, past, At, Moves
  <1>9. NoOrphan'
    BY <1>1 DEF Fails, IInv, NoOrphan, At, Opening, Locked, TypeOK, slot, session, past, At, Moves
  <1>10. HealthyStays'
    BY <1>1 DEF Fails, IInv, HealthyStays, Closed, TypeOK, slot, session, past, At, Moves
  <1>. QED  BY <1>2, <1>3, <1>4, <1>5, <1>6, <1>7, <1>8, <1>9, <1>10 DEF IInv

LEMMA RetireInv ==
  ASSUME IInv, NEW c \in Calls, Retire(c)
  PROVE  IInv'
  <1>1. /\ current \in Sessions /\ current \in served /\ current = call[c].on
        /\ call[c].on \in broken \/ Closed
    BY DEF Retire, Mine, IInv, TypeOK, Fresh, Generations, Using, At, Sessions, None
  <1>2. Moves(c, "close") /\ current' = None
    BY GoesMoves DEF Retire, Empties, IInv
  <1>3. /\ owner' \in [Sessions -> {"none", "opening", "up", "stopping", "gone"}]
        /\ owner'[current] \notin {"opening", "up"} /\ (owner'[current] # "none" => owner[current] # "none")
        /\ \A r \in Sessions \ {current} : owner'[r] = owner[r]
    BY <1>1, StopType DEF Retire, Empties, IInv
  <1>4. \A d \in Calls : call[d].at \notin {"open", "close"}
    BY DEF Retire, IInv, Locked, TypeOK
  <1>5. \A d \in Calls : None \notin tried[d]
    BY DEF IInv, Counted, TypeOK, Sessions, None
  <1>6. /\ call[c].at = "failed" /\ lock = Nobody /\ lock' = c
        /\ UNCHANGED <<generation, opens, ready, live, closer, served, broken, sends, tried, axed, answer, faults>>
    BY DEF Retire, past, At
  <1>7. TypeOK'
    BY <1>1, <1>2, <1>3, <1>4, <1>5, <1>6 DEF IInv, TypeOK, Moves, None, Sessions
  <1>8. Locked'
    BY <1>1, <1>2, <1>3, <1>4, <1>5, <1>6 DEF IInv, Locked, TypeOK, Moves, None, Sessions
  <1>9. Fresh'
    BY <1>1, <1>2, <1>3, <1>4, <1>5, <1>6 DEF IInv, Fresh, TypeOK, Moves, None, Sessions
  <1>10. UpIsLive'
    BY <1>1, <1>2, <1>3, <1>4, <1>5, <1>6 DEF IInv, UpIsLive, TypeOK, Moves, None, Sessions
  <1>11. Opening'
    <2>. SUFFICES ASSUME NEW d \in Calls, call'[d].at = "open"
                  PROVE  FALSE
      BY DEF Opening, At
    <2>. QED  BY <1>2, <1>4 DEF Moves
  <1>12. Generations'
    <2>. SUFFICES ASSUME NEW d \in Calls, call'[d].at \in Using
                  PROVE  /\ call'[d].on \in served' /\ call'[d].gen <= generation'
                         /\ call'[d].at # "close" /\ current' # None =>
                              (call'[d].gen = generation' <=> current' = call'[d].on)
                         /\ call'[d].at = "failed" => \/ call'[d].on \in broken' \/ Closed'
                                                     \/ current' # call'[d].on
                         /\ call'[d].at = "close" => current' # call'[d].on
      BY DEF Generations, At
    <2>1. CASE d = c
      BY <1>1, <1>2, <1>6, <2>1 DEF IInv, Generations, At, Using, Moves, None, Sessions
    <2>2. CASE d # c
      <3>1. call'[d] = call[d] /\ call[d].at # "close" /\ UNCHANGED <<served, generation, broken, closer>>
        BY <1>2, <1>4, <1>6, <2>2 DEF Moves
      <3>2. call[d].on # None
        BY <3>1 DEF IInv, Generations, Fresh, TypeOK, Sessions, None
      <3>. QED  BY <1>2, <3>1, <3>2 DEF IInv, Generations, At
    <2>. QED  BY <2>1, <2>2
  <1>13. Counted'
    <2>. SUFFICES ASSUME NEW d \in Calls
                  PROVE  /\ tried[d] \subseteq served
                         /\ call'[d].at \in {"out", "bridge", "posted", "late", "stray"} => sends[d] = 0 /\ ~call'[d].again /\ tried[d] = {}
                         /\ call'[d].at \in {"want", "open"} =>
                              IF call'[d].again THEN sends[d] = 1 /\ None \notin tried[d] ELSE sends[d] = 0 /\ tried[d] = {}
                         /\ call'[d].at \in Using /\ ~call'[d].again => sends[d] = 1 /\ tried[d] = {call'[d].on}
      BY <1>2, <1>6 DEF Counted
    <2>1. CASE d = c
      BY <1>2, <1>6, <2>1 DEF Moves, IInv, Counted, Using
    <2>2. CASE d # c
      BY <1>2, <1>5, <2>2 DEF Moves, IInv, Counted
    <2>. QED  BY <2>1, <2>2
  <1>14. NoOrphan'
    BY <1>1, <1>2, <1>3, <1>4, <1>5, <1>6 DEF IInv, NoOrphan, At, Opening, Locked, TypeOK, Moves, None, Sessions
  <1>15. HealthyStays'
    BY <1>1, <1>2, <1>3, <1>4, <1>5, <1>6 DEF IInv, HealthyStays, Closed, TypeOK, Moves, None, Sessions
  <1>. QED  BY <1>7, <1>8, <1>9, <1>10, <1>11, <1>12, <1>13, <1>14, <1>15 DEF IInv

LEMMA OnwardMoves ==
  ASSUME TypeOK, NEW c \in Calls, Onward(c)
  PROVE  /\ call' \in [Calls -> Task] /\ call'[c].on = call[c].on /\ axed' \subseteq Calls
         /\ answer' \in [Calls -> {"none", "answer", "error", "cancelled"}]
         /\ \A d \in Calls \ {c} : call'[d] = call[d]
         /\ \/ call'[c].at = "want" /\ call'[c].again /\ ~call[c].again
            \/ call'[c].at = "done"
  <1>1. call \in [Calls -> Task] /\ call[c] \in Task
    BY DEF TypeOK
  <1>2. CASE TriesAgain(c)
    <2>1. [call[c] EXCEPT !.at = "want", !.again = TRUE] \in Task
      BY <1>1 DEF Task
    <2>2. call' = [call EXCEPT ![c] = [call[c] EXCEPT !.at = "want", !.again = TRUE]]
      BY <1>2 DEF Onward
    <2>3. /\ call' \in [Calls -> Task] /\ call'[c].on = call[c].on
          /\ call'[c].at = "want" /\ call'[c].again
          /\ \A d \in Calls \ {c} : call'[d] = call[d]
      BY <1>1, <2>1, <2>2 DEF Task
    <2>. QED  BY <1>2, <2>3 DEF Onward, TriesAgain, TypeOK
  <1>3. CASE ~TriesAgain(c)
    BY <1>3, EndsMoves DEF Onward, Moves
  <1>. QED  BY <1>2, <1>3

LEMMA AlreadyRetiredInv ==
  ASSUME IInv, NEW c \in Calls, AlreadyRetired(c)
  PROVE  IInv'
  <1>1. /\ call' \in [Calls -> Task] /\ call'[c].on = call[c].on /\ axed' \subseteq Calls
        /\ answer' \in [Calls -> {"none", "answer", "error", "cancelled"}]
        /\ \A d \in Calls \ {c} : call'[d] = call[d]
        /\ \/ call'[c].at = "want" /\ call'[c].again /\ ~call[c].again
           \/ call'[c].at = "done"
    BY OnwardMoves DEF AlreadyRetired, IInv
  <1>2. /\ call[c].at = "failed" /\ current # call[c].on
        /\ UNCHANGED <<current, generation, lock, opens, owner, ready, live, closer, served, broken, sends, tried, faults>>
    BY DEF AlreadyRetired, Mine, IInv, Generations, Using, At, Fresh, TypeOK, slot, session, past, None, Sessions
  <1>3. TypeOK'
    BY <1>1, <1>2 DEF IInv, TypeOK
  <1>4. Locked'
    BY <1>1, <1>2 DEF IInv, Locked, TypeOK
  <1>5. Fresh'
    BY <1>1, <1>2 DEF IInv, Fresh, TypeOK
  <1>6. UpIsLive'
    BY <1>1, <1>2 DEF IInv, UpIsLive, TypeOK
  <1>7. Opening'
    BY <1>1, <1>2 DEF IInv, Opening, At, Closed, TypeOK
  <1>8. Generations'
    BY <1>1, <1>2 DEF IInv, Generations, At, Closed, Using, TypeOK
  <1>9. Counted'
    BY <1>1, <1>2 DEF IInv, Counted, Using, TypeOK
  <1>10. NoOrphan'
    BY <1>1, <1>2 DEF IInv, NoOrphan, At, Opening, Locked, TypeOK
  <1>11. HealthyStays'
    BY <1>1, <1>2 DEF IInv, HealthyStays, Closed, TypeOK
  <1>. QED  BY <1>3, <1>4, <1>5, <1>6, <1>7, <1>8, <1>9, <1>10, <1>11 DEF IInv

LEMMA RetiredInv ==
  ASSUME IInv, NEW c \in Calls, Retired(c)
  PROVE  IInv'
  <1>1. /\ call' \in [Calls -> Task] /\ call'[c].on = call[c].on /\ axed' \subseteq Calls
        /\ answer' \in [Calls -> {"none", "answer", "error", "cancelled"}]
        /\ \A d \in Calls \ {c} : call'[d] = call[d]
        /\ \/ call'[c].at = "want" /\ call'[c].again /\ ~call[c].again
           \/ call'[c].at = "done"
    BY OnwardMoves DEF Retired, IInv
  <1>2. /\ call[c].at = "close" /\ current # call[c].on /\ lock = c /\ lock' = Nobody
        /\ UNCHANGED <<current, generation, opens, owner, ready, live, closer, served, broken, sends, tried, faults>>
    BY DEF Retired, IInv, Generations, Using, At, Locked, session, past
  <1>3. \A d \in Calls \ {c} : call[d].at \notin {"open", "close"}
    BY <1>2 DEF IInv, Locked
  <1>4. TypeOK'
    BY <1>1, <1>2, <1>3 DEF IInv, TypeOK
  <1>5. Locked'
    BY <1>1, <1>2, <1>3 DEF IInv, Locked, TypeOK
  <1>6. Fresh'
    BY <1>1, <1>2, <1>3 DEF IInv, Fresh, TypeOK
  <1>7. UpIsLive'
    BY <1>1, <1>2, <1>3 DEF IInv, UpIsLive, TypeOK
  <1>8. Opening'
    BY <1>1, <1>2, <1>3 DEF IInv, Opening, At, Closed, TypeOK
  <1>9. Generations'
    BY <1>1, <1>2, <1>3 DEF IInv, Generations, At, Closed, Using, TypeOK
  <1>10. Counted'
    BY <1>1, <1>2, <1>3 DEF IInv, Counted, Using, TypeOK
  <1>11. NoOrphan'
    BY <1>1, <1>2, <1>3 DEF IInv, NoOrphan, At, Opening, Locked, TypeOK
  <1>12. HealthyStays'
    BY <1>1, <1>2, <1>3 DEF IInv, HealthyStays, Closed, TypeOK
  <1>. QED  BY <1>4, <1>5, <1>6, <1>7, <1>8, <1>9, <1>10, <1>11, <1>12 DEF IInv

LEMMA UnwindInv ==
  ASSUME IInv, NEW c \in Calls, Unwind(c)
  PROVE  IInv'
  <1>1. /\ Moves(c, "done") /\ axed' \subseteq Calls
        /\ answer' \in [Calls -> {"none", "answer", "error", "cancelled"}]
    BY EndsMoves DEF Unwind, IInv
  <1>2. /\ owner' \in [Sessions -> {"none", "opening", "up", "stopping", "gone"}]
        /\ \A r \in Sessions : owner'[r] # owner[r] => owner'[r] \notin {"opening", "up"} /\ owner[r] # "none" /\ r \notin served
        /\ call[c].at = "open" => owner'[call[c].on] \notin {"opening", "up"} /\ current = None
    BY DEF Unwind, ToldToStop, IInv, TypeOK, Opening, At
  <1>3. /\ \A d \in Calls \ {c} : call[d].at \in {"open", "close"} => lock # c
        /\ lock' = IF lock = c THEN Nobody ELSE lock
        /\ UNCHANGED <<current, generation, opens, ready, live, closer, served, broken, sends, tried, faults>>
    BY DEF Unwind, IInv, Locked, past
  <1>4. \A d \in Calls \ {c} : At(d, "open") /\ call[d].on \in Sessions => owner'[call[d].on] = owner[call[d].on]
    <2>. SUFFICES ASSUME NEW d \in Calls \ {c}, At(d, "open")
                  PROVE  owner' = owner
      BY DEF At
    <2>1. call[c].at # "open"
      BY DEF At, IInv, Locked
    <2>. QED  BY <2>1 DEF Unwind, At
  <1>5. TypeOK'
    BY <1>1, <1>2, <1>3, <1>4 DEF IInv, TypeOK, Moves
  <1>6. Locked'
    BY <1>1, <1>2, <1>3, <1>4 DEF IInv, Locked, TypeOK, Moves
  <1>7. Fresh'
    BY <1>1, <1>2, <1>3, <1>4 DEF IInv, Fresh, TypeOK, Moves
  <1>8. UpIsLive'
    BY <1>1, <1>2, <1>3, <1>4 DEF IInv, UpIsLive, TypeOK, Moves
  <1>9. Opening'
    BY <1>1, <1>2, <1>3, <1>4 DEF IInv, Opening, At, Closed, TypeOK, Moves
  <1>10. Generations'
    BY <1>1, <1>2, <1>3, <1>4 DEF IInv, Generations, At, Closed, Using, TypeOK, Moves
  <1>11. Counted'
    BY <1>1, <1>2, <1>3, <1>4 DEF IInv, Counted, Using, TypeOK, Moves
  <1>12. NoOrphan'
    BY <1>1, <1>2, <1>3, <1>4 DEF IInv, NoOrphan, At, Opening, Locked, TypeOK, Moves
  <1>13. HealthyStays'
    BY <1>1, <1>2, <1>3, <1>4 DEF IInv, HealthyStays, Closed, TypeOK, Moves
  <1>. QED  BY <1>5, <1>6, <1>7, <1>8, <1>9, <1>10, <1>11, <1>12, <1>13 DEF IInv

LEMMA OwnerReadyInv ==
  ASSUME IInv, NEW s \in Sessions, OwnerReady(s)
  PROVE  IInv'
  <1>1. s \in 1 .. opens
    BY DEF OwnerReady, IInv, Fresh, TypeOK, Sessions
  <1>2. TypeOK'
    BY <1>1 DEF OwnerReady, IInv, TypeOK, slot, request, past, At
  <1>3. Locked'
    BY <1>1 DEF OwnerReady, IInv, Locked, TypeOK, slot, request, past, At
  <1>4. Fresh'
    BY <1>1 DEF OwnerReady, IInv, Fresh, TypeOK, slot, request, past, At
  <1>5. UpIsLive'
    BY <1>1 DEF OwnerReady, IInv, UpIsLive, TypeOK, slot, request, past, At
  <1>6. Opening'
    BY <1>1 DEF OwnerReady, IInv, Opening, At, Closed, TypeOK, slot, request, past, At
  <1>7. Generations'
    BY <1>1 DEF OwnerReady, IInv, Generations, At, Closed, Using, TypeOK, slot, request, past, At
  <1>8. Counted'
    BY <1>1 DEF OwnerReady, IInv, Counted, Using, TypeOK, slot, request, past, At
  <1>9. NoOrphan'
    BY <1>1 DEF OwnerReady, IInv, NoOrphan, At, Opening, Locked, TypeOK, slot, request, past, At
  <1>10. HealthyStays'
    BY <1>1 DEF OwnerReady, IInv, HealthyStays, Closed, TypeOK, slot, request, past, At
  <1>. QED  BY <1>2, <1>3, <1>4, <1>5, <1>6, <1>7, <1>8, <1>9, <1>10 DEF IInv

LEMMA OwnerFailsInv ==
  ASSUME IInv, NEW s \in Sessions, OwnerFails(s)
  PROVE  IInv'
  <1>1. faults' \in 0 .. MaxFaults /\ s # None
    BY DEF OwnerFails, Fault, IInv, TypeOK, Sessions, None
  <1>2. TypeOK'
    BY <1>1 DEF OwnerFails, IInv, TypeOK, Leaves, request, At, None, Sessions
  <1>3. Locked'
    BY <1>1 DEF OwnerFails, IInv, Locked, TypeOK, Leaves, request, At, None, Sessions
  <1>4. Fresh'
    BY <1>1 DEF OwnerFails, IInv, Fresh, TypeOK, Leaves, request, At, None, Sessions
  <1>5. UpIsLive'
    BY <1>1 DEF OwnerFails, IInv, UpIsLive, TypeOK, Leaves, request, At, None, Sessions
  <1>6. Opening'
    BY <1>1 DEF OwnerFails, IInv, Opening, At, Closed, TypeOK, Leaves, request, At, None, Sessions
  <1>7. Generations'
    BY <1>1 DEF OwnerFails, IInv, Generations, At, Closed, Using, TypeOK, Leaves, request, At, None, Sessions
  <1>8. Counted'
    BY <1>1 DEF OwnerFails, IInv, Counted, Using, TypeOK, Leaves, request, At, None, Sessions
  <1>9. NoOrphan'
    BY <1>1 DEF OwnerFails, IInv, NoOrphan, At, Opening, Locked, TypeOK, Leaves, request, At, None, Sessions
  <1>10. HealthyStays'
    BY <1>1 DEF OwnerFails, IInv, HealthyStays, Closed, TypeOK, Leaves, request, At, None, Sessions
  <1>. QED  BY <1>2, <1>3, <1>4, <1>5, <1>6, <1>7, <1>8, <1>9, <1>10 DEF IInv

LEMMA OwnerExitsInv ==
  ASSUME IInv, NEW s \in Sessions, OwnerExits(s)
  PROVE  IInv'
  <1>1. s # None /\ (owner[s] = "up" => s \in broken)
    BY DEF OwnerExits, IInv, UpIsLive, TypeOK, Sessions, None
  <1>2. TypeOK'
    BY <1>1 DEF OwnerExits, IInv, TypeOK, Leaves, request, At, None, Sessions
  <1>3. Locked'
    BY <1>1 DEF OwnerExits, IInv, Locked, TypeOK, Leaves, request, At, None, Sessions
  <1>4. Fresh'
    BY <1>1 DEF OwnerExits, IInv, Fresh, TypeOK, Leaves, request, At, None, Sessions
  <1>5. UpIsLive'
    BY <1>1 DEF OwnerExits, IInv, UpIsLive, TypeOK, Leaves, request, At, None, Sessions
  <1>6. Opening'
    BY <1>1 DEF OwnerExits, IInv, Opening, At, Closed, TypeOK, Leaves, request, At, None, Sessions
  <1>7. Generations'
    BY <1>1 DEF OwnerExits, IInv, Generations, At, Closed, Using, TypeOK, Leaves, request, At, None, Sessions
  <1>8. Counted'
    BY <1>1 DEF OwnerExits, IInv, Counted, Using, TypeOK, Leaves, request, At, None, Sessions
  <1>9. NoOrphan'
    BY <1>1 DEF OwnerExits, IInv, NoOrphan, At, Opening, Locked, TypeOK, Leaves, request, At, None, Sessions
  <1>10. HealthyStays'
    BY <1>1 DEF OwnerExits, IInv, HealthyStays, Closed, TypeOK, Leaves, request, At, None, Sessions
  <1>. QED  BY <1>2, <1>3, <1>4, <1>5, <1>6, <1>7, <1>8, <1>9, <1>10 DEF IInv

LEMMA DiesInv ==
  ASSUME IInv, NEW s \in Sessions, Dies(s)
  PROVE  IInv'
  <1>1. faults' \in 0 .. MaxFaults
    BY DEF Dies, Fault, IInv, TypeOK
  <1>2. TypeOK'
    BY <1>1 DEF Dies, IInv, TypeOK, slot, request, At
  <1>3. Locked'
    BY <1>1 DEF Dies, IInv, Locked, TypeOK, slot, request, At
  <1>4. Fresh'
    BY <1>1 DEF Dies, IInv, Fresh, TypeOK, slot, request, At
  <1>5. UpIsLive'
    BY <1>1 DEF Dies, IInv, UpIsLive, TypeOK, slot, request, At
  <1>6. Opening'
    BY <1>1 DEF Dies, IInv, Opening, At, Closed, TypeOK, slot, request, At
  <1>7. Generations'
    BY <1>1 DEF Dies, IInv, Generations, At, Closed, Using, TypeOK, slot, request, At
  <1>8. Counted'
    BY <1>1 DEF Dies, IInv, Counted, Using, TypeOK, slot, request, At
  <1>9. NoOrphan'
    BY <1>1 DEF Dies, IInv, NoOrphan, At, Opening, Locked, TypeOK, slot, request, At
  <1>10. HealthyStays'
    BY <1>1 DEF Dies, IInv, HealthyStays, Closed, TypeOK, slot, request, At
  <1>. QED  BY <1>2, <1>3, <1>4, <1>5, <1>6, <1>7, <1>8, <1>9, <1>10 DEF IInv

LEMMA CloseInv ==
  ASSUME IInv, Close
  PROVE  IInv'
  <1>1. TypeOK'
    BY DEF Close, IInv, TypeOK, slot, session, request, past, At
  <1>2. Locked'
    BY DEF Close, IInv, Locked, TypeOK, slot, session, request, past, At
  <1>3. Fresh'
    BY DEF Close, IInv, Fresh, TypeOK, slot, session, request, past, At
  <1>4. UpIsLive'
    BY DEF Close, IInv, UpIsLive, TypeOK, slot, session, request, past, At
  <1>5. Opening'
    BY DEF Close, IInv, Opening, At, Closed, TypeOK, slot, session, request, past, At
  <1>6. Generations'
    BY DEF Close, IInv, Generations, At, Closed, Using, TypeOK, slot, session, request, past, At
  <1>7. Counted'
    BY DEF Close, IInv, Counted, Using, TypeOK, slot, session, request, past, At
  <1>8. NoOrphan'
    BY DEF Close, IInv, NoOrphan, At, Opening, Locked, TypeOK, slot, session, request, past, At
  <1>9. HealthyStays'
    BY DEF Close, IInv, HealthyStays, Closed, TypeOK, slot, session, request, past, At
  <1>. QED  BY <1>1, <1>2, <1>3, <1>4, <1>5, <1>6, <1>7, <1>8, <1>9 DEF IInv

LEMMA ShutInv ==
  ASSUME IInv, Shut
  PROVE  IInv'
  <1>1. \A d \in Calls : call[d].at \notin {"open", "close"}
    BY DEF Shut, IInv, Locked, TypeOK
  <1>2. /\ owner' \in [Sessions -> {"none", "opening", "up", "stopping", "gone"}]
        /\ \A r \in Sessions : owner'[r] # owner[r] => owner'[r] \notin {"opening", "up", "none"}
        /\ current' = None /\ (current # None => owner'[current] \notin {"opening", "up"})
        /\ current # None => \A r \in Sessions : owner'[r] # owner[r] => r = current
    BY DEF Shut, Empties, ToldToStop, IInv, TypeOK, Sessions, None
  <1>3. TypeOK'
    BY <1>1, <1>2 DEF Shut, IInv, TypeOK, request, past, At, None, Sessions
  <1>4. Locked'
    BY <1>1, <1>2 DEF Shut, IInv, Locked, TypeOK, request, past, At, None, Sessions
  <1>5. Fresh'
    BY <1>1, <1>2 DEF Shut, IInv, Fresh, TypeOK, request, past, At, None, Sessions
  <1>6. UpIsLive'
    BY <1>1, <1>2 DEF Shut, IInv, UpIsLive, TypeOK, request, past, At, None, Sessions
  <1>7. Opening'
    BY <1>1, <1>2 DEF Shut, IInv, Opening, At, Closed, TypeOK, request, past, At, None, Sessions
  <1>8. Generations'
    BY <1>1, <1>2 DEF Shut, IInv, Generations, At, Closed, Using, TypeOK, request, past, At, None, Sessions
  <1>9. Counted'
    BY <1>1, <1>2 DEF Shut, IInv, Counted, Using, TypeOK, request, past, At, None, Sessions
  <1>10. NoOrphan'
    BY <1>1, <1>2 DEF Shut, IInv, NoOrphan, At, Opening, Locked, TypeOK, request, past, At, None, Sessions
  <1>11. HealthyStays'
    BY <1>1, <1>2 DEF Shut, IInv, HealthyStays, Closed, TypeOK, request, past, At, None, Sessions
  <1>. QED  BY <1>3, <1>4, <1>5, <1>6, <1>7, <1>8, <1>9, <1>10, <1>11 DEF IInv

LEMMA ShutDoneInv ==
  ASSUME IInv, ShutDone
  PROVE  IInv'
  <1>1. \A d \in Calls : call[d].at \notin {"open", "close"}
    BY DEF ShutDone, IInv, Locked, TypeOK
  <1>2. TypeOK'
    BY <1>1 DEF ShutDone, IInv, TypeOK, session, request, past, At
  <1>3. Locked'
    BY <1>1 DEF ShutDone, IInv, Locked, TypeOK, session, request, past, At
  <1>4. Fresh'
    BY <1>1 DEF ShutDone, IInv, Fresh, TypeOK, session, request, past, At
  <1>5. UpIsLive'
    BY <1>1 DEF ShutDone, IInv, UpIsLive, TypeOK, session, request, past, At
  <1>6. Opening'
    BY <1>1 DEF ShutDone, IInv, Opening, At, Closed, TypeOK, session, request, past, At
  <1>7. Generations'
    BY <1>1 DEF ShutDone, IInv, Generations, At, Closed, Using, TypeOK, session, request, past, At
  <1>8. Counted'
    BY <1>1 DEF ShutDone, IInv, Counted, Using, TypeOK, session, request, past, At
  <1>9. NoOrphan'
    BY <1>1 DEF ShutDone, IInv, NoOrphan, At, Opening, Locked, TypeOK, session, request, past, At
  <1>10. HealthyStays'
    BY <1>1 DEF ShutDone, IInv, HealthyStays, Closed, TypeOK, session, request, past, At
  <1>. QED  BY <1>2, <1>3, <1>4, <1>5, <1>6, <1>7, <1>8, <1>9, <1>10 DEF IInv

LEMMA FinalizeInv ==
  ASSUME IInv, Finalize
  PROVE  IInv'
  <1>1. /\ owner' \in [Sessions -> {"none", "opening", "up", "stopping", "gone"}]
        /\ \A r \in Sessions : owner'[r] \notin {"opening", "up"} /\ (owner'[r] # "none" => owner[r] # "none")
    BY DEF Finalize, IInv, TypeOK
  <1>2. \A d \in Calls : call[d].at \in {"open", "close"} => lock' = d
    BY DEF Finalize, IInv, Locked
  <1>3. TypeOK'
    BY <1>1, <1>2 DEF Finalize, IInv, TypeOK, past, At
  <1>4. Locked'
    BY <1>1, <1>2 DEF Finalize, IInv, Locked, TypeOK, past, At
  <1>5. Fresh'
    BY <1>1, <1>2 DEF Finalize, IInv, Fresh, TypeOK, past, At
  <1>6. UpIsLive'
    BY <1>1, <1>2 DEF Finalize, IInv, UpIsLive, TypeOK, past, At
  <1>7. Opening'
    BY <1>1, <1>2 DEF Finalize, IInv, Opening, At, Closed, TypeOK, past, At
  <1>8. Generations'
    BY <1>1, <1>2 DEF Finalize, IInv, Generations, At, Closed, Using, TypeOK, past, At
  <1>9. Counted'
    BY <1>1, <1>2 DEF Finalize, IInv, Counted, Using, TypeOK, past, At
  <1>10. NoOrphan'
    BY <1>1, <1>2 DEF Finalize, IInv, NoOrphan, At, Opening, Locked, TypeOK, past, At
  <1>11. HealthyStays'
    BY <1>1, <1>2 DEF Finalize, IInv, HealthyStays, Closed, TypeOK, past, At
  <1>. QED  BY <1>3, <1>4, <1>5, <1>6, <1>7, <1>8, <1>9, <1>10, <1>11 DEF IInv

LEMMA StopLoopInv ==
  ASSUME IInv, StopLoop
  PROVE  IInv'
  <1>1. TypeOK'
    BY DEF StopLoop, IInv, TypeOK, slot, session, request, past, At
  <1>2. Locked'
    BY DEF StopLoop, IInv, Locked, TypeOK, slot, session, request, past, At
  <1>3. Fresh'
    BY DEF StopLoop, IInv, Fresh, TypeOK, slot, session, request, past, At
  <1>4. UpIsLive'
    BY DEF StopLoop, IInv, UpIsLive, TypeOK, slot, session, request, past, At
  <1>5. Opening'
    BY DEF StopLoop, IInv, Opening, At, Closed, TypeOK, slot, session, request, past, At
  <1>6. Generations'
    BY DEF StopLoop, IInv, Generations, At, Closed, Using, TypeOK, slot, session, request, past, At
  <1>7. Counted'
    BY DEF StopLoop, IInv, Counted, Using, TypeOK, slot, session, request, past, At
  <1>8. NoOrphan'
    BY DEF StopLoop, IInv, NoOrphan, At, Opening, Locked, TypeOK, slot, session, request, past, At
  <1>9. HealthyStays'
    BY DEF StopLoop, IInv, HealthyStays, Closed, TypeOK, slot, session, request, past, At
  <1>. QED  BY <1>1, <1>2, <1>3, <1>4, <1>5, <1>6, <1>7, <1>8, <1>9 DEF IInv

LEMMA CloseLoopInv ==
  ASSUME IInv, CloseLoop
  PROVE  IInv'
  <1>1. TypeOK'
    BY DEF CloseLoop, IInv, TypeOK, slot, session, request, past, At
  <1>2. Locked'
    BY DEF CloseLoop, IInv, Locked, TypeOK, slot, session, request, past, At
  <1>3. Fresh'
    BY DEF CloseLoop, IInv, Fresh, TypeOK, slot, session, request, past, At
  <1>4. UpIsLive'
    BY DEF CloseLoop, IInv, UpIsLive, TypeOK, slot, session, request, past, At
  <1>5. Opening'
    BY DEF CloseLoop, IInv, Opening, At, Closed, TypeOK, slot, session, request, past, At
  <1>6. Generations'
    BY DEF CloseLoop, IInv, Generations, At, Closed, Using, TypeOK, slot, session, request, past, At
  <1>7. Counted'
    BY DEF CloseLoop, IInv, Counted, Using, TypeOK, slot, session, request, past, At
  <1>8. NoOrphan'
    BY DEF CloseLoop, IInv, NoOrphan, At, Opening, Locked, TypeOK, slot, session, request, past, At
  <1>9. HealthyStays'
    BY DEF CloseLoop, IInv, HealthyStays, Closed, TypeOK, slot, session, request, past, At
  <1>. QED  BY <1>1, <1>2, <1>3, <1>4, <1>5, <1>6, <1>7, <1>8, <1>9 DEF IInv

(***************************************************************************)
(* The theorems.                                                           *)
(***************************************************************************)

LEMMA InitInv == Init => IInv
  BY DEF Init, IInv, TypeOK, Locked, Fresh, UpIsLive, Opening, Generations, Counted, NoOrphan,
         HealthyStays, At, Using, Task, Sessions, None, Closed

LEMMA StutterInv ==
  ASSUME IInv, UNCHANGED vars
  PROVE  IInv'
  BY DEF vars, slot, session, request, past, IInv, TypeOK, Locked, Fresh, UpIsLive, Opening,
         Generations, Counted, NoOrphan, HealthyStays, At, Using, Closed

LEMMA StepInv ==
  ASSUME IInv, [Next]_vars
  PROVE  IInv'
  <1>1. ASSUME NEW c \in Calls, Begin(c)  PROVE IInv'
    BY <1>1, BeginInv
  <1>2. ASSUME NEW c \in Calls, Post(c)  PROVE IInv'
    BY <1>2, PostInv
  <1>3. ASSUME NEW c \in Calls, Stop(c)  PROVE IInv'
    BY <1>3, StopInv
  <1>28. ASSUME NEW c \in Calls, StopLate(c)  PROVE IInv'
    BY <1>28, StopLateInv
  <1>4. ASSUME NEW c \in Calls, RunPosted(c)  PROVE IInv'
    BY <1>4, RunPostedInv
  <1>5. ASSUME NEW c \in Calls, Refused(c)  PROVE IInv'
    BY <1>5, RefusedInv
  <1>6. ASSUME NEW c \in Calls, Reuse(c)  PROVE IInv'
    BY <1>6, ReuseInv
  <1>7. ASSUME NEW c \in Calls, Opens(c)  PROVE IInv'
    BY <1>7, OpensInv
  <1>8. ASSUME NEW c \in Calls, Opened(c)  PROVE IInv'
    BY <1>8, OpenedInv
  <1>9. ASSUME NEW c \in Calls, OpenFails(c)  PROVE IInv'
    BY <1>9, OpenFailsInv
  <1>10. ASSUME NEW c \in Calls, Answers(c)  PROVE IInv'
    BY <1>10, AnswersInv
  <1>11. ASSUME NEW c \in Calls, Raises(c)  PROVE IInv'
    BY <1>11, RaisesInv
  <1>12. ASSUME NEW c \in Calls, Fails(c)  PROVE IInv'
    BY <1>12, FailsInv
  <1>13. ASSUME NEW c \in Calls, Retire(c)  PROVE IInv'
    BY <1>13, RetireInv
  <1>14. ASSUME NEW c \in Calls, AlreadyRetired(c)  PROVE IInv'
    BY <1>14, AlreadyRetiredInv
  <1>15. ASSUME NEW c \in Calls, Retired(c)  PROVE IInv'
    BY <1>15, RetiredInv
  <1>16. ASSUME NEW c \in Calls, Unwind(c)  PROVE IInv'
    BY <1>16, UnwindInv
  <1>17. ASSUME NEW s \in Sessions, OwnerReady(s)  PROVE IInv'
    BY <1>17, OwnerReadyInv
  <1>18. ASSUME NEW s \in Sessions, OwnerFails(s)  PROVE IInv'
    BY <1>18, OwnerFailsInv
  <1>19. ASSUME NEW s \in Sessions, OwnerExits(s)  PROVE IInv'
    BY <1>19, OwnerExitsInv
  <1>20. ASSUME NEW s \in Sessions, Dies(s)  PROVE IInv'
    BY <1>20, DiesInv
  <1>21. CASE Close
    BY <1>21, CloseInv
  <1>22. CASE Shut
    BY <1>22, ShutInv
  <1>23. CASE ShutDone
    BY <1>23, ShutDoneInv
  <1>24. CASE Finalize
    BY <1>24, FinalizeInv
  <1>25. CASE StopLoop
    BY <1>25, StopLoopInv
  <1>26. CASE CloseLoop
    BY <1>26, CloseLoopInv
  <1>27. CASE UNCHANGED vars
    BY <1>27, StutterInv
  <1>. QED  BY <1>1, <1>2, <1>3, <1>4, <1>5, <1>6, <1>7, <1>8, <1>9, <1>10, <1>11, <1>12, <1>13, <1>14, <1>15, <1>16, <1>17, <1>18, <1>19, <1>20, <1>21, <1>22, <1>23, <1>24, <1>25, <1>26, <1>27, <1>28 DEF Next, CallStep

LEMMA Inductive == Spec => []IInv
  <1>1. Init => IInv
    BY InitInv
  <1>2. IInv /\ [Next]_vars => IInv'
    BY StepInv
  <1>. QED  BY <1>1, <1>2, PTL DEF Spec

\* Every variable keeps its type, however many calls, sessions and faults
\* there are and whenever close() comes.
THEOREM TypeCorrect == Spec => []TypeOK
  <1>1. IInv => TypeOK
    BY DEF IInv
  <1>. QED  BY <1>1, Inductive, PTL

\* No session of the pool runs on without a slot or an opening call that
\* would find it.
THEOREM NoneOrphaned == Spec => []NoOrphan
  <1>1. IInv => NoOrphan
    BY DEF IInv
  <1>. QED  BY <1>1, Inductive, PTL

\* A late failure of an older session never retires its healthy successor.
THEOREM HealthyOnesStay == Spec => []HealthyStays
  <1>1. IInv => HealthyStays
    BY DEF IInv
  <1>. QED  BY <1>1, Inductive, PTL

\* No request is sent three times, or twice on the same session.
THEOREM SentTwice == Spec => SentTwiceAtMost
  <1>. DEFINE Twice == \A c \in Calls : sends'[c] # sends[c] =>
                         sends'[c] <= 2 /\ call'[c].on \notin tried[c]
  <1>1. IInv /\ [Next]_vars => Twice
    <2>. SUFFICES ASSUME IInv, [Next]_vars, NEW c \in Calls, sends'[c] # sends[c]
                  PROVE  sends'[c] <= 2 /\ call'[c].on \notin tried[c]
      OBVIOUS
    <2>1. PICK d \in Calls : Reuse(d) \/ Opened(d)
      BY DEF Next, CallStep, vars, past, Begin, Post, Stop, StopLate, RunPosted, Refused, Opens, OpenFails, Answers,
             Raises, Fails, Retire, AlreadyRetired, Retired, Unwind, OwnerReady, OwnerFails, OwnerExits,
             Leaves, Dies, Close, Shut, ShutDone, Finalize, StopLoop, CloseLoop
    <2>2. CASE Reuse(d)
      <3>1. current \in Sessions /\ call[d].at = "want"
        BY <2>2 DEF Reuse, At, IInv, TypeOK, Sessions, None
      <3>2. /\ call'[d].on = current /\ sends'[d] = sends[d] + 1
            /\ \A e \in Calls \ {d} : sends'[e] = sends[e]
        BY <2>2, <3>1, SentMoves DEF Reuse, IInv, TypeOK
      <3>3. c = d
        BY <3>2
      <3>. QED  BY <3>1, <3>2, <3>3 DEF IInv, Counted
    <2>3. CASE Opened(d)
      <3>1. PICK s \in Sessions : s = call[d].on
        BY <2>3 DEF Opened, IInv, Opening
      <3>2. call[d].at = "open" /\ s \notin served /\ tried[d] \subseteq served
        BY <2>3, <3>1 DEF Opened, At, IInv, Opening, Counted
      <3>3. PICK g \in Nat : g = generation + 1
        BY DEF IInv, TypeOK
      <3>4. Sent(d, s, g, TRUE)
        BY <2>3, <3>1, <3>3 DEF Opened, Sent
      <3>5. /\ call'[d].on = s /\ sends'[d] = sends[d] + 1
            /\ \A e \in Calls \ {d} : sends'[e] = sends[e]
        BY <3>4, SentMoves DEF IInv
      <3>6. c = d
        BY <3>5
      <3>. QED  BY <3>2, <3>5, <3>6 DEF IInv, Counted
    <2>. QED  BY <2>1, <2>2, <2>3
  <1>2. IInv /\ [Next]_vars => [Twice]_vars
    BY <1>1
  <1>. QED  BY <1>2, Inductive, PTL DEF Spec, SentTwiceAtMost
=============================================================================
