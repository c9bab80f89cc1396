------------------------------ MODULE EventFeed ------------------------------
(***************************************************************************)
(* What the event bus promises a console: the events of one life of the    *)
(* process in order, each once, and of the retained ones none is skipped   *)
(* on the quiet: only what the ring, or a console's queue, has had to let  *)
(* go may be missing between two events that it learns of one after the    *)
(* other.  How it gets them (a replay, a queue, frames that are lost with  *)
(* their connection and asked for again) is left to module EventBus.       *)
(***************************************************************************)
EXTENDS Naturals, FiniteSets

CONSTANTS Consoles, RingSize, MaxQueue

VARIABLES published,   \* how many events there are
          kept,        \* those to be retained
          place        \* the last one each console has learnt of, or 0

Init == published = 0 /\ kept = {} /\ place = [c \in Consoles |-> 0]

Overtaken(s) ==
  Cardinality({k \in kept : k > s}) >= RingSize \/ published - s >= MaxQueue

Publish(retain) ==
  /\ published' = published + 1
  /\ kept' = IF retain THEN kept \cup {published'} ELSE kept
  /\ UNCHANGED place

\* A console that joins may start anywhere; from then on nothing is skipped
\* that was not overtaken.
Deliver(c, e) ==
  /\ e \in 1 .. published /\ place[c] < e
  /\ place[c] # 0 => \A s \in kept : place[c] < s /\ s < e => Overtaken(s)
  /\ place' = [place EXCEPT ![c] = e]
  /\ UNCHANGED <<published, kept>>

\* The process restarts, and with it the numbers.
Restart == published' = 0 /\ kept' = {} /\ place' = [c \in Consoles |-> 0]

Next ==
  \/ \E retain \in BOOLEAN : Publish(retain)
  \/ \E c \in Consoles, e \in 1 .. published : Deliver(c, e)
  \/ Restart

Spec == Init /\ [][Next]_<<published, kept, place>>
=============================================================================
