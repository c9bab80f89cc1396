------------------------------ MODULE EventBus ------------------------------
(***************************************************************************)
(* events/bus.py, the event stream of operator_api/routes.py and the       *)
(* console's end of it (apps/web lib/events.ts): a publication gets the    *)
(* next number, is kept in a ring unless it is live-only, and is put into  *)
(* the bounded queue of every subscriber.  A console that reconnects names *)
(* the last number it has dispatched and is replayed the ring from there.  *)
(*                                                                         *)
(* An event is its number.  In-process handlers, which are called before   *)
(* the publication returns, are left out.                                  *)
(***************************************************************************)
EXTENDS Naturals, Sequences, FiniteSets, SequencesExt

CONSTANTS
  Consoles,
  Nothing,      \* no cursor: a fresh tab, which starts live
  RingSize,     \* ring
  MaxQueue,     \* max_queue
  MaxWire,      \* how many frames are on their way to a console
  MaxSeq,       \* how many events a process publishes
  MaxPosted,    \* how many publications of worker threads wait for the loop
  BusFaults, MaxBusFaults   \* the fault kinds that occur, and how many

ASSUME EventBusAssumption ==
  /\ {RingSize, MaxQueue, MaxWire} \subseteq Nat \ {0}
  /\ {MaxSeq, MaxPosted, MaxBusFaults} \subseteq Nat
  /\ Nothing \notin Nat /\ BusFaults \subseteq {"drop", "restart"}

VARIABLES
  seq,        \* _seq
  ring,       \* _ring
  posted,     \* publications of worker threads (call_soon_threadsafe)
  stage,      \* the stream of each console
  since,      \* the cursor that it was opened with
  replay,     \* what is left of its snapshot of the ring
  queue,      \* its queue, registered while the stage is "open"
  wire,       \* frames that the console has not dispatched
  cursor,     \* the console's lastSeq, in its sessionStorage
  current,    \* history: whether that cursor counts this process's events
  kept,       \* history: the events this process published to be retained
  seen,       \* history: the events of this process each console dispatched
  busFaults

stream == <<stage, since, replay, queue>>
client == <<cursor, current, seen>>
busVars   == <<seq, ring, posted, stream, wire, client, kept, busFaults>>

Events == 1 .. MaxSeq

BusTypeOK ==
  /\ seq \in 0 .. MaxSeq
  /\ ring \in Seq(Events) /\ Len(ring) <= RingSize
  /\ posted \in Seq(BOOLEAN) /\ Len(posted) <= MaxPosted
  /\ stage \in [Consoles -> {"away", "opening", "open", "over"}]
  /\ since \in [Consoles -> Nat \cup {Nothing}]
  /\ replay \in [Consoles -> Seq(Events)]
  /\ queue \in [Consoles -> Seq(Events)] /\ \A c \in Consoles : Len(queue[c]) <= MaxQueue
  /\ wire \in [Consoles -> Seq(Events)] /\ \A c \in Consoles : Len(wire[c]) <= MaxWire
  /\ cursor \in [Consoles -> Nat \cup {Nothing}] /\ current \in [Consoles -> BOOLEAN]
  /\ kept \subseteq Events /\ seen \in [Consoles -> SUBSET Events]
  /\ busFaults \in 0 .. MaxBusFaults

Empty == [c \in Consoles |-> <<>>]

BusInit ==
  /\ seq = 0 /\ ring = <<>> /\ posted = <<>>
  /\ stage = [c \in Consoles |-> "away"] /\ since = [c \in Consoles |-> Nothing]
  /\ replay = Empty /\ queue = Empty /\ wire = Empty
  /\ cursor = [c \in Consoles |-> Nothing] /\ current = [c \in Consoles |-> FALSE]
  /\ kept = {} /\ seen = [c \in Consoles |-> {}] /\ busFaults = 0

BusFault(kind) == kind \in BusFaults /\ busFaults < MaxBusFaults /\ busFaults' = busFaults + 1

-----------------------------------------------------------------------------
(* The bus.                                                                *)

\* Slips in the bounded buffers: a full one loses its newest, or everything.
RefuseNewest(s, bound, e) == IF Len(s) = bound THEN s ELSE Append(s, e)
ClearWhenFull(s, bound, e) == IF Len(s) = bound THEN <<e>> ELSE Append(s, e)

\* A full deque or queue drops its oldest.
Push(s, bound, e) == Append(IF Len(s) = bound THEN Tail(s) ELSE s, e)

\* _publish_on_loop.
PublishOnLoop(retain) ==
  LET e == seq + 1 IN
    /\ seq < MaxSeq
    /\ seq' = e
    /\ ring' = IF retain THEN Push(ring, RingSize, e) ELSE ring
    /\ kept' = IF retain THEN kept \cup {e} ELSE kept
    /\ queue' = [c \in Consoles |-> IF stage[c] = "open" THEN Push(queue[c], MaxQueue, e)
                                    ELSE queue[c]]

Publish(retain) ==
  /\ PublishOnLoop(retain)
  /\ UNCHANGED <<posted, stage, since, replay, wire, client, busFaults>>

\* From a worker thread: rerouted to the loop, which runs these in order.
PublishOffLoop(retain) ==
  /\ Len(posted) < MaxPosted /\ posted' = Append(posted, retain)
  /\ UNCHANGED <<seq, ring, stream, wire, client, kept, busFaults>>

RunPosted ==
  /\ posted # <<>> /\ PublishOnLoop(Head(posted)) /\ posted' = Tail(posted)
  /\ UNCHANGED <<stage, since, replay, wire, client, busFaults>>

-----------------------------------------------------------------------------
(* A stream.                                                               *)

Close(c, to) ==
  /\ stage' = [stage EXCEPT ![c] = to]
  /\ replay' = [replay EXCEPT ![c] = <<>>] /\ queue' = [queue EXCEPT ![c] = <<>>]

\* connect(): the route takes the cursor; the generator has not run yet.
Connect(c) ==
  /\ stage[c] = "away"
  /\ stage' = [stage EXCEPT ![c] = "opening"]
  /\ since' = [since EXCEPT ![c] = cursor[c]]
  /\ UNCHANGED <<seq, ring, posted, replay, queue, wire, client, kept, busFaults>>

\* The events of a rising sequence that are newer than e: it from the first one.
Newer(s, e) ==
  LET first == CHOOSE m \in 1 .. Len(s) + 1 : \A i \in 1 .. Len(s) : s[i] > e <=> m <= i
  IN SubSeq(s, first, Len(s))

\* A slip in subscribe: the event of the cursor itself is replayed.
ReplayWithCursor(c) == IF since[c] = Nothing THEN <<>> ELSE Newer(ring, since[c] - 1)

\* The events newer than the cursor; a fresh tab is replayed none.
Replay(c) == IF since[c] = Nothing THEN <<>> ELSE Newer(ring, since[c])

\* The first __anext__: the queue is registered and the ring is copied, with
\* no await in between.
Subscribe(c) ==
  /\ stage[c] = "opening"
  /\ stage' = [stage EXCEPT ![c] = "open"]
  /\ replay' = [replay EXCEPT ![c] = Replay(c)]
  /\ UNCHANGED <<seq, ring, posted, since, queue, wire, client, kept, busFaults>>

\* The next frame: first the replay, then the queue.
Send(c) ==
  /\ stage[c] = "open" /\ Len(wire[c]) < MaxWire
  /\ \/ /\ replay[c] # <<>>
        /\ wire' = [wire EXCEPT ![c] = Append(@, Head(replay[c]))]
        /\ replay' = [replay EXCEPT ![c] = Tail(@)] /\ UNCHANGED queue
     \/ /\ replay[c] = <<>> /\ queue[c] # <<>>
        /\ wire' = [wire EXCEPT ![c] = Append(@, Head(queue[c]))]
        /\ queue' = [queue EXCEPT ![c] = Tail(@)] /\ UNCHANGED replay
  /\ UNCHANGED <<seq, ring, posted, stage, since, client, kept, busFaults>>

\* Nothing for keepalive_s: wait_for cancels the generator in its await, which
\* discards the queue and is over; a keepalive goes out and the stream ends.
\* (An event may have reached the queue in the same turn of the loop.)
KeepaliveDue(c) ==
  /\ stage[c] = "open" /\ replay[c] = <<>>
  /\ Close(c, "over")
  /\ UNCHANGED <<seq, ring, posted, since, wire, client, kept, busFaults>>

\* onmessage.
Dispatch(c) ==
  /\ stage[c] \in {"open", "over"} /\ wire[c] # <<>>
  /\ LET e == Head(wire[c]) IN
       /\ cursor' = [cursor EXCEPT ![c] = e]
       /\ seen' = [seen EXCEPT ![c] = @ \cup {e}]
  /\ current' = [current EXCEPT ![c] = TRUE]
  /\ wire' = [wire EXCEPT ![c] = Tail(@)]
  /\ UNCHANGED <<seq, ring, posted, stream, kept, busFaults>>

\* onerror after the last frame; the reconnect timer is set.
Ended(c) ==
  /\ stage[c] = "over" /\ wire[c] = <<>>
  /\ Close(c, "away")
  /\ UNCHANGED <<seq, ring, posted, since, wire, client, kept, busFaults>>

\* The connection breaks: what is on the wire is lost.
Drop(c) ==
  /\ BusFault("drop") /\ stage[c] # "away"
  /\ Close(c, "away") /\ wire' = [wire EXCEPT ![c] = <<>>]
  /\ UNCHANGED <<seq, ring, posted, since, client, kept>>

\* The process restarts: numbers and ring start over, cursors do not.
Restart ==
  /\ BusFault("restart")
  /\ seq' = 0 /\ ring' = <<>> /\ posted' = <<>>
  /\ stage' = [c \in Consoles |-> "away"]
  /\ replay' = Empty /\ queue' = Empty /\ wire' = Empty
  /\ kept' = {} /\ seen' = [c \in Consoles |-> {}]
  /\ current' = [c \in Consoles |-> FALSE]
  /\ UNCHANGED <<since, cursor>>

-----------------------------------------------------------------------------
BusNext ==
  \/ \E retain \in BOOLEAN : Publish(retain) \/ PublishOffLoop(retain)
  \/ RunPosted
  \/ \E c \in Consoles : Connect(c) \/ Subscribe(c) \/ Send(c) \/ KeepaliveDue(c)
  \/ \E c \in Consoles : Dispatch(c) \/ Ended(c) \/ Drop(c)
  \/ Restart

BusSpec == BusInit /\ [][BusNext]_busVars

\* The loop and the console run; the console reconnects; nobody has to publish.
BusFairness ==
  /\ WF_busVars(RunPosted)
  /\ \A c \in Consoles : /\ WF_busVars(Connect(c)) /\ WF_busVars(Subscribe(c)) /\ WF_busVars(Send(c))
                         /\ WF_busVars(Dispatch(c)) /\ WF_busVars(Ended(c))

BusFairSpec == BusSpec /\ BusFairness

-----------------------------------------------------------------------------
(* Properties.                                                             *)

\* An event that is too old to be owed: the ring has gone past it, or a queue.
Overtaken(s) ==
  \/ Cardinality({k \in kept : k > s}) >= RingSize
  \/ seq - s >= MaxQueue

\* The events a console is to learn of that it has no frame for yet.
Owed(c) == {s \in kept : current[c] /\ s > cursor[c]}

\* An open stream has everything its console is owed, on the wire, in its
\* replay or in its queue, over reconnects, lost frames and publications that
\* fall between any two of its steps.
CaughtUp ==
  \A c \in Consoles : stage[c] = "open" =>
    \A s \in Owed(c) : s \in ToSet(wire[c]) \cup ToSet(replay[c]) \cup ToSet(queue[c])
                       \/ Overtaken(s)

\* A console dispatches the events of a process in order and each once,
\* although replay and queue may both hold recent ones and frames get lost.
Receives(c) == wire[c] # <<>> /\ wire'[c] = Tail(wire[c]) /\ stage'[c] # "away"
InOrder ==
  [][\A c \in Consoles : Receives(c) => \A s \in seen[c] : s < Head(wire[c])]_busVars

\* The bus is a feed: the detailed system implements what it promises, where a
\* console is placed by the cursor that it took from this process.
Feed == INSTANCE EventFeed WITH
          published <- seq, place <- [c \in Consoles |-> IF current[c] THEN cursor[c] ELSE 0]

\* No retained event is skipped on the quiet, through reconnects, lost frames,
\* idle closes and publications between any two steps: what a console misses
\* between two events it dispatches was overtaken.
FeedSafe == Feed!Spec

\* A retained event reaches every console that has a cursor of this process,
\* though each idle stretch ends the stream.
EventsArrive ==
  \A c \in Consoles, s \in Events :
    (s \in Owed(c)) ~> (s \in seen[c] \/ ~current[c] \/ Overtaken(s))
=============================================================================
