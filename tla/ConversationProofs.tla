------------------------- MODULE ConversationProofs -------------------------
(* Theorems about the conversation, for any number of turns, questions,     *)
(* messages and model calls, and every combination of faults.               *)
EXTENDS Conversation, FiniteSetTheorems, SequenceTheorems, TLAPS

USE ConversationAssumption

(***************************************************************************)
(* Sequences: what is appended, taken from the front, or taken out.        *)
(***************************************************************************)

Distinct(s) == \A i, j \in 1 .. Len(s) : s[i] = s[j] => i = j

LEMMA EmptyLine ==
  ASSUME NEW S
  PROVE  <<>> \in Seq(S) /\ Len(<<>>) = 0 /\ ToSet(<<>>) = {} /\ Distinct(<<>>)
  <1>1. <<>> \in Seq(S) /\ Len(<<>>) = 0
    BY EmptySeq
  <1>2. 1 .. 0 = {} /\ DOMAIN <<>> = {}
    OBVIOUS
  <1>. QED  BY <1>1, <1>2 DEF ToSet, Distinct

LEMMA Positions ==
  ASSUME NEW S, NEW s \in Seq(S)
  PROVE  /\ DOMAIN s = 1 .. Len(s) /\ Len(s) \in Nat
         /\ ToSet(s) \subseteq S
         /\ \A x : x \in ToSet(s) <=> \E i \in 1 .. Len(s) : s[i] = x
         /\ \A i \in 1 .. Len(s) : s[i] \in ToSet(s)
         /\ s # <<>> => 1 \in 1 .. Len(s) /\ Head(s) = s[1]
         /\ 1 \in 1 .. Len(s) => s # <<>>
  <1>1. DOMAIN s = 1 .. Len(s) /\ Len(s) \in Nat /\ \A i \in 1 .. Len(s) : s[i] \in S
    BY LenProperties, ElementOfSeq
  <1>2. s # <<>> => Len(s) # 0
    BY EmptySeq
  <1>3. s = <<>> => Len(s) = 0
    BY EmptySeq
  <1>4. Head(s) = s[1]
    OBVIOUS
  <1>. QED  BY <1>1, <1>2, <1>3, <1>4 DEF ToSet

LEMMA Appended ==
  ASSUME NEW S, NEW s \in Seq(S), NEW x \in S
  PROVE  /\ Append(s, x) \in Seq(S) /\ ToSet(Append(s, x)) = ToSet(s) \cup {x}
         /\ Distinct(s) /\ x \notin ToSet(s) => Distinct(Append(s, x))
         /\ Append(s, x) # <<>> /\ (s # <<>> => Head(Append(s, x)) = Head(s))
         /\ DOMAIN Append(s, x) = 1 .. Len(s) + 1
         /\ \A i \in 1 .. Len(s) + 1 : Append(s, x)[i] = IF i = Len(s) + 1 THEN x ELSE s[i]
  <1>. DEFINE t == Append(s, x)
  <1>1. /\ t \in Seq(S) /\ Len(t) = Len(s) + 1 /\ t[Len(s) + 1] = x
        /\ \A i \in 1 .. Len(s) : t[i] = s[i]
    BY AppendProperties
  <1>2. Len(s) \in Nat
    BY LenProperties
  <1>3. \A i \in 1 .. Len(s) + 1 : t[i] = IF i = Len(s) + 1 THEN x ELSE s[i]
    BY <1>1, <1>2
  <1>. HIDE DEF t
  <1>4. ToSet(t) = ToSet(s) \cup {x}
    <2>1. \A i \in 1 .. Len(s) : i \in 1 .. Len(t) /\ t[i] = s[i]
      BY <1>1, <1>2
    <2>2. \A i \in 1 .. Len(t) : i \in 1 .. Len(s) \/ t[i] = x
      BY <1>1, <1>2
    <2>3. Len(s) + 1 \in 1 .. Len(t)
      BY <1>1, <1>2
    <2>4. DOMAIN s = 1 .. Len(s) /\ DOMAIN t = 1 .. Len(t)
      BY <1>1, LenProperties
    <2>5. ToSet(s) \cup {x} \subseteq ToSet(t)
      BY <1>1, <2>1, <2>3, <2>4 DEF ToSet
    <2>6. ToSet(t) \subseteq ToSet(s) \cup {x}
      BY <1>1, <2>1, <2>2, <2>4 DEF ToSet
    <2>. QED  BY <2>5, <2>6
  <1>5. Distinct(s) /\ x \notin ToSet(s) => Distinct(t)
    <2>1. \A i \in 1 .. Len(s) : s[i] \in ToSet(s)
      BY Positions
    <2>2. \A i \in 1 .. Len(t) : i \in 1 .. Len(s) \/ i = Len(s) + 1
      BY <1>1, <1>2
    <2>. QED  BY <1>1, <2>1, <2>2 DEF Distinct
  <1>6. t # <<>> /\ (s # <<>> => Head(t) = Head(s))
    <2>1. t # <<>> /\ Head(t) = t[1]
      BY <1>1, <1>2, EmptySeq
    <2>2. s # <<>> => 1 \in 1 .. Len(s) /\ Head(s) = s[1]
      BY Positions
    <2>. QED  BY <1>1, <2>1, <2>2
  <1>7. DOMAIN t = 1 .. Len(s) + 1
    BY <1>1, LenProperties
  <1>. QED  BY <1>1, <1>3, <1>4, <1>5, <1>6, <1>7 DEF t

LEMMA RemovedAt ==
  ASSUME NEW S, NEW s \in Seq(S), NEW i \in 1 .. Len(s)
  PROVE  /\ RemoveAt(s, i) \in Seq(S) /\ Len(RemoveAt(s, i)) = Len(s) - 1
         /\ \A j \in 1 .. Len(s) - 1 : RemoveAt(s, i)[j] = IF j < i THEN s[j] ELSE s[j + 1]
  <1>. DEFINE a == SubSeq(s, 1, i - 1)
              b == SubSeq(s, i + 1, Len(s))
  <1>1. Len(s) \in Nat /\ \A j \in 1 .. Len(s) : s[j] \in S
    BY LenProperties, ElementOfSeq
  <1>2. /\ a \in Seq(S) /\ Len(a) = i - 1 /\ \A j \in 1 .. i - 1 : a[j] = s[j]
    <2>1. \A j \in 1 .. i - 1 : s[j] \in S
      BY <1>1
    <2>2. (IF 1 <= i - 1 THEN (i - 1) - 1 + 1 ELSE 0) = i - 1
      BY <1>1
    <2>. QED  BY <1>1, <2>1, <2>2, SubSeqProperties
  <1>3. /\ b \in Seq(S) /\ Len(b) = Len(s) - i
        /\ \A j \in 1 .. Len(s) - i : b[j] = s[(i + 1) + j - 1]
    <2>1. \A j \in i + 1 .. Len(s) : s[j] \in S
      BY <1>1
    <2>2. (IF i + 1 <= Len(s) THEN Len(s) - (i + 1) + 1 ELSE 0) = Len(s) - i
      BY <1>1
    <2>. QED  BY <1>1, <2>1, <2>2, SubSeqProperties
  <1>4. RemoveAt(s, i) = a \o b
    BY DEF RemoveAt
  <1>. HIDE DEF a, b
  <1>5. /\ a \o b \in Seq(S) /\ Len(a \o b) = Len(a) + Len(b)
        /\ \A j \in 1 .. Len(a) + Len(b) : (a \o b)[j] = IF j <= Len(a) THEN a[j] ELSE b[j - Len(a)]
    BY <1>2, <1>3, ConcatProperties
  <1>6. ASSUME NEW j \in 1 .. Len(s) - 1
        PROVE  (a \o b)[j] = IF j < i THEN s[j] ELSE s[j + 1]
    <2>1. CASE j < i
      <3>1. j <= Len(a) /\ j \in 1 .. i - 1 /\ j \in 1 .. Len(a) + Len(b)
        BY <1>1, <1>2, <1>3, <2>1
      <3>. QED  BY <1>2, <1>5, <2>1, <3>1
    <2>2. CASE ~(j < i)
      <3>1. /\ ~(j <= Len(a)) /\ j \in 1 .. Len(a) + Len(b) /\ j - Len(a) = j - i + 1
            /\ j - i + 1 \in 1 .. Len(s) - i /\ (i + 1) + (j - i + 1) - 1 = j + 1
        BY <1>1, <1>2, <1>3, <2>2
      <3>. QED  BY <1>3, <1>5, <2>2, <3>1
    <2>. QED  BY <2>1, <2>2
  <1>7. Len(a) + Len(b) = Len(s) - 1
    BY <1>1, <1>2, <1>3
  <1>. QED  BY <1>4, <1>5, <1>6, <1>7

LEMMA Removed ==
  ASSUME NEW S, NEW s \in Seq(S), NEW i \in 1 .. Len(s)
  PROVE  /\ RemoveAt(s, i) \in Seq(S) /\ ToSet(RemoveAt(s, i)) \subseteq ToSet(s)
         /\ \A x \in ToSet(s) : x = s[i] \/ x \in ToSet(RemoveAt(s, i))
         /\ Distinct(s) => /\ Distinct(RemoveAt(s, i)) /\ s[i] \notin ToSet(RemoveAt(s, i))
                           /\ i # 1 => RemoveAt(s, i) # <<>> /\ Head(RemoveAt(s, i)) = Head(s)
  <1>. DEFINE t == RemoveAt(s, i)
              Place(j) == IF j < i THEN j ELSE j + 1
  <1>1. Len(s) \in Nat
    BY LenProperties
  <1>2. /\ t \in Seq(S) /\ Len(t) = Len(s) - 1
        /\ \A j \in 1 .. Len(t) : t[j] = IF j < i THEN s[j] ELSE s[j + 1]
    BY <1>1, RemovedAt
  <1>. HIDE DEF t
  <1>3. /\ \A j \in 1 .. Len(t) : Place(j) \in 1 .. Len(s) /\ Place(j) # i
        /\ \A j, k \in 1 .. Len(t) : Place(j) = Place(k) => j = k
    BY <1>1, <1>2
  <1>4. \A j \in 1 .. Len(t) : t[j] = s[Place(j)]
    BY <1>2
  <1>5. ASSUME NEW k \in 1 .. Len(s), k # i
        PROVE  \E j \in 1 .. Len(t) : Place(j) = k
    <2>1. CASE k < i
      BY <1>1, <1>2, <2>1
    <2>2. CASE k > i
      <3>1. k - 1 \in 1 .. Len(t) /\ Place(k - 1) = k
        BY <1>1, <1>2, <2>2
      <3>. QED  BY <3>1
    <2>. QED  BY <1>1, <1>5, <2>1, <2>2
  <1>. HIDE DEF Place
  <1>6. /\ \A x : x \in ToSet(s) <=> \E k \in 1 .. Len(s) : s[k] = x
        /\ \A x : x \in ToSet(t) <=> \E k \in 1 .. Len(t) : t[k] = x
    BY <1>2, Positions
  <1>7. ToSet(t) \subseteq ToSet(s)
    BY <1>3, <1>4, <1>6
  <1>8. \A x \in ToSet(s) : x = s[i] \/ x \in ToSet(t)
    <2>. SUFFICES ASSUME NEW k \in 1 .. Len(s), k # i
                  PROVE  s[k] \in ToSet(t)
      BY <1>6
    <2>1. PICK j \in 1 .. Len(t) : Place(j) = k
      BY <1>5
    <2>2. t[j] = s[k]
      BY <1>4, <2>1
    <2>. QED  BY <1>6, <2>2
  <1>9. ASSUME Distinct(s)
        PROVE  Distinct(t) /\ s[i] \notin ToSet(t)
    <2>1. Distinct(t)
      BY <1>3, <1>4, <1>9 DEF Distinct
    <2>2. \A j \in 1 .. Len(t) : t[j] # s[i]
      BY <1>3, <1>4, <1>9 DEF Distinct
    <2>. QED  BY <1>6, <2>1, <2>2
  <1>10. ASSUME i # 1
         PROVE  t # <<>> /\ Head(t) = Head(s)
    <2>1. 1 \in 1 .. Len(t) /\ 1 < i /\ Place(1) = 1 /\ 1 \in 1 .. Len(s)
      BY <1>1, <1>2, <1>10 DEF Place
    <2>2. t # <<>> /\ Head(t) = t[1] /\ Head(s) = s[1]
      BY <1>2, <2>1, Positions
    <2>. QED  BY <1>4, <2>1, <2>2
  <1>. QED  BY <1>2, <1>7, <1>8, <1>9, <1>10 DEF t

LEMMA Tails ==
  ASSUME NEW S, NEW s \in Seq(S), s # <<>>
  PROVE  /\ Tail(s) \in Seq(S) /\ Len(Tail(s)) = Len(s) - 1
         /\ \A i \in 1 .. Len(Tail(s)) : i + 1 \in 1 .. Len(s) /\ Tail(s)[i] = s[i + 1]
         /\ Head(s) \in ToSet(s) /\ ToSet(Tail(s)) \subseteq ToSet(s)
         /\ \A x \in ToSet(s) : x = Head(s) \/ x \in ToSet(Tail(s))
         /\ Tail(s) = <<>> <=> Len(s) = 1
  <1>1. /\ Tail(s) \in Seq(S) /\ Len(Tail(s)) = Len(s) - 1
        /\ \A i \in 1 .. Len(Tail(s)) : Tail(s)[i] = s[i + 1]
    BY HeadTailProperties
  <1>2. Len(s) \in Nat /\ Len(s) # 0 /\ 1 \in 1 .. Len(s) /\ Head(s) = s[1]
    BY Positions, EmptySeq
  <1>3. \A i \in 1 .. Len(Tail(s)) : i + 1 \in 1 .. Len(s)
    BY <1>1, <1>2
  <1>4. \A i \in 1 .. Len(s) : i = 1 \/ (i - 1 \in 1 .. Len(Tail(s)) /\ (i - 1) + 1 = i)
    BY <1>1, <1>2
  <1>5. /\ \A x : x \in ToSet(s) <=> \E k \in 1 .. Len(s) : s[k] = x
        /\ \A x : x \in ToSet(Tail(s)) <=> \E k \in 1 .. Len(Tail(s)) : Tail(s)[k] = x
    BY <1>1, Positions
  <1>6. ToSet(Tail(s)) \subseteq ToSet(s)
    BY <1>1, <1>3, <1>5
  <1>7. \A x \in ToSet(s) : x = Head(s) \/ x \in ToSet(Tail(s))
    <2>. SUFFICES ASSUME NEW k \in 1 .. Len(s)
                  PROVE  s[k] = Head(s) \/ s[k] \in ToSet(Tail(s))
      BY <1>5
    <2>1. CASE k = 1
      BY <1>2, <2>1
    <2>2. CASE k # 1
      <3>1. k - 1 \in 1 .. Len(Tail(s)) /\ (k - 1) + 1 = k
        BY <1>4, <2>2
      <3>2. Tail(s)[k - 1] = s[k]
        BY <1>1, <3>1
      <3>. QED  BY <1>5, <3>1, <3>2
    <2>. QED  BY <2>1, <2>2
  <1>8. Tail(s) = <<>> <=> Len(s) = 1
    <2>1. Tail(s) = <<>> <=> Len(Tail(s)) = 0
      BY <1>1, EmptySeq
    <2>. QED  BY <1>1, <1>2, <2>1
  <1>. QED  BY <1>1, <1>2, <1>3, <1>5, <1>6, <1>7, <1>8

(***************************************************************************)
(* The lock, the questions and what is shown of them.                      *)
(***************************************************************************)

InLine  == {"waiting", "call", "thinking", "asking"}
Working == {"call", "thinking", "asking"}

\* Who waits or works stands in line, each once; who works is at its head.
LockOK ==
  /\ Distinct(line)
  /\ \A t \in Turns : t \in ToSet(line) <=> turn[t].pc \in InLine
  /\ \A t \in Turns : turn[t].pc \in Working => Holds(t)

\* Questions are numbered; while a turn calls the model none is pending.
AsksOK ==
  /\ \A i, j \in 1 .. Len(asks) : i < j => asks[i].n < asks[j].n
  /\ \A i \in 1 .. Len(asks) : asks[i].n <= asked
  /\ \A t \in Turns : /\ turn[t].pc \in {"call", "thinking"} => asks = <<>>
                      /\ turn[t].pc = "asking" => asks # <<>>

\* A question that was shown is the first one, or not pending any more.
First(q) == q # NoAsk => q.n <= asked /\ (q \in PendingAsks => q = Head(asks))

ShownOK ==
  /\ First(form)
  /\ \A t \in Turns : turn[t].pc = "over" => First(turn[t].shows)
  /\ \A t \in Turns : Running(t) => First(turn[t].answers)

CoreType ==
  /\ turn \in [Turns -> {NoTurn} \cup Live \cup Over]
  /\ line \in Seq(Turns) /\ asks \in Seq(Asks) /\ asked \in 0 .. MaxAsks
  /\ form \in Asks \cup {NoAsk}

Core == CoreType /\ LockOK /\ AsksOK /\ ShownOK

LEMMA RecordFacts ==
  /\ NoTurn.pc = "none"
  /\ \A r \in Live : /\ r.pc \in InLine \cup {"compacting"} /\ r.answers \in Asks \cup {NoAsk}
                     /\ r.says \subseteq Msgs
  /\ \A r \in Over : r.pc = "over" /\ r.shows \in Asks \cup {NoAsk}
  BY DEF NoTurn, Live, Over, InLine

LEMMA TurnFacts ==
  ASSUME CoreType, NEW t \in Turns
  PROVE  /\ Running(t) => turn[t] \in Live
         /\ turn[t].pc \in InLine \cup {"compacting"} => turn[t] \in Live /\ Running(t)
         /\ turn[t].pc = "over" => turn[t] \in Over
         /\ turn[t] = NoTurn => turn[t].pc = "none" /\ ~Running(t)
         /\ turn[t].pc = "over" => ~Running(t)
  BY RecordFacts DEF CoreType, Running, InLine

LEMMA OneWorks ==
  ASSUME LockOK, NEW t \in Turns, Holds(t), NEW u \in Turns \ {t}
  PROVE  turn[u].pc \notin Working
  BY DEF LockOK, Holds

\* The invariant for one turn.
TurnOK(t) ==
  /\ turn[t] \in {NoTurn} \cup Live \cup Over
  /\ t \in ToSet(line) <=> turn[t].pc \in InLine
  /\ turn[t].pc \in Working => Holds(t)
  /\ turn[t].pc \in {"call", "thinking"} => asks = <<>>
  /\ turn[t].pc = "asking" => asks # <<>>
  /\ turn[t].pc = "over" => First(turn[t].shows)
  /\ Running(t) => First(turn[t].answers)

LEMMA EachTurn ==
  ASSUME Core
  PROVE  \A t \in Turns : TurnOK(t)
  BY DEF Core, CoreType, LockOK, AsksOK, ShownOK, TurnOK

LEMMA ByTurn ==
  ASSUME DOMAIN turn' = Turns, turn' = [t \in DOMAIN turn' |-> turn'[t]],
         line' \in Seq(Turns), asks' \in Seq(Asks), asked' \in 0 .. MaxAsks,
         form' \in Asks \cup {NoAsk}, First(form)', Distinct(line'),
         \A i, j \in 1 .. Len(asks') : i < j => asks'[i].n < asks'[j].n,
         \A i \in 1 .. Len(asks') : asks'[i].n <= asked',
         \A t \in Turns : TurnOK(t)'
  PROVE  Core'
  <1>1. (turn \in [Turns -> {NoTurn} \cup Live \cup Over])'
    BY DEF TurnOK
  <1>2. CoreType'
    BY <1>1 DEF CoreType
  <1>3. LockOK' /\ AsksOK' /\ ShownOK'
    BY DEF LockOK, AsksOK, ShownOK, TurnOK
  <1>. QED  BY <1>2, <1>3 DEF Core

\* A turn lines up.
LEMMA EnlistsCore ==
  ASSUME Core, NEW t \in Turns, NEW r \in Live, turn[t].pc \notin InLine,
         turn' = [turn EXCEPT ![t] = r], r.pc = "waiting", First(r.answers),
         line' = Append(line, t), UNCHANGED <<asks, asked>>,
         form' \in Asks \cup {NoAsk}, First(form')
  PROVE  Core'
  <1>1. /\ CoreType /\ turn'[t] = r /\ \A u \in Turns \ {t} : turn'[u] = turn[u]
        /\ DOMAIN turn' = Turns /\ turn' = [u \in DOMAIN turn' |-> turn'[u]]
    BY DEF Core, CoreType
  <1>2. t \notin ToSet(line) /\ Distinct(line)
    BY DEF Core, LockOK
  <1>3. /\ line' \in Seq(Turns) /\ ToSet(line') = ToSet(line) \cup {t} /\ Distinct(line')
        /\ line' # <<>> /\ (line # <<>> => Head(line') = Head(line))
    BY <1>1, <1>2, Appended DEF CoreType
  <1>4. \A q : First(q)' <=> First(q)
    BY DEF First, PendingAsks
  <1>5. ASSUME NEW u \in Turns
        PROVE  TurnOK(u)'
    <2>1. TurnOK(u)
      BY EachTurn
    <2>2. CASE u = t
      BY <1>1, <1>3, <1>4, <2>2 DEF TurnOK, InLine, Working, Running
    <2>3. CASE u # t
      BY <1>1, <1>3, <1>4, <2>1, <2>3 DEF TurnOK, Holds, Running
    <2>. QED  BY <2>2, <2>3
  <1>. QED  BY <1>1, <1>3, <1>4, <1>5, ByTurn DEF Core, CoreType, AsksOK, First, PendingAsks

\* A turn that stood in line, or was compacting, leaves; it may have cleared the
\* questions it was at.
LEMMA LeavingLine ==
  ASSUME CoreType, LockOK, NEW t \in Turns
  PROVE  /\ Leaves(t) \in Seq(Turns) /\ Distinct(Leaves(t)) /\ ToSet(Leaves(t)) = ToSet(line) \ {t}
         /\ \A u \in Turns \ {t} : Holds(u) => Leaves(t) # <<>> /\ Head(Leaves(t)) = u
  <1>1. line \in Seq(Turns) /\ Distinct(line) /\ DOMAIN line = 1 .. Len(line)
    BY Positions DEF CoreType, LockOK
  <1>2. \A x : x \in ToSet(line) <=> \E i \in 1 .. Len(line) : line[i] = x
    BY <1>1, Positions
  <1>3. CASE t \in ToSet(line)
    <2>1. PICK i \in 1 .. Len(line) : line[i] = t /\ Leaves(t) = RemoveAt(line, i)
      BY <1>1, <1>2, <1>3 DEF Leaves
    <2>2. /\ RemoveAt(line, i) \in Seq(Turns) /\ ToSet(RemoveAt(line, i)) \subseteq ToSet(line)
          /\ \A x \in ToSet(line) : x = t \/ x \in ToSet(RemoveAt(line, i))
          /\ Distinct(RemoveAt(line, i)) /\ t \notin ToSet(RemoveAt(line, i))
          /\ i # 1 => RemoveAt(line, i) # <<>> /\ Head(RemoveAt(line, i)) = Head(line)
      BY <1>1, <2>1, Removed
    <2>3. ASSUME NEW u \in Turns \ {t}, Holds(u)
          PROVE  i # 1
      BY <1>1, <2>1, <2>3, Positions DEF Holds
    <2>. QED  BY <2>1, <2>2, <2>3 DEF Holds
  <1>4. CASE t \notin ToSet(line)
    <2>1. Leaves(t) = line
      BY <1>1, <1>2, <1>4 DEF Leaves
    <2>. QED  BY <1>1, <1>4, <2>1 DEF Holds
  <1>. QED  BY <1>3, <1>4

LEMMA LeavesCore ==
  ASSUME Core, NEW t \in Turns, NEW r \in {NoTurn} \cup Live \cup Over, r.pc \notin InLine,
         turn' = [turn EXCEPT ![t] = r], line' = Leaves(t),
         r \in Over => First(r.shows), r \in Live => First(r.answers),
         UNCHANGED <<asked, form>>,
         \/ UNCHANGED asks
         \/ asks' = <<>> /\ turn[t].pc \in Working
  PROVE  Core'
  <1>1. /\ CoreType /\ LockOK /\ turn'[t] = r /\ \A u \in Turns \ {t} : turn'[u] = turn[u]
        /\ DOMAIN turn' = Turns /\ turn' = [u \in DOMAIN turn' |-> turn'[u]]
    BY DEF Core, CoreType
  <1>2. /\ line' \in Seq(Turns) /\ Distinct(line') /\ ToSet(line') = ToSet(line) \ {t}
        /\ \A u \in Turns \ {t} : Holds(u) => line' # <<>> /\ Head(line') = u
    BY <1>1, LeavingLine
  <1>3. asks' \in Seq(Asks) /\ (asks' = asks \/ (asks' = <<>> /\ 1 .. Len(asks') = {}))
    <2>1. asks \in Seq(Asks) /\ <<>> \in Seq(Asks) /\ Len(<<>>) = 0 /\ 1 .. 0 = {}
      BY <1>1, EmptyLine DEF CoreType
    <2>. QED  BY <2>1
  <1>4. \A q : First(q) => First(q)'
    BY <1>3, EmptyLine DEF First, PendingAsks
  <1>5. /\ \A i, j \in 1 .. Len(asks') : i < j => asks'[i].n < asks'[j].n
        /\ \A i \in 1 .. Len(asks') : asks'[i].n <= asked'
    BY <1>3 DEF Core, AsksOK
  <1>6. ASSUME NEW u \in Turns
        PROVE  TurnOK(u)'
    <2>1. TurnOK(u)
      BY EachTurn
    <2>2. CASE u = t
      <3>1. r.pc \notin InLine /\ (r.pc = "over" => r \in Over)
            /\ (r.pc \notin {"none", "over"} => r \in Live)
        BY RecordFacts DEF InLine
      <3>2. (t \in ToSet(line))' = FALSE
        BY <1>2
      <3>. QED  BY <1>1, <1>2, <1>4, <2>2, <3>1, <3>2 DEF TurnOK, InLine, Working, Running
    <2>3. CASE u # t
      <3>1. turn[u].pc \in Working => asks' = asks
        <4>1. turn[t].pc \in Working => Holds(t)
          BY <1>1 DEF LockOK
        <4>. QED  BY <1>1, <2>3, <4>1, OneWorks
      <3>2. turn'[u] = turn[u] /\ (u \in ToSet(line') <=> u \in ToSet(line))
        BY <1>1, <1>2, <2>3
      <3>3. Holds(u) => Holds(u)'
        BY <1>2, <2>3 DEF Holds
      <3>. QED  BY <1>4, <2>1, <3>1, <3>2, <3>3 DEF TurnOK, Running, Working
    <2>. QED  BY <2>2, <2>3
  <1>7. First(form)' /\ form' \in Asks \cup {NoAsk} /\ asked' \in 0 .. MaxAsks
    BY <1>1, <1>4 DEF Core, CoreType, ShownOK
  <1>. QED  BY <1>1, <1>2, <1>3, <1>5, <1>6, <1>7, ByTurn

\* The holder of the lock goes on, and may change the questions.
LEMMA MovesCore ==
  ASSUME Core, NEW t \in Turns, Running(t), Holds(t), NEW r \in Live,
         turn' = [turn EXCEPT ![t] = r], r.pc \in Working, r.answers = turn[t].answers,
         UNCHANGED <<line, form>>,
         asks' \in Seq(Asks), asked' \in 0 .. MaxAsks,
         \A q \in Asks : First(q) => First(q)',
         \A i, j \in 1 .. Len(asks') : i < j => asks'[i].n < asks'[j].n,
         \A i \in 1 .. Len(asks') : asks'[i].n <= asked',
         r.pc \in {"call", "thinking"} => asks' = <<>>, r.pc = "asking" => asks' # <<>>
  PROVE  Core'
  <1>1. /\ CoreType /\ LockOK /\ turn'[t] = r /\ \A u \in Turns \ {t} : turn'[u] = turn[u]
        /\ DOMAIN turn' = Turns /\ turn' = [u \in DOMAIN turn' |-> turn'[u]]
        /\ First(form) /\ form \in Asks \cup {NoAsk} /\ line \in Seq(Turns) /\ Distinct(line)
    BY DEF Core, CoreType, LockOK, ShownOK
  <1>2. \A q \in Asks \cup {NoAsk} : First(q) => First(q)'
    BY DEF First
  <1>3. t \in ToSet(line)
    BY <1>1, Positions DEF Holds
  <1>4. ASSUME NEW u \in Turns
        PROVE  TurnOK(u)'
    <2>1. TurnOK(u)
      BY EachTurn
    <2>2. CASE u = t
      <3>1. r.answers \in Asks \cup {NoAsk} /\ First(r.answers)
        BY <2>1, <2>2, RecordFacts DEF TurnOK
      <3>. QED  BY <1>1, <1>2, <1>3, <2>2, <3>1 DEF TurnOK, InLine, Working, Holds
    <2>3. CASE u # t
      <3>1. turn'[u] = turn[u] /\ turn[u].pc \notin Working
        BY <1>1, <2>3, OneWorks
      <3>2. /\ turn[u].pc = "over" => turn[u].shows \in Asks \cup {NoAsk}
            /\ Running(u) => turn[u].answers \in Asks \cup {NoAsk}
        BY <1>1, TurnFacts, RecordFacts
      <3>. QED  BY <1>1, <1>2, <2>1, <3>1, <3>2 DEF TurnOK, Running, Working
    <2>. QED  BY <2>2, <2>3
  <1>5. First(form)'
    BY <1>1, <1>2
  <1>. QED  BY <1>1, <1>4, <1>5, ByTurn

\* A turn that is over goes; its question may be shown.
LEMMA SettlesCore ==
  ASSUME Core, NEW t \in Turns, turn[t].pc = "over", turn' = [turn EXCEPT ![t] = NoTurn],
         UNCHANGED <<line, asks, asked>>, form' \in {form, turn[t].shows}
  PROVE  Core'
  <1>1. /\ CoreType /\ turn'[t] = NoTurn /\ \A u \in Turns \ {t} : turn'[u] = turn[u]
        /\ DOMAIN turn' = Turns /\ turn' = [u \in DOMAIN turn' |-> turn'[u]]
    BY DEF Core, CoreType
  <1>2. \A q : First(q)' <=> First(q)
    BY DEF First, PendingAsks
  <1>3. form' \in Asks \cup {NoAsk} /\ First(form')
    BY <1>1, TurnFacts, RecordFacts DEF Core, CoreType, ShownOK
  <1>4. ASSUME NEW u \in Turns
        PROVE  TurnOK(u)'
    <2>1. TurnOK(u)
      BY EachTurn
    <2>. QED  BY <1>1, <1>2, <2>1, RecordFacts DEF TurnOK, Holds, Running, InLine, Working
  <1>. QED  BY <1>1, <1>2, <1>3, <1>4, ByTurn DEF Core, CoreType, LockOK, AsksOK, First, PendingAsks

(***************************************************************************)
(* The core is kept: one lemma for each way a turn changes.                 *)
(***************************************************************************)

LEMMA BeginsCore ==
  ASSUME Core, NEW t \in Turns, NEW kind \in {"send", "answer", "auto"},
         NEW says \in SUBSET Msgs, NEW answers \in Asks \cup {NoAsk}, First(answers),
         Begins(t, kind, says, answers), UNCHANGED <<asks, asked>>, form' \in {form, NoAsk}
  PROVE  Core'
  <1>. DEFINE r == [pc |-> "waiting", kind |-> kind, says |-> says, answers |-> answers,
                    calls |-> 0, tries |-> 0, retried |-> FALSE]
  <1>1. r \in Live /\ r.pc = "waiting" /\ r.answers = answers
    <2>1. 0 \in 0 .. MaxCalls /\ 0 \in 0 .. AutoAnswers
      OBVIOUS
    <2>. QED  BY <2>1 DEF Live
  <1>2. turn[t].pc \notin InLine
    BY RecordFacts DEF Begins, Free, InLine
  <1>3. form' \in Asks \cup {NoAsk} /\ First(form')
    BY DEF Core, CoreType, ShownOK, First
  <1>4. turn' = [turn EXCEPT ![t] = r] /\ line' = Append(line, t)
    BY DEF Begins
  <1>. HIDE DEF r
  <1>. QED  BY <1>1, <1>2, <1>3, <1>4, EnlistsCore

LEMMA EndsCore ==
  ASSUME Core, NEW t \in Turns, NEW q \in Asks \cup {NoAsk}, First(q), Ends(t, q),
         UNCHANGED <<asked, form>>,
         \/ UNCHANGED asks
         \/ asks' = <<>> /\ turn[t].pc \in Working
  PROVE  Core'
  <1>. DEFINE r == IF t \in streams THEN [pc |-> "over", shows |-> q] ELSE NoTurn
  <1>1. r \in {NoTurn} \cup Over
    BY DEF Over
  <1>2. r.pc \in {"none", "over"}
    BY RecordFacts
  <1>3. r = NoTurn \/ r.shows = q
    OBVIOUS
  <1>4. turn' = [turn EXCEPT ![t] = r] /\ line' = Leaves(t)
    BY DEF Ends
  <1>. HIDE DEF r
  <1>5. r.pc \notin InLine /\ r \notin Live /\ (r \in Over => First(r.shows))
    BY <1>2, <1>3, RecordFacts DEF InLine
  <1>. QED  BY <1>1, <1>4, <1>5, LeavesCore

\* The first question leaves; nothing shown is among the others.
LEMMA FirstLeaves ==
  ASSUME Core, asks # <<>>
  PROVE  /\ Tail(asks) \in Seq(Asks) /\ Head(asks) \in ToSet(asks) /\ Head(asks) \in Asks
         /\ First(Head(asks))
         /\ \A q : First(q) /\ q # NoAsk => q.n <= asked /\ q \notin ToSet(Tail(asks))
         /\ \A i, j \in 1 .. Len(Tail(asks)) : i < j => Tail(asks)[i].n < Tail(asks)[j].n
         /\ \A i \in 1 .. Len(Tail(asks)) : Tail(asks)[i].n <= asked
         /\ Tail(asks) = <<>> <=> Len(asks) = 1
         /\ \A q \in ToSet(asks) : q = Head(asks) \/ q \in ToSet(Tail(asks))
  <1>1. asks \in Seq(Asks) /\ AsksOK
    BY DEF Core, CoreType
  <1>2. /\ 1 \in 1 .. Len(asks) /\ Head(asks) = asks[1] /\ Len(asks) \in Nat
        /\ asks[1] \in ToSet(asks) /\ ToSet(asks) \subseteq Asks
    BY <1>1, Positions
  <1>3. /\ Tail(asks) \in Seq(Asks)
        /\ \A i \in 1 .. Len(Tail(asks)) : i + 1 \in 1 .. Len(asks) /\ Tail(asks)[i] = asks[i + 1]
        /\ \A q \in ToSet(asks) : q = Head(asks) \/ q \in ToSet(Tail(asks))
        /\ Tail(asks) = <<>> <=> Len(asks) = 1
        /\ ToSet(Tail(asks)) \subseteq ToSet(asks)
    BY <1>1, Tails
  <1>. /\ Len(Tail(asks)) \in Nat
       /\ \A x : x \in ToSet(Tail(asks)) => \E i \in 1 .. Len(Tail(asks)) : Tail(asks)[i] = x
    BY <1>3, Positions
  <1>4. \A i, j \in 1 .. Len(Tail(asks)) : i < j => Tail(asks)[i].n < Tail(asks)[j].n
    <2>1. \A i, j \in 1 .. Len(Tail(asks)) : i < j => i + 1 < j + 1
      BY <1>3
    <2>. QED  BY <1>1, <1>3, <2>1 DEF AsksOK
  <1>5. \A i \in 1 .. Len(Tail(asks)) : Tail(asks)[i].n <= asked
    BY <1>1, <1>3 DEF AsksOK
  <1>6. \A x \in ToSet(Tail(asks)) : Head(asks).n < x.n
    <2>. SUFFICES ASSUME NEW i \in 1 .. Len(Tail(asks))
                  PROVE  Head(asks).n < Tail(asks)[i].n
      BY <1>3
    <2>1. 1 < i + 1 /\ i + 1 \in 1 .. Len(asks)
      BY <1>3
    <2>. QED  BY <1>1, <1>2, <1>3, <2>1 DEF AsksOK
  <1>7. Head(asks).n \in Nat
    BY <1>2 DEF Asks
  <1>8. \A q : First(q) /\ q # NoAsk => q.n <= asked /\ q \notin ToSet(Tail(asks))
    BY <1>3, <1>6, <1>7 DEF First, PendingAsks
  <1>9. First(Head(asks))
    BY <1>1, <1>2 DEF First, AsksOK
  <1>. QED  BY <1>2, <1>3, <1>4, <1>5, <1>8, <1>9

\* What a turn that goes on becomes.
LEMMA AtPlace ==
  ASSUME NEW r \in Live, NEW p \in InLine \cup {"compacting"}, NEW s, s = [r EXCEPT !.pc = p]
  PROVE  s \in Live /\ s.pc = p /\ s.answers = r.answers /\ s.says = r.says
  BY DEF Live, InLine

LEMMA Entered ==
  ASSUME NEW r \in Live, NEW s, s = [r EXCEPT !.pc = "call", !.says = {}]
  PROVE  s \in Live /\ s.pc = "call" /\ s.answers = r.answers /\ s.says = {}
  BY DEF Live

LEMMA Overflown ==
  ASSUME NEW r \in Live, NEW s, s = [r EXCEPT !.pc = "compacting", !.retried = TRUE]
  PROVE  s \in Live /\ s.pc = "compacting" /\ s.answers = r.answers /\ s.says = r.says
  BY DEF Live

LEMMA Called ==
  ASSUME NEW r \in Live, r.calls < MaxCalls, NEW s,
         s = [r EXCEPT !.pc = "thinking", !.calls = @ + 1]
  PROVE  s \in Live /\ s.pc = "thinking" /\ s.answers = r.answers /\ s.says = r.says
  <1>1. r.calls + 1 \in 0 .. MaxCalls
    BY DEF Live
  <1>. QED  BY <1>1 DEF Live

LEMMA Tried ==
  ASSUME NEW r \in Live, r.tries < AutoAnswers, NEW p \in {"call", "asking"}, NEW s,
         s = [r EXCEPT !.tries = @ + 1, !.pc = p]
  PROVE  s \in Live /\ s.pc = p /\ s.answers = r.answers /\ s.says = r.says
  <1>1. r.tries + 1 \in 0 .. AutoAnswers
    BY DEF Live
  <1>. QED  BY <1>1 DEF Live

LEMMA MoveWithoutAsk ==
  ASSUME Core, NEW t \in Turns, Running(t), Holds(t), NEW r \in Live,
         turn' = [turn EXCEPT ![t] = r], r.pc \in {"call", "thinking"}, r.answers = turn[t].answers,
         UNCHANGED <<line, form, asked>>, asks' = <<>>
  PROVE  Core'
  <1>1. asked \in 0 .. MaxAsks /\ asks' \in Seq(Asks) /\ Len(asks') = 0 /\ ToSet(asks') = {}
    BY EmptyLine DEF Core, CoreType
  <1>2. 1 .. Len(asks') = {}
    BY <1>1
  <1>3. \A q \in Asks : First(q) => First(q)'
    BY <1>1 DEF First, PendingAsks
  <1>. QED  BY <1>1, <1>2, <1>3, MovesCore DEF Working

LEMMA MoveToNext ==
  ASSUME Core, NEW t \in Turns, Running(t), Holds(t), NEW r \in Live, asks # <<>>,
         turn' = [turn EXCEPT ![t] = r], r.pc = IF Len(asks) = 1 THEN "call" ELSE "asking",
         r.answers = turn[t].answers,
         UNCHANGED <<line, form, asked>>, asks' = Tail(asks)
  PROVE  Core'
  <1>1. asked \in 0 .. MaxAsks
    BY DEF Core, CoreType
  <1>2. \A q \in Asks : First(q) => First(q)'
    BY FirstLeaves DEF First, PendingAsks
  <1>. QED  BY <1>1, <1>2, FirstLeaves, MovesCore DEF Working

(***************************************************************************)
(* The core is kept: one lemma for each group of actions.                  *)
(***************************************************************************)

LEMMA NoAskIsShown ==
  First(NoAsk)
  BY DEF First

LEMMA LinesUpCore ==
  ASSUME Core, checking \subseteq Msgs, NEW t \in Turns,
         \/ \E m \in Msgs : Send(m, t)
         \/ ResendQueued(t) \/ AnswerForm(t) \/ Fires(t)
  PROVE  Core'
  <1>1. CASE \E m \in Msgs : Send(m, t)
    <2>1. PICK m \in Msgs : Send(m, t)
      BY <1>1
    <2>. QED  BY <2>1, BeginsCore, NoAskIsShown DEF Send, counts
  <1>2. CASE ResendQueued(t)
    BY <1>2, BeginsCore, NoAskIsShown DEF ResendQueued, counts
  <1>3. CASE AnswerForm(t)
    <2>1. form \in Asks \cup {NoAsk} /\ First(form)
      BY DEF Core, CoreType, ShownOK
    <2>. QED  BY <1>3, <2>1, BeginsCore DEF AnswerForm, counts
  <1>4. CASE Fires(t)
    BY <1>4, BeginsCore, NoAskIsShown DEF Fires, console
  <1>. QED  BY <1>1, <1>2, <1>3, <1>4

LEMMA RetryCore ==
  ASSUME Core, NEW t \in Turns, Retry(t)
  PROVE  Core'
  <1>. DEFINE r == [turn[t] EXCEPT !.pc = "waiting"]
  <1>1. CoreType /\ turn[t].pc = "compacting" /\ Running(t)
    BY DEF Core, Retry, At
  <1>2. turn[t] \in Live /\ First(turn[t].answers)
    BY <1>1, TurnFacts DEF Core, ShownOK
  <1>3. r \in Live /\ r.pc = "waiting" /\ r.answers = turn[t].answers
    BY <1>2, AtPlace DEF InLine
  <1>4. turn' = [turn EXCEPT ![t] = r] /\ line' = Append(line, t)
    BY DEF Retry
  <1>5. form' \in Asks \cup {NoAsk} /\ First(form') /\ UNCHANGED <<asks, asked>>
    BY DEF Core, CoreType, ShownOK, Retry, console, counts
  <1>. HIDE DEF r
  <1>. QED  BY <1>1, <1>2, <1>3, <1>4, <1>5, EnlistsCore DEF InLine

LEMMA OverflowCore ==
  ASSUME Core, NEW t \in Turns, Overflow(t)
  PROVE  Core'
  <1>. DEFINE r == [turn[t] EXCEPT !.pc = "compacting", !.retried = TRUE]
  <1>1. CoreType /\ turn[t].pc = "thinking" /\ Running(t)
    BY DEF Core, Overflow, At
  <1>2. turn[t] \in Live /\ First(turn[t].answers)
    BY <1>1, TurnFacts DEF Core, ShownOK
  <1>3. r \in Live /\ r.pc = "compacting" /\ r.answers = turn[t].answers
    BY <1>2, Overflown
  <1>4. turn' = [turn EXCEPT ![t] = r] /\ line' = Leaves(t)
    BY DEF Overflow
  <1>5. UNCHANGED <<asks, asked, form>>
    BY DEF Overflow, console
  <1>. HIDE DEF r
  <1>6. r \notin Over /\ r.pc \notin InLine
    BY <1>3, RecordFacts DEF InLine
  <1>. QED  BY <1>2, <1>3, <1>4, <1>5, <1>6, LeavesCore

LEMMA EndingCore ==
  ASSUME Core, NEW t \in Turns,
         \/ Hold(t) \/ Complete(t) \/ Park(t) \/ GiveUp(t) \/ Errs(t) \/ Stall(t) \/ Cancel(t)
  PROVE  Core'
  <1>1. asks # <<>> => Head(asks) \in Asks /\ First(Head(asks))
    BY FirstLeaves
  <1>2. NoAsk \in Asks \cup {NoAsk} /\ First(NoAsk)
    BY NoAskIsShown
  <1>3. CASE Hold(t)
    BY <1>1, <1>3, EndsCore DEF Hold, MustHold, counts
  <1>4. CASE Park(t)
    <2>1. asks # <<>>
      BY <1>4 DEF Park, At, Core, AsksOK
    <2>. QED  BY <1>1, <1>4, <2>1, EndsCore DEF Park, counts
  <1>5. CASE GiveUp(t)
    <2>1. turn[t].pc \in Working /\ Ends(t, NoAsk) /\ UNCHANGED <<asked, form>>
          /\ (UNCHANGED asks \/ asks' = <<>>)
      BY <1>5 DEF GiveUp, At, Working
    <2>. QED  BY <1>2, <2>1, EndsCore
  <1>6. CASE Complete(t) \/ Errs(t) \/ Stall(t) \/ Cancel(t)
    BY <1>2, <1>6, EndsCore DEF Complete, Errs, Stall, Cancel, counts
  <1>. QED  BY <1>3, <1>4, <1>5, <1>6

LEMMA HolderWorks ==
  ASSUME Core, NEW t \in Turns, Running(t), turn[t].pc \in Working
  PROVE  Holds(t) /\ turn[t] \in Live
  BY TurnFacts DEF Core, LockOK

LEMMA GoingOnCore ==
  ASSUME Core, NEW t \in Turns,
         Resume(t) \/ Enter(t) \/ ModelCall(t) \/ ToolsRun(t) \/ AutoAnswer(t)
  PROVE  Core'
  <1>1. Running(t) /\ Holds(t) /\ turn[t] \in Live
    BY HolderWorks, TurnFacts DEF Core, Resume, Enter, ModelCall, ToolsRun, AutoAnswer, At, Working
  <1>2. /\ "call" \in InLine /\ "thinking" \in InLine /\ "asking" \in InLine
        /\ turn[t].pc \in {"call", "thinking"} => asks = <<>>
        /\ turn[t].pc = "asking" => asks # <<>>
    BY DEF InLine, Core, AsksOK
  <1>. DEFINE next == IF Len(asks) = 1 THEN "call" ELSE "asking"
  <1>3. CASE Resume(t)
    <2>. DEFINE r == [turn[t] EXCEPT !.pc = next]
    <2>1. next \in InLine
      BY <1>2
    <2>2. r \in Live /\ r.pc = next /\ r.answers = turn[t].answers
      BY <1>1, <2>1, AtPlace
    <2>3. /\ turn' = [turn EXCEPT ![t] = r] /\ asks # <<>> /\ asks' = Tail(asks)
          /\ UNCHANGED <<line, form, asked>>
      BY <1>3 DEF Resume, Resumes, console, counts
    <2>. HIDE DEF r
    <2>. QED  BY <1>1, <2>2, <2>3, MoveToNext
  <1>4. CASE AutoAnswer(t)
    <2>. DEFINE r == [turn[t] EXCEPT !.tries = @ + 1, !.pc = next]
    <2>1. next \in {"call", "asking"} /\ turn[t].tries < AutoAnswers
      BY <1>2, <1>4 DEF AutoAnswer
    <2>2. r \in Live /\ r.pc = next /\ r.answers = turn[t].answers
      <3>1. ASSUME NEW l \in Live, l.tries < AutoAnswers, NEW p \in {"call", "asking"}
            PROVE  LET s == [l EXCEPT !.tries = @ + 1, !.pc = p]
                   IN  s \in Live /\ s.pc = p /\ s.answers = l.answers
        BY <3>1, Tried
      <3>. HIDE DEF next
      <3>. QED  BY <1>1, <2>1, <3>1
    <2>3. /\ turn' = [turn EXCEPT ![t] = r] /\ asks # <<>> /\ asks' = Tail(asks)
          /\ UNCHANGED <<line, form, asked>>
      BY <1>2, <1>4 DEF AutoAnswer, At, console, counts
    <2>. HIDE DEF r
    <2>. QED  BY <1>1, <2>2, <2>3, MoveToNext
  <1>5. CASE Enter(t)
    <2>. DEFINE r == [turn[t] EXCEPT !.pc = "call", !.says = {}]
    <2>1. r \in Live /\ r.pc = "call" /\ r.answers = turn[t].answers
      BY <1>1, Entered
    <2>2. turn' = [turn EXCEPT ![t] = r] /\ asks' = <<>> /\ UNCHANGED <<line, form, asked>>
      BY <1>5 DEF Enter, console, counts
    <2>. HIDE DEF r
    <2>. QED  BY <1>1, <2>1, <2>2, MoveWithoutAsk
  <1>6. CASE ModelCall(t)
    <2>. DEFINE r == [turn[t] EXCEPT !.pc = "thinking", !.calls = @ + 1]
    <2>1. r \in Live /\ r.pc = "thinking" /\ r.answers = turn[t].answers
      BY <1>1, <1>6, Called DEF ModelCall
    <2>2. turn' = [turn EXCEPT ![t] = r] /\ asks' = <<>> /\ UNCHANGED <<line, form, asked>>
      BY <1>2, <1>6 DEF ModelCall, At, console, counts
    <2>. HIDE DEF r
    <2>. QED  BY <1>1, <2>1, <2>2, MoveWithoutAsk
  <1>7. CASE ToolsRun(t)
    <2>. DEFINE r == [turn[t] EXCEPT !.pc = "call"]
    <2>1. r \in Live /\ r.pc = "call" /\ r.answers = turn[t].answers
      BY <1>1, <1>2, AtPlace
    <2>2. turn' = [turn EXCEPT ![t] = r] /\ asks' = <<>> /\ UNCHANGED <<line, form, asked>>
      BY <1>2, <1>7 DEF ToolsRun, At, console, counts
    <2>. HIDE DEF r
    <2>. QED  BY <1>1, <2>1, <2>2, MoveWithoutAsk
  <1>. QED  BY <1>3, <1>4, <1>5, <1>6, <1>7

\* New questions have numbers of their own.
LEMMA AsksUserCore ==
  ASSUME Core, NEW t \in Turns, NEW k \in 1 .. 2, AsksUser(t, k)
  PROVE  Core' /\ asks = <<>>
  <1>1. /\ Running(t) /\ turn[t].pc = "thinking" /\ asked + k <= MaxAsks /\ asked' = asked + k
        /\ UNCHANGED <<line, form>>
    BY DEF AsksUser, At, console
  <1>2. Holds(t) /\ turn[t] \in Live /\ asks = <<>> /\ asked \in 0 .. MaxAsks
    BY <1>1, HolderWorks DEF Core, AsksOK, CoreType, Working
  <1>. DEFINE New(i) == [n |-> asked + i, auto |-> turn[t].kind = "auto"]
              r == [turn[t] EXCEPT !.pc = "asking"]
  <1>3. asks' = [i \in 1 .. k |-> New(i)] /\ turn' = [turn EXCEPT ![t] = r]
    BY DEF AsksUser
  <1>4. r \in Live /\ r.pc = "asking" /\ r.answers = turn[t].answers
    BY <1>2, AtPlace DEF InLine
  <1>5. k \in Nat /\ asked' \in 0 .. MaxAsks /\ \A i \in 1 .. k : asked + i \in 1 .. MaxAsks
    BY <1>1, <1>2
  <1>6. \A i \in 1 .. k : New(i) \in Asks /\ New(i).n = asked + i
    BY <1>5 DEF Asks
  <1>. HIDE DEF New, r
  <1>7. asks' \in Seq(Asks) /\ Len(asks') = k /\ \A i \in 1 .. k : asks'[i] = New(i)
    BY <1>3, <1>5, <1>6, IsASeq, LenProperties
  <1>8. /\ \A i, j \in 1 .. k : i < j => asked + i < asked + j
        /\ \A i \in 1 .. k : asked + i <= asked + k /\ ~(asked + i <= asked)
        /\ 1 \in 1 .. k
    BY <1>2, <1>5
  <1>9. asks' # <<>>
    BY <1>7, <1>8, Positions
  <1>10. \A q \in Asks : First(q) => First(q)'
    <2>1. \A q \in Asks : q.n \in Nat
      BY DEF Asks
    <2>2. \A q \in Asks : q.n <= asked => q.n <= asked + k
      BY <1>2, <1>5, <2>1
    <2>3. \A q \in ToSet(asks') : \E i \in 1 .. k : q = New(i)
      BY <1>7, Positions
    <2>4. \A q \in ToSet(asks') : ~(q.n <= asked)
      BY <1>6, <1>8, <2>3
    <2>. QED  BY <1>1, <2>2, <2>4 DEF First, PendingAsks
  <1>11. /\ \A i, j \in 1 .. Len(asks') : i < j => asks'[i].n < asks'[j].n
         /\ \A i \in 1 .. Len(asks') : asks'[i].n <= asked'
    BY <1>1, <1>6, <1>7, <1>8
  <1>12. r.pc \in Working /\ ~(r.pc \in {"call", "thinking"})
    BY <1>4 DEF Working
  <1>. QED  BY <1>1, <1>2, <1>3, <1>4, <1>5, <1>7, <1>9, <1>10, <1>11, <1>12, MovesCore

LEMMA SettlingCore ==
  ASSUME Core, NEW t \in Turns, StreamEnds(t) \/ (Stop(t) /\ turn' # turn)
  PROVE  Core'
  <1>1. CASE StreamEnds(t)
    BY <1>1, SettlesCore DEF StreamEnds, counts
  <1>2. CASE Stop(t) /\ turn' # turn
    <2>1. ~Running(t) /\ turn' = [turn EXCEPT ![t] = NoTurn] /\ UNCHANGED <<line, asks, asked, form>>
      BY <1>2 DEF Stop
    <2>2. turn[t].pc \in {"none", "over"}
      BY <2>1 DEF Running
    <2>3. turn[t].pc # "none"
      <3>1. turn[t].pc = "none" => turn[t] = NoTurn
        BY RecordFacts DEF Core, CoreType, InLine
      <3>2. turn[t] = NoTurn => turn' = turn
        BY <2>1 DEF Core, CoreType
      <3>. QED  BY <1>2, <3>1, <3>2
    <2>. QED  BY <2>1, <2>2, <2>3, SettlesCore
  <1>. QED  BY <1>1, <1>2

LEMMA CrashCore ==
  ASSUME Core, Crash
  PROVE  Core'
  <1>1. /\ turn' = [t \in Turns |-> NoTurn] /\ line' = <<>> /\ UNCHANGED <<asks, form, asked>>
    BY DEF Crash
  <1>2. line' \in Seq(Turns) /\ ToSet(line') = {} /\ Distinct(line')
    BY <1>1, EmptyLine
  <1>3. \A q : First(q)' <=> First(q)
    BY <1>1 DEF First, PendingAsks
  <1>4. \A t \in Turns : TurnOK(t)'
    BY <1>1, <1>2, RecordFacts DEF TurnOK, InLine, Working, Running
  <1>. QED  BY <1>1, <1>2, <1>3, <1>4, ByTurn DEF Core, CoreType, LockOK, AsksOK, ShownOK

LEMMA SameCore ==
  ASSUME Core, UNCHANGED <<turn, line, asks, asked, form>>
  PROVE  Core'
  BY DEF Core, CoreType, LockOK, AsksOK, ShownOK, First, PendingAsks, Holds, Running

\* Every step keeps the core.
LEMMA CoreStep ==
  ASSUME Core, checking \subseteq Msgs, [Next]_vars
  PROVE  Core'
  <1>1. ASSUME NEW t \in Turns, TurnNext(t)
        PROVE  Core'
    BY <1>1, LinesUpCore, RetryCore, OverflowCore, EndingCore, GoingOnCore, AsksUserCore DEF TurnNext
  <1>2. CASE ConsoleNext
    <2>1. ASSUME NEW m \in Msgs,
                 QueueSteer(m) \/ SteerArrives(m) \/ SteerFails(m) \/ CancelSteer(m) \/ Dequeue(m)
          PROVE  Core'
      <3>1. UNCHANGED <<turn, line, asks, asked, form>>
        BY <2>1 DEF QueueSteer, SteerArrives, SteerFails, CancelSteer, Dequeue, server, counts
      <3>. QED  BY <3>1, SameCore
    <2>2. CASE Poll \/ KeepQueued \/ SettleQueued
      <3>1. UNCHANGED <<turn, line, asks, asked, form>>
        BY <2>2 DEF Poll, KeepQueued, SettleQueued, server, counts
      <3>. QED  BY <3>1, SameCore
    <2>3. ASSUME NEW t \in Turns, Stop(t)
          PROVE  Core'
      <3>1. CASE turn' = turn
        <4>1. UNCHANGED <<turn, line, asks, asked, form>>
          BY <2>3, <3>1 DEF Stop
        <4>. QED  BY <4>1, SameCore
      <3>. QED  BY <2>3, <3>1, SettlingCore
    <2>. QED  BY <1>2, <2>1, <2>2, <2>3, LinesUpCore, SettlingCore DEF ConsoleNext
  <1>3. CASE Crash
    BY <1>3, CrashCore
  <1>4. CASE UNCHANGED vars
    BY <1>4, SameCore DEF vars, server, console, counts
  <1>. QED  BY <1>1, <1>2, <1>3, <1>4 DEF Next

LEMMA CoreInit ==
  ASSUME Init
  PROVE  Core
  <1>1. /\ turn = [t \in Turns |-> NoTurn] /\ \A t \in Turns : turn[t].pc = "none" /\ ~Running(t)
    BY RecordFacts DEF Init, Running
  <1>2. /\ line = <<>> /\ line \in Seq(Turns) /\ ToSet(line) = {} /\ Distinct(line)
        /\ asks = <<>> /\ asks \in Seq(Asks) /\ 1 .. Len(asks) = {}
    BY EmptyLine DEF Init, Distinct
  <1>3. asked = 0 /\ asked \in 0 .. MaxAsks /\ form = NoAsk
    BY DEF Init
  <1>. QED  BY <1>1, <1>2, <1>3 DEF Core, CoreType, LockOK, AsksOK, ShownOK, First, InLine, Working

(***************************************************************************)
(* Messages: where each one is until the model has it.                     *)
(***************************************************************************)

RestType ==
  /\ queue \in Seq(Items) /\ fired \in 0 .. MaxFires /\ faults \in 0 .. MaxFaults
  /\ {typed, posts, deletes, bubbles, checking, excused} \subseteq SUBSET Msgs
  /\ {cancels, streams} \subseteq SUBSET Turns
  /\ heard \in [Msgs -> Nat]

Carried(m) == \E t \in Turns : Running(t) /\ m \in turn[t].says

\* A turn carries what it was sent with only while it waits.
Emptied == \A t \in Turns : /\ Running(t) /\ (turn[t].pc # "waiting" \/ turn[t].kind # "send")
                            => turn[t].says = {}

\* An item that has the tab's id is that message.
Texts == \A i \in DOMAIN queue : queue[i].id # "held" => queue[i].text = {queue[i].id}

Safe(m) == m \in posts \/ Queued(m) \/ heard[m] > 0 \/ m \in excused \/ Carried(m)

IInv == Core /\ RestType /\ Emptied /\ Texts /\ Kept

LEMMA SafeIsKept ==
  Kept <=> \A m \in typed : Safe(m)
  BY DEF Kept, Safe, Carried

\* One turn changes: the others carry what they did.
LEMMA OneChanges ==
  ASSUME CoreType, Emptied, NEW t \in Turns, NEW r \in {NoTurn} \cup Live \cup Over,
         turn' = [turn EXCEPT ![t] = r],
         r \in Live => r.says = {} \/ (r.pc = "waiting" /\ r.kind = "send")
  PROVE  /\ Emptied'
         /\ \A m : Carried(m) => Carried(m)' \/ (Running(t) /\ m \in turn[t].says)
         /\ r \in Live => \A m \in r.says : Carried(m)'
  <1>1. turn'[t] = r /\ \A u \in Turns \ {t} : turn'[u] = turn[u]
    BY DEF CoreType
  <1>2. Running(t)' <=> r \in Live
    BY <1>1, RecordFacts DEF Running, InLine
  <1>3. Emptied'
    BY <1>1, <1>2 DEF Emptied, Running
  <1>. QED  BY <1>1, <1>2, <1>3 DEF Carried, Running

LEMMA SameMessages ==
  ASSUME Emptied, Texts, Kept, UNCHANGED <<turn, queue, heard, typed>>,
         posts \subseteq posts' \cup excused', excused \subseteq excused'
  PROVE  Emptied' /\ Texts' /\ Kept'
  BY DEF Emptied, Texts, Kept, Running, Queued

LEMMA Appending ==
  ASSUME RestType, Texts, NEW x \in Items, x.id # "held" => x.text = {x.id},
         queue' = Append(queue, x)
  PROVE  /\ queue' \in Seq(Items) /\ Texts'
         /\ \A m : Queued(m)' <=> Queued(m) \/ m \in x.text
  <1>1. queue \in Seq(Items) /\ DOMAIN queue = 1 .. Len(queue) /\ Len(queue) \in Nat
    BY Positions DEF RestType
  <1>2. /\ queue' \in Seq(Items) /\ DOMAIN queue' = 1 .. Len(queue) + 1
        /\ \A i \in 1 .. Len(queue) + 1 : queue'[i] = IF i = Len(queue) + 1 THEN x ELSE queue[i]
    BY <1>1, Appended
  <1>3. /\ \A i \in 1 .. Len(queue) + 1 : i \in 1 .. Len(queue) \/ i = Len(queue) + 1
        /\ \A i \in 1 .. Len(queue) : i \in 1 .. Len(queue) + 1 /\ i # Len(queue) + 1
        /\ Len(queue) + 1 \in 1 .. Len(queue) + 1
    BY <1>1
  <1>4. /\ \A i \in DOMAIN queue' : (i \in DOMAIN queue /\ queue'[i] = queue[i]) \/ queue'[i] = x
        /\ \A i \in DOMAIN queue : i \in DOMAIN queue' /\ queue'[i] = queue[i]
        /\ Len(queue) + 1 \in DOMAIN queue' /\ queue'[Len(queue) + 1] = x
    BY <1>1, <1>2, <1>3
  <1>5. Texts'
    BY <1>4 DEF Texts
  <1>6. \A m : Queued(m)' <=> Queued(m) \/ m \in x.text
    BY <1>4 DEF Queued
  <1>. QED  BY <1>2, <1>5, <1>6

LEMMA Dequeuing ==
  ASSUME RestType, Texts, NEW i \in DOMAIN queue, queue' = RemoveAt(queue, i)
  PROVE  /\ queue' \in Seq(Items) /\ Texts'
         /\ \A m : Queued(m) => Queued(m)' \/ m \in queue[i].text
  <1>1. queue \in Seq(Items) /\ DOMAIN queue = 1 .. Len(queue)
    BY Positions DEF RestType
  <1>2. /\ queue' \in Seq(Items) /\ ToSet(queue') \subseteq ToSet(queue)
        /\ \A x \in ToSet(queue) : x = queue[i] \/ x \in ToSet(queue')
    BY <1>1, Removed
  <1>3. /\ ToSet(queue) = {queue[j] : j \in DOMAIN queue}
        /\ ToSet(queue') = {queue'[j] : j \in DOMAIN queue'}
    BY DEF ToSet
  <1>4. Texts'
    <2>1. \A x \in ToSet(queue) : x.id # "held" => x.text = {x.id}
      BY <1>3 DEF Texts
    <2>2. \A j \in DOMAIN queue' : queue'[j] \in ToSet(queue)
      BY <1>2, <1>3
    <2>. QED  BY <2>1, <2>2 DEF Texts
  <1>5. \A m : Queued(m) => Queued(m)' \/ m \in queue[i].text
    BY <1>2, <1>3 DEF Queued
  <1>. QED  BY <1>2, <1>4, <1>5

\* The messages after an action that changes one turn.
LEMMA KeptWhenOneChanges ==
  ASSUME IInv, NEW t \in Turns, NEW r \in {NoTurn} \cup Live \cup Over,
         turn' = [turn EXCEPT ![t] = r],
         r \in Live => r.says = {} \/ (r.pc = "waiting" /\ r.kind = "send"),
         posts \subseteq posts', excused \subseteq excused', Texts',
         \A m \in Msgs : Queued(m) => Queued(m)' \/ heard'[m] > 0,
         \A m \in Msgs : heard[m] > 0 => heard'[m] > 0,
         Running(t) => \A m \in turn[t].says : heard'[m] > 0 \/ m \in excused' \/ Queued(m)',
         \A m \in typed' \ typed : r \in Live /\ m \in r.says
  PROVE  Emptied' /\ Texts' /\ Kept'
  <1>1. CoreType /\ Emptied /\ Texts /\ (\A m \in typed : Safe(m)) /\ typed \subseteq Msgs
    BY SafeIsKept DEF IInv, Core, RestType
  <1>2. /\ Emptied'
        /\ \A m : Carried(m) => Carried(m)' \/ (Running(t) /\ m \in turn[t].says)
        /\ r \in Live => \A m \in r.says : Carried(m)'
    BY <1>1, OneChanges
  <1>3. \A m \in typed : Safe(m)'
    BY <1>1, <1>2 DEF Safe
  <1>4. \A m \in typed' \ typed : Safe(m)'
    BY <1>2 DEF Safe
  <1>5. (Kept <=> \A m \in typed : Safe(m))'
    BY DEF Kept, Safe, Carried
  <1>. QED  BY <1>2, <1>3, <1>4, <1>5

\* A turn that does not carry anything goes on, or ends.
LEMMA CarriesNothing ==
  ASSUME IInv, NEW t \in Turns, NEW r \in {NoTurn} \cup Live \cup Over,
         turn' = [turn EXCEPT ![t] = r], Running(t) => turn[t].says = {},
         r \in Live => r.says = {}, UNCHANGED <<posts, queue, heard, typed, excused>>
  PROVE  Emptied' /\ Texts' /\ Kept'
  <1>1. Texts' /\ \A m : Queued(m)' <=> Queued(m)
    BY DEF IInv, Texts, Queued
  <1>. QED  BY <1>1, KeptWhenOneChanges

\* The parts that no action of a turn but these changes.
LEMMA SameRest ==
  ASSUME RestType, UNCHANGED <<queue, typed, posts, deletes, bubbles, heard>>,
         fired' \in 0 .. MaxFires, faults' \in 0 .. MaxFaults, checking' \subseteq Msgs,
         excused' \subseteq Msgs, cancels' \subseteq Turns, streams' \subseteq Turns
  PROVE  RestType'
  BY DEF RestType

LEMMA FaultCounts ==
  ASSUME RestType, NEW kind, Fault(kind)
  PROVE  faults' \in 0 .. MaxFaults
  <1>1. faults \in 0 .. MaxFaults /\ faults < MaxFaults /\ faults' = faults + 1
    BY DEF RestType, Fault
  <1>. QED  BY <1>1

Messages == RestType /\ Emptied /\ Texts /\ Kept

LEMMA BeginsMessages ==
  ASSUME IInv, NEW t \in Turns, NEW kind \in {"send", "answer", "auto"},
         NEW says \in SUBSET Msgs, NEW answers \in Asks \cup {NoAsk},
         Begins(t, kind, says, answers), kind = "send" \/ says = {},
         UNCHANGED <<queue, posts, heard, excused>>, typed' \subseteq typed \cup says
  PROVE  Emptied' /\ Texts' /\ Kept'
  <1>. DEFINE r == [pc |-> "waiting", kind |-> kind, says |-> says, answers |-> answers,
                    calls |-> 0, tries |-> 0, retried |-> FALSE]
  <1>1. r \in Live /\ r.pc = "waiting" /\ r.kind = kind /\ r.says = says
    <2>1. 0 \in 0 .. MaxCalls /\ 0 \in 0 .. AutoAnswers
      OBVIOUS
    <2>. QED  BY <2>1 DEF Live
  <1>2. turn' = [turn EXCEPT ![t] = r] /\ ~Running(t)
    BY RecordFacts DEF Begins, Free, Running
  <1>. HIDE DEF r
  <1>3. Texts' /\ \A m : Queued(m)' <=> Queued(m)
    BY DEF IInv, Texts, Queued
  <1>. QED  BY <1>1, <1>2, <1>3, KeptWhenOneChanges

LEMMA LinesUpMessages ==
  ASSUME IInv, NEW t \in Turns,
         \/ \E m \in Msgs : Send(m, t)
         \/ ResendQueued(t) \/ AnswerForm(t) \/ Fires(t)
  PROVE  Messages'
  <1>. USE DEF Messages
  <1>1. CoreType /\ RestType /\ NoAsk \in Asks \cup {NoAsk}
    BY DEF IInv, Core
  <1>2. CASE \E m \in Msgs : Send(m, t)
    <2>1. PICK m \in Msgs : Send(m, t)
      BY <1>2
    <2>2. RestType'
      BY <1>1, <2>1 DEF Send, RestType, counts
    <2>. QED  BY <1>1, <2>1, <2>2, BeginsMessages DEF Send
  <1>3. CASE ResendQueued(t)
    <2>1. RestType' /\ checking \subseteq Msgs
      BY <1>1, <1>3 DEF ResendQueued, RestType, counts
    <2>. QED  BY <1>1, <1>3, <2>1, BeginsMessages DEF ResendQueued
  <1>4. CASE AnswerForm(t)
    <2>1. RestType' /\ form \in Asks \cup {NoAsk}
      BY <1>1, <1>4 DEF AnswerForm, RestType, CoreType, counts
    <2>. QED  BY <1>4, <2>1, BeginsMessages DEF AnswerForm
  <1>5. CASE Fires(t)
    <2>1. fired' \in 0 .. MaxFires
      <3>1. fired \in 0 .. MaxFires /\ fired < MaxFires /\ fired' = fired + 1
        BY <1>1, <1>5 DEF Fires, RestType
      <3>. QED  BY <3>1
    <2>2. RestType'
      BY <1>1, <1>5, <2>1 DEF Fires, RestType, console
    <2>. QED  BY <1>1, <1>5, <2>2, BeginsMessages DEF Fires, console
  <1>. QED  BY <1>2, <1>3, <1>4, <1>5

LEMMA SameTurnsMessages ==
  ASSUME IInv,
         \/ \E m \in Msgs : QueueSteer(m) \/ SteerFails(m) \/ CancelSteer(m)
         \/ Poll \/ KeepQueued \/ SettleQueued
  PROVE  Messages'
  <1>. USE DEF Messages
  <1>1. RestType /\ Emptied /\ Texts /\ Kept
    BY DEF IInv
  <1>2. CASE \E m \in Msgs : QueueSteer(m)
    <2>1. PICK m \in Msgs : QueueSteer(m)
      BY <1>2
    <2>2. RestType'
      BY <1>1, <2>1 DEF QueueSteer, RestType, server, counts
    <2>3. Emptied' /\ Texts'
      BY <1>1, <2>1 DEF QueueSteer, server, Emptied, Texts, Running
    <2>4. Kept'
      BY <1>1, <2>1 DEF QueueSteer, server, Kept, Running, Queued
    <2>. QED  BY <2>2, <2>3, <2>4
  <1>3. CASE \E m \in Msgs : SteerFails(m)
    <2>1. PICK m \in Msgs : SteerFails(m)
      BY <1>3
    <2>2. faults' \in 0 .. MaxFaults
      BY <1>1, <2>1, FaultCounts DEF SteerFails
    <2>3. RestType'
      BY <1>1, <2>1, <2>2 DEF SteerFails, RestType, server
    <2>. QED  BY <1>1, <2>1, <2>3, SameMessages DEF SteerFails, server
  <1>4. CASE \E m \in Msgs : CancelSteer(m)
    <2>1. PICK m \in Msgs : CancelSteer(m)
      BY <1>4
    <2>2. RestType'
      BY <1>1, <2>1 DEF CancelSteer, RestType, server, counts
    <2>. QED  BY <1>1, <2>1, <2>2, SameMessages DEF CancelSteer, server
  <1>5. CASE Poll \/ KeepQueued \/ SettleQueued
    <2>1. RestType'
      BY <1>1, <1>5 DEF Poll, KeepQueued, SettleQueued, RestType, server, counts
    <2>2. UNCHANGED <<turn, queue, heard, typed, posts, excused>>
      BY <1>5 DEF Poll, KeepQueued, SettleQueued, server
    <2>. QED  BY <1>1, <2>1, <2>2, SameMessages
  <1>. QED  BY <1>2, <1>3, <1>4, <1>5

LEMMA ArrivesMessages ==
  ASSUME IInv, NEW m \in Msgs, SteerArrives(m)
  PROVE  Messages'
  <1>. DEFINE x == [id |-> m, text |-> {m}]
  <1>1. RestType /\ Emptied /\ Texts /\ \A n \in typed : Safe(n)
    BY SafeIsKept DEF IInv
  <1>2. x \in Items /\ (x.id # "held" => x.text = {x.id}) /\ m \in x.text
    BY DEF Items
  <1>3. /\ queue' = Append(queue, x) /\ posts' = posts \ {m}
        /\ UNCHANGED <<turn, heard, typed, excused, deletes, cancels, streams, bubbles, checking, fired, faults>>
    BY DEF SteerArrives, counts
  <1>. HIDE DEF x
  <1>4. /\ queue' \in Seq(Items) /\ Texts'
        /\ \A n : Queued(n)' <=> Queued(n) \/ n \in x.text
    BY <1>1, <1>2, <1>3, Appending
  <1>5. RestType'
    BY <1>1, <1>3, <1>4 DEF RestType
  <1>6. Emptied' /\ \A n : Carried(n)' <=> Carried(n)
    BY <1>1, <1>3 DEF Emptied, Carried, Running
  <1>7. \A n \in typed' : Safe(n)'
    BY <1>1, <1>2, <1>3, <1>4, <1>6 DEF Safe
  <1>8. (Kept <=> \A n \in typed : Safe(n))'
    BY DEF Kept, Safe, Carried
  <1>. QED  BY <1>4, <1>5, <1>6, <1>7, <1>8 DEF Messages

LEMMA DequeueMessages ==
  ASSUME IInv, NEW m \in Msgs, Dequeue(m)
  PROVE  Messages'
  <1>1. RestType /\ Emptied /\ Texts /\ Kept /\ \A n \in typed : Safe(n)
    BY SafeIsKept DEF IInv
  <1>2. /\ deletes' = deletes \ {m}
        /\ UNCHANGED <<turn, heard, typed, posts, cancels, streams, bubbles, checking, fired, faults>>
    BY DEF Dequeue, counts
  <1>3. CASE UNCHANGED <<queue, excused>>
    <2>1. RestType'
      BY <1>1, <1>2, <1>3 DEF RestType
    <2>. QED  BY <1>1, <1>2, <1>3, <2>1, SameMessages DEF Messages
  <1>4. CASE ~UNCHANGED <<queue, excused>>
    <2>1. PICK i \in DOMAIN queue : /\ queue[i].id = m /\ queue' = RemoveAt(queue, i)
                                    /\ excused' = excused \cup {m}
      BY <1>4 DEF Dequeue
    <2>2. queue[i].text = {m}
      BY <1>1, <2>1 DEF Texts
    <2>3. /\ queue' \in Seq(Items) /\ Texts'
          /\ \A n : Queued(n) => Queued(n)' \/ n = m
      BY <1>1, <2>1, <2>2, Dequeuing
    <2>4. RestType'
      BY <1>1, <1>2, <2>1, <2>3 DEF RestType
    <2>5. Emptied' /\ \A n : Carried(n)' <=> Carried(n)
      BY <1>1, <1>2 DEF Emptied, Carried, Running
    <2>6. \A n \in typed' : Safe(n)'
      BY <1>1, <1>2, <2>1, <2>3, <2>5 DEF Safe
    <2>7. (Kept <=> \A n \in typed : Safe(n))'
      BY DEF Kept, Safe, Carried
    <2>. QED  BY <2>3, <2>4, <2>5, <2>6, <2>7 DEF Messages
  <1>. QED  BY <1>3, <1>4

\* What a turn becomes when it ends.
LEMMA EndRecord ==
  ASSUME NEW t \in Turns, NEW q \in Asks \cup {NoAsk}, Ends(t, q)
  PROVE  \E r \in {NoTurn} \cup Over : turn' = [turn EXCEPT ![t] = r] /\ r \notin Live
  <1>. DEFINE r == IF t \in streams THEN [pc |-> "over", shows |-> q] ELSE NoTurn
  <1>1. r \in {NoTurn} \cup Over /\ turn' = [turn EXCEPT ![t] = r]
    BY DEF Over, Ends
  <1>2. r \notin Live
    BY <1>1, RecordFacts DEF InLine
  <1>. QED  BY <1>1, <1>2

LEMMA EndingMessages ==
  ASSUME IInv, NEW t \in Turns,
         \/ Complete(t) \/ Park(t) \/ GiveUp(t) \/ Errs(t) \/ Stall(t) \/ Cancel(t)
  PROVE  Messages'
  <1>1. RestType /\ Emptied /\ Texts /\ CoreType /\ turn[t] \in {NoTurn} \cup Live \cup Over
    BY DEF IInv, Core, CoreType
  <1>2. /\ cancels' = cancels \ {t}
        /\ UNCHANGED <<queue, heard, typed, posts, deletes, streams, bubbles, checking, fired>>
    BY DEF Complete, Park, GiveUp, Errs, Stall, Cancel, Ends, counts
  <1>3. PICK r \in {NoTurn} \cup Over : turn' = [turn EXCEPT ![t] = r] /\ r \notin Live
    <2>1. turn[t].pc = "asking" => asks # <<>> /\ Head(asks) \in Asks
      BY FirstLeaves DEF IInv, Core, AsksOK
    <2>. QED  BY <2>1, EndRecord DEF Complete, Park, GiveUp, Errs, Stall, Cancel, At
  <1>4. faults' \in 0 .. MaxFaults
    <2>1. faults \in 0 .. MaxFaults
      BY <1>1 DEF RestType
    <2>2. UNCHANGED faults \/ \E kind \in FaultKinds : Fault(kind)
      BY DEF Complete, Park, GiveUp, Errs, Stall, Cancel, counts, FaultKinds
    <2>. QED  BY <1>1, <2>1, <2>2, FaultCounts
  <1>5. Running(t) /\ excused \subseteq excused' /\ excused' \subseteq Msgs
        /\ (turn[t].says = {} \/ turn[t].says \subseteq excused')
    <2>1. Running(t) /\ turn[t] \in Live /\ turn[t].says \subseteq Msgs
      BY <1>1, TurnFacts, RecordFacts DEF Complete, Park, GiveUp, Errs, Stall, Cancel, At
    <2>2. CASE Stall(t) \/ Cancel(t)
      BY <1>1, <2>1, <2>2 DEF Stall, Cancel, RestType
    <2>3. CASE Complete(t) \/ Park(t) \/ GiveUp(t) \/ Errs(t)
      <3>1. turn[t].pc # "waiting" /\ excused' = excused
        BY <2>3 DEF Complete, Park, GiveUp, Errs, At
      <3>. QED  BY <1>1, <2>1, <3>1 DEF Emptied, RestType
    <2>. QED  BY <2>1, <2>2, <2>3
  <1>6. RestType'
    BY <1>1, <1>2, <1>4, <1>5, SameRest DEF RestType
  <1>7. Texts' /\ \A m : Queued(m)' <=> Queued(m)
    BY <1>1, <1>2 DEF Texts, Queued
  <1>. QED  BY <1>2, <1>3, <1>5, <1>6, <1>7, KeptWhenOneChanges DEF Messages

LEMMA HoldMessages ==
  ASSUME IInv, NEW t \in Turns, Hold(t)
  PROVE  Messages'
  <1>. DEFINE x == [id |-> "held", text |-> turn[t].says]
  <1>1. RestType /\ Emptied /\ Texts /\ CoreType
    BY DEF IInv, Core
  <1>2. /\ Running(t) /\ queue' = HeldQueue(t) /\ Ends(t, Head(asks)) /\ cancels' = cancels \ {t}
        /\ UNCHANGED <<heard, typed, posts, deletes, streams, bubbles, checking, excused, fired, faults>>
    BY DEF Hold, At, Ends, counts
  <1>3. Head(asks) \in Asks
    BY FirstLeaves DEF Hold, MustHold, IInv
  <1>4. PICK r \in {NoTurn} \cup Over : turn' = [turn EXCEPT ![t] = r] /\ r \notin Live
    BY <1>2, <1>3, EndRecord
  <1>5. turn[t].says \subseteq Msgs
    BY <1>1, <1>2, TurnFacts, RecordFacts
  <1>6. x \in Items /\ x.id = "held" /\ x.text = turn[t].says
    BY <1>5 DEF Items
  <1>7. /\ queue' \in Seq(Items) /\ Texts'
        /\ \A m : Queued(m) => Queued(m)'
        /\ \A m \in turn[t].says : Queued(m)'
    <2>1. CASE turn[t].says = {}
      <3>1. queue' = queue
        BY <1>2, <2>1 DEF HeldQueue
      <3>. QED  BY <1>1, <2>1, <3>1 DEF RestType, Texts, Queued
    <2>2. CASE turn[t].says # {}
      <3>1. queue' = Append(queue, x)
        BY <1>2, <2>2 DEF HeldQueue
      <3>. HIDE DEF x
      <3>. QED  BY <1>1, <1>6, <3>1, Appending
    <2>. QED  BY <2>1, <2>2
  <1>8. RestType'
    BY <1>1, <1>2, <1>7 DEF RestType
  <1>. HIDE DEF x
  <1>. QED  BY <1>2, <1>4, <1>7, <1>8, KeptWhenOneChanges DEF Messages

\* A turn that is past its start goes on with nothing to carry.
LEMMA GoingOnMessages ==
  ASSUME IInv, NEW t \in Turns,
         \/ Resume(t) \/ AutoAnswer(t) \/ ToolsRun(t) \/ Overflow(t) \/ Retry(t)
         \/ \E k \in 1 .. 2 : AsksUser(t, k)
  PROVE  Messages'
  <1>1. RestType /\ Emptied /\ CoreType
    BY DEF IInv, Core
  <1>2. /\ Running(t) /\ (turn[t].pc # "waiting" \/ turn[t].kind # "send") /\ turn[t] \in Live
        /\ turn[t].says = {}
    <2>1. Running(t) /\ (turn[t].pc # "waiting" \/ turn[t].kind # "send")
      BY DEF Resume, Resumes, AutoAnswer, ToolsRun, Overflow, Retry, AsksUser, At
    <2>. QED  BY <1>1, <2>1, TurnFacts DEF Emptied
  <1>3. UNCHANGED <<queue, heard, typed, posts, deletes, streams, bubbles, checking, excused, fired, cancels>>
    BY DEF Resume, AutoAnswer, ToolsRun, Overflow, Retry, AsksUser, console, counts
  <1>4. faults' \in 0 .. MaxFaults
    <2>1. UNCHANGED faults \/ Fault("overflow")
      BY DEF Resume, AutoAnswer, ToolsRun, Overflow, Retry, AsksUser, counts
    <2>. QED  BY <1>1, <2>1, FaultCounts DEF RestType
  <1>5. RestType'
    BY <1>1, <1>3, <1>4, SameRest DEF RestType
  <1>6. ASSUME NEW l \in Live, NEW p \in InLine
        PROVE  LET s == [l EXCEPT !.pc = p]
               IN  s \in Live /\ s.says = l.says
    BY AtPlace
  <1>7. \E r \in Live : turn' = [turn EXCEPT ![t] = r] /\ r.says = {}
    <2>. DEFINE next == IF Len(asks) = 1 THEN "call" ELSE "asking"
    <2>1. next \in {"call", "asking"} /\ {"call", "asking", "waiting"} \subseteq InLine
      BY DEF InLine
    <2>2. CASE Resume(t)
      <3>1. turn' = [turn EXCEPT ![t] = [turn[t] EXCEPT !.pc = next]]
        BY <2>2 DEF Resume
      <3>. HIDE DEF next
      <3>. QED  BY <1>2, <2>1, <3>1, <1>6
    <2>3. CASE AutoAnswer(t)
      <3>1. /\ turn' = [turn EXCEPT ![t] = [turn[t] EXCEPT !.tries = @ + 1, !.pc = next]]
            /\ turn[t].tries < AutoAnswers
        BY <2>3 DEF AutoAnswer
      <3>2. ASSUME NEW l \in Live, l.tries < AutoAnswers, NEW p \in {"call", "asking"}
            PROVE  LET s == [l EXCEPT !.tries = @ + 1, !.pc = p]
                   IN  s \in Live /\ s.says = l.says
        BY <3>2, Tried
      <3>. HIDE DEF next
      <3>. QED  BY <1>2, <2>1, <3>1, <3>2
    <2>4. CASE ToolsRun(t)
      <3>1. turn' = [turn EXCEPT ![t] = [turn[t] EXCEPT !.pc = "call"]]
        BY <2>4 DEF ToolsRun
      <3>. QED  BY <1>2, <2>1, <3>1, <1>6
    <2>5. CASE Overflow(t)
      <3>1. turn' = [turn EXCEPT ![t] = [turn[t] EXCEPT !.pc = "compacting", !.retried = TRUE]]
        BY <2>5 DEF Overflow
      <3>. QED  BY <1>2, <3>1, Overflown
    <2>6. CASE Retry(t)
      <3>1. turn' = [turn EXCEPT ![t] = [turn[t] EXCEPT !.pc = "waiting"]]
        BY <2>6 DEF Retry
      <3>. QED  BY <1>2, <2>1, <3>1, <1>6
    <2>7. CASE \E k \in 1 .. 2 : AsksUser(t, k)
      <3>1. turn' = [turn EXCEPT ![t] = [turn[t] EXCEPT !.pc = "asking"]]
        BY <2>7 DEF AsksUser
      <3>. QED  BY <1>2, <2>1, <3>1, <1>6
    <2>. QED  BY <2>2, <2>3, <2>4, <2>5, <2>6, <2>7
  <1>8. PICK r \in Live : turn' = [turn EXCEPT ![t] = r] /\ r.says = {}
    BY <1>7
  <1>. QED  BY <1>2, <1>3, <1>5, <1>8, CarriesNothing DEF Messages

LEMMA EnterMessages ==
  ASSUME IInv, NEW t \in Turns, Enter(t)
  PROVE  Messages'
  <1>1. RestType /\ Texts /\ CoreType /\ heard \in [Msgs -> Nat]
    BY DEF IInv, Core, RestType
  <1>2. Running(t) /\ turn[t] \in Live /\ turn[t].says \subseteq Msgs
    BY <1>1, TurnFacts, RecordFacts DEF Enter, At
  <1>. DEFINE r == [turn[t] EXCEPT !.pc = "call", !.says = {}]
  <1>3. /\ turn' = [turn EXCEPT ![t] = r] /\ r \in Live /\ r.says = {}
        /\ UNCHANGED <<queue, typed, posts, deletes, bubbles, checking, excused, cancels, streams, fired, faults>>
    <2>1. turn' = [turn EXCEPT ![t] = r]
          /\ UNCHANGED <<queue, typed, posts, deletes, bubbles, checking, excused, cancels, streams, fired, faults>>
      BY DEF Enter, console, counts
    <2>2. r \in Live /\ r.says = {}
      BY <1>2, Entered
    <2>. QED  BY <2>1, <2>2
  <1>. HIDE DEF r
  <1>4. /\ heard' \in [Msgs -> Nat]
        /\ \A m \in Msgs : heard[m] > 0 => heard'[m] > 0
        /\ \A m \in turn[t].says : heard'[m] > 0
    <2>1. /\ heard' = [m \in Msgs |-> IF m \in turn[t].says THEN heard[m] + 1 ELSE heard[m]]
          /\ \A m \in Msgs : heard[m] \in Nat /\ heard[m] + 1 \in Nat /\ heard[m] + 1 > 0
      BY <1>1 DEF Enter
    <2>. QED  BY <1>2, <2>1
  <1>5. RestType'
    BY <1>1, <1>3, <1>4 DEF RestType
  <1>6. Texts' /\ \A m : Queued(m)' <=> Queued(m)
    BY <1>1, <1>3 DEF Texts, Queued
  <1>. QED  BY <1>2, <1>3, <1>4, <1>5, <1>6, KeptWhenOneChanges DEF Messages

\* How often a message is in the queue.
LEMMA Occurrences ==
  ASSUME RestType, NEW m
  PROVE  /\ Cardinality({i \in DOMAIN queue : m \in queue[i].text}) \in Nat
         /\ Queued(m) => Cardinality({i \in DOMAIN queue : m \in queue[i].text}) # 0
  <1>. DEFINE S == {i \in DOMAIN queue : m \in queue[i].text}
  <1>1. DOMAIN queue = 1 .. Len(queue) /\ Len(queue) \in Nat
    BY Positions DEF RestType
  <1>2. IsFiniteSet(S)
    <2>1. IsFiniteSet(1 .. Len(queue)) /\ S \subseteq 1 .. Len(queue)
      BY <1>1, FS_Interval
    <2>. QED  BY <2>1, FS_Subset
  <1>3. Cardinality(S) \in Nat /\ (Cardinality(S) = 0 <=> S = {})
    BY <1>2, FS_CardinalityType, FS_EmptySet
  <1>4. Queued(m) => S # {}
    BY DEF Queued
  <1>. QED  BY <1>3, <1>4

LEMMA ModelCallMessages ==
  ASSUME IInv, NEW t \in Turns, ModelCall(t)
  PROVE  Messages'
  <1>1. RestType /\ CoreType /\ Emptied /\ heard \in [Msgs -> Nat]
    BY DEF IInv, Core, RestType
  <1>2. Running(t) /\ turn[t] \in Live /\ turn[t].calls < MaxCalls /\ turn[t].says = {}
    BY <1>1, TurnFacts DEF ModelCall, At, Emptied
  <1>. DEFINE r == [turn[t] EXCEPT !.pc = "thinking", !.calls = @ + 1]
              in(m) == Cardinality({i \in DOMAIN queue : m \in queue[i].text})
  <1>3. /\ turn' = [turn EXCEPT ![t] = r] /\ r \in Live /\ r.says = {}
        /\ UNCHANGED <<typed, posts, deletes, bubbles, checking, excused, cancels, streams, fired, faults>>
    <2>1. turn' = [turn EXCEPT ![t] = r]
          /\ UNCHANGED <<typed, posts, deletes, bubbles, checking, excused, cancels, streams, fired, faults>>
      BY DEF ModelCall, console, counts
    <2>2. r \in Live /\ r.says = {}
      BY <1>2, Called
    <2>. QED  BY <2>1, <2>2
  <1>. HIDE DEF r
  <1>4. queue' = <<>> /\ heard' = [m \in Msgs |-> heard[m] + in(m)]
    BY DEF ModelCall, Folds
  <1>5. \A m : in(m) \in Nat /\ (Queued(m) => in(m) # 0)
    BY <1>1, Occurrences
  <1>. HIDE DEF in
  <1>6. \A m \in Msgs : /\ heard'[m] = heard[m] + in(m) /\ heard[m] \in Nat /\ in(m) \in Nat
                        /\ Queued(m) => in(m) # 0
    BY <1>1, <1>4, <1>5
  <1>7. \A h, n \in Nat : h + n \in Nat /\ (n # 0 => h + n > 0) /\ (h > 0 => h + n > 0)
    OBVIOUS
  <1>8. /\ heard' \in [Msgs -> Nat]
        /\ \A m \in Msgs : heard[m] > 0 => heard'[m] > 0
        /\ \A m \in Msgs : Queued(m) => heard'[m] > 0
    BY <1>4, <1>6, <1>7
  <1>9. queue' \in Seq(Items) /\ DOMAIN queue' = {}
    BY <1>4, EmptySeq
  <1>10. RestType' /\ Texts'
    BY <1>1, <1>3, <1>8, <1>9 DEF RestType, Texts
  <1>. QED  BY <1>2, <1>3, <1>8, <1>10, KeptWhenOneChanges DEF Messages

LEMMA SettlingMessages ==
  ASSUME IInv, NEW t \in Turns, StreamEnds(t) \/ Stop(t)
  PROVE  Messages'
  <1>1. RestType /\ CoreType /\ Emptied /\ Texts /\ Kept
    BY DEF IInv, Core
  <1>2. UNCHANGED <<queue, heard, typed, posts, deletes, fired, excused>>
    BY DEF StreamEnds, Stop, counts
  <1>3. UNCHANGED turn \/ (turn' = [turn EXCEPT ![t] = NoTurn] /\ ~Running(t))
    BY DEF StreamEnds, Stop, Running
  <1>4. RestType'
    <2>1. faults' \in 0 .. MaxFaults
      <3>1. UNCHANGED faults \/ Fault("stop")
        BY DEF StreamEnds, Stop, counts
      <3>. QED  BY <1>1, <3>1, FaultCounts DEF RestType
    <2>2. checking' \subseteq Msgs /\ bubbles' \subseteq Msgs /\ streams' \subseteq Turns /\ cancels' \subseteq Turns
      BY <1>1 DEF StreamEnds, Stop, RestType
    <2>. QED  BY <1>1, <1>2, <2>1, <2>2 DEF RestType
  <1>5. CASE UNCHANGED turn
    BY <1>1, <1>2, <1>4, <1>5, SameMessages DEF Messages
  <1>6. CASE turn' = [turn EXCEPT ![t] = NoTurn] /\ ~Running(t)
    <2>1. NoTurn \notin Live
      BY RecordFacts DEF InLine
    <2>. QED  BY <1>2, <1>4, <1>6, <2>1, CarriesNothing DEF Messages
  <1>. QED  BY <1>3, <1>5, <1>6

LEMMA CrashMessages ==
  ASSUME IInv, Crash
  PROVE  Messages'
  <1>1. RestType /\ CoreType /\ typed \subseteq Msgs /\ \A m \in typed : Safe(m)
    BY SafeIsKept DEF IInv, Core, RestType
  <1>2. UNION {turn[t].says : t \in {u \in Turns : Running(u)}} \subseteq Msgs
    BY <1>1, TurnFacts, RecordFacts
  <1>3. excused' = excused \cup posts \cup {m \in Msgs : Queued(m)}
                           \cup UNION {turn[t].says : t \in {u \in Turns : Running(u)}}
    BY DEF Crash
  <1>4. faults' \in 0 .. MaxFaults
    BY <1>1, FaultCounts DEF Crash
  <1>5. queue' \in Seq(Items) /\ DOMAIN queue' = {}
    BY EmptySeq DEF Crash
  <1>6. RestType' /\ Texts'
    BY <1>1, <1>2, <1>3, <1>4, <1>5 DEF Crash, RestType, Texts
  <1>7. Emptied'
    BY RecordFacts DEF Crash, Emptied, Running
  <1>8. \A m \in typed' : Safe(m)'
    BY <1>1, <1>3 DEF Crash, Safe, Carried
  <1>9. (Kept <=> \A m \in typed : Safe(m))'
    BY DEF Kept, Safe, Carried
  <1>. QED  BY <1>6, <1>7, <1>8, <1>9 DEF Messages

LEMMA StutterMessages ==
  ASSUME IInv, UNCHANGED vars
  PROVE  Messages'
  BY DEF IInv, Messages, RestType, Emptied, Texts, Kept, Running, Queued, vars, server, console, counts

(***************************************************************************)
(* The invariant, and what it says.                                        *)
(***************************************************************************)

LEMMA MessagesStep ==
  ASSUME IInv, [Next]_vars
  PROVE  Messages'
  <1>1. ASSUME NEW t \in Turns, TurnNext(t)
        PROVE  Messages'
    BY <1>1, LinesUpMessages, HoldMessages, GoingOnMessages, EnterMessages, ModelCallMessages,
       EndingMessages DEF TurnNext
  <1>2. CASE ConsoleNext
    BY <1>2, LinesUpMessages, SameTurnsMessages, ArrivesMessages, DequeueMessages, SettlingMessages
       DEF ConsoleNext
  <1>. QED  BY <1>1, <1>2, CrashMessages, StutterMessages DEF Next

LEMMA Initially ==
  Init => IInv
  <1>. SUFFICES ASSUME Init PROVE IInv
    OBVIOUS
  <1>1. queue \in Seq(Items) /\ DOMAIN queue = {} /\ typed = {}
    BY EmptySeq DEF Init
  <1>2. RestType
    BY <1>1 DEF Init, RestType
  <1>3. Emptied /\ Texts /\ Kept
    BY <1>1, RecordFacts DEF Init, Emptied, Texts, Kept, Running
  <1>. QED  BY <1>2, <1>3, CoreInit DEF IInv

LEMMA Inductive ==
  IInv /\ [Next]_vars => IInv'
  <1>. SUFFICES ASSUME IInv, [Next]_vars PROVE IInv'
    OBVIOUS
  <1>1. Core'
    BY CoreStep DEF IInv, RestType
  <1>2. Messages'
    BY MessagesStep
  <1>. QED  BY <1>1, <1>2 DEF IInv, Messages

LEMMA Invariance ==
  Spec => []IInv
  BY Initially, Inductive, PTL DEF Spec

\* Types: every state of a session is one the declarations describe, the queue
\* holds only items of the operator, and no count passes its bound.
THEOREM TypeCorrect ==
  Spec => []TypeOK
  <1>1. IInv => TypeOK
    BY DEF IInv, Core, CoreType, RestType, TypeOK
  <1>. QED  BY <1>1, Invariance, PTL

\* What the operator typed is never lost, whatever is posted late, withdrawn too
\* late, held behind a form, stopped, stalled or overflowing, and when the process
\* restarts: it is with the model, under way, queued or carried, or was excused.
THEOREM MessagesKept ==
  Spec => []Kept
  <1>1. IInv => Kept
    BY DEF IInv
  <1>. QED  BY <1>1, Invariance, PTL

\* The lock of a thread is never shared and never leaked: one turn works at a
\* time, at the head of the line, and who stands in the line is a turn that
\* still waits or works, each once.
THEOREM LockIsKept ==
  Spec => []OneAtATime
  <1>1. IInv => OneAtATime
    <2>. SUFFICES ASSUME IInv PROVE OneAtATime
      OBVIOUS
    <2>1. /\ LockOK /\ line \in Seq(Turns) /\ DOMAIN line = 1 .. Len(line)
          /\ \A t \in Turns : turn[t] \in {NoTurn} \cup Live \cup Over
      BY Positions DEF IInv, Core, CoreType
    <2>2. \A t, u \in Turns : {turn[t].pc, turn[u].pc} \subseteq Working => t = u
      BY <2>1, OneWorks DEF LockOK
    <2>3. \A t \in Turns : turn[t].pc \in InLine <=> Running(t) /\ turn[t].pc # "compacting"
      BY <2>1, RecordFacts DEF Running, InLine
    <2>4. \A i, j \in DOMAIN line : line[i] = line[j] => i = j
      BY <2>1 DEF LockOK, Distinct
    <2>. QED  BY <2>1, <2>2, <2>3, <2>4 DEF OneAtATime, LockOK, Working
  <1>. QED  BY <1>1, Invariance, PTL

\* No model call is made on a thread with a question open.
THEOREM ThreadIsWhole ==
  Spec => []CalledOnWhole
  <1>1. IInv => CalledOnWhole
    BY DEF IInv, Core, AsksOK, CalledOnWhole
  <1>. QED  BY <1>1, Invariance, PTL

(***************************************************************************)
(* Questions and their answers.                                            *)
(***************************************************************************)

Answered(a) ==
  a.auto \/ (LET by == turn[Head(line)] IN
    \/ by.kind = "auto" \/ by.retried
    \/ by.kind = "answer" /\ by.answers \notin PendingAsks \ {a})

LEMMA AnswersItsOwn ==
  ASSUME Core, NEW t \in Turns, Resume(t), NEW a \in Leaving
  PROVE  Answered(a)
  <1>1. /\ CoreType /\ Running(t) /\ Head(line) = t /\ turn[t].kind = "answer"
        /\ asks # <<>> /\ asks' = Tail(asks)
    BY DEF Core, Resume, Resumes, At, Holds
  <1>2. a = Head(asks)
    BY <1>1, FirstLeaves DEF Leaving, PendingAsks
  <1>3. turn[t].answers \in Asks \cup {NoAsk} /\ First(turn[t].answers)
    BY <1>1, TurnFacts, RecordFacts DEF Core, ShownOK
  <1>4. PendingAsks \subseteq Asks
    BY <1>1, Positions DEF PendingAsks, CoreType
  <1>5. turn[t].answers \notin PendingAsks \ {a}
    BY <1>2, <1>3, <1>4 DEF First
  <1>. QED  BY <1>1, <1>5 DEF Answered

LEMMA AbandonedUnwatched ==
  ASSUME Core, NEW t \in Turns, Enter(t) \/ AutoAnswer(t) \/ GiveUp(t), NEW a \in Leaving
  PROVE  Answered(a)
  <1>1. CASE Enter(t)
    <2>1. /\ CoreType /\ Running(t) /\ Head(line) = t
          /\ ~MustHold(t) /\ ~Resumes(t)
      BY <1>1 DEF Core, Enter, At, Holds
    <2>2. asks # <<>>
      BY EmptyLine DEF Leaving, PendingAsks
    <2>3. turn[t].kind \in {"send", "answer", "auto"} /\ turn[t].retried \in BOOLEAN
      BY <2>1, TurnFacts DEF Live
    <2>. QED  BY <2>1, <2>2, <2>3 DEF MustHold, Resumes, Answered
  <1>2. CASE AutoAnswer(t) \/ GiveUp(t)
    <2>1. Running(t) /\ turn[t].pc \in Working /\ turn[t].kind = "auto"
      BY <1>2 DEF AutoAnswer, GiveUp, At, Working
    <2>. QED  BY <2>1, HolderWorks DEF Holds, Answered
  <1>. QED  BY <1>1, <1>2

LEMMA NothingLeaves ==
  ASSUME UNCHANGED asks \/ asks = <<>>
  PROVE  Leaving = {}
  BY EmptyLine DEF Leaving, PendingAsks

LEMMA LeavingStep ==
  ASSUME IInv, [Next]_vars, NEW a \in Leaving
  PROVE  Answered(a)
  <1>1. Core
    BY DEF IInv
  <1>2. ASSUME NEW t \in Turns, TurnNext(t)
        PROVE  Answered(a)
    <2>1. CASE Resume(t) \/ Enter(t) \/ AutoAnswer(t) \/ GiveUp(t)
      BY <1>1, <2>1, AnswersItsOwn, AbandonedUnwatched
    <2>2. CASE \E k \in 1 .. 2 : AsksUser(t, k)
      BY <1>1, <2>2, AsksUserCore, NothingLeaves
    <2>3. CASE \/ Fires(t) \/ Hold(t) \/ ModelCall(t) \/ ToolsRun(t) \/ Complete(t) \/ Park(t)
               \/ Errs(t) \/ Overflow(t) \/ Retry(t) \/ Stall(t) \/ Cancel(t)
      <3>1. UNCHANGED asks
        BY <2>3 DEF Fires, Hold, ModelCall, ToolsRun, Complete, Park, Errs, Overflow, Retry, Stall, Cancel
      <3>. QED  BY <3>1, NothingLeaves
    <2>. QED  BY <1>2, <2>1, <2>2, <2>3 DEF TurnNext
  <1>3. CASE ConsoleNext \/ Crash
    <2>1. UNCHANGED asks
      BY <1>3 DEF ConsoleNext, Crash, Send, QueueSteer, SteerArrives, SteerFails, CancelSteer, Dequeue,
                  StreamEnds, ResendQueued, AnswerForm, Stop, Poll, KeepQueued, SettleQueued, server
    <2>. QED  BY <2>1, NothingLeaves
  <1>4. CASE UNCHANGED vars
    <2>1. UNCHANGED asks
      BY <1>4 DEF vars, server
    <2>. QED  BY <2>1, NothingLeaves
  <1>. QED  BY <1>2, <1>3, <1>4 DEF Next

\* A pending question is answered or dismissed with an answer of its own: a
\* message, a stale answer and a turn that is stopped never consume it.  Only a
\* turn nobody watches, or a retry after an overflow, may abandon it.
THEOREM AnswersTheirOwn ==
  Spec => OwnAnswer
  <1>1. IInv /\ [Next]_vars
        => [\A a \in Leaving : a.auto \/ (LET by == turn[Head(line)] IN
              \/ by.kind = "auto" \/ by.retried
              \/ by.kind = "answer" /\ by.answers \notin PendingAsks \ {a})]_vars
    BY LeavingStep DEF Answered
  <1>. QED  BY <1>1, Invariance, PTL DEF Spec, OwnAnswer
===========================================================================
