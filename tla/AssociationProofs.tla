-------------------------- MODULE AssociationProofs --------------------------
(***************************************************************************)
(* The safety of the message organizer, for every set of consumers, every  *)
(* number of frames and every number of lost and repeated messages:        *)
(* Invariant is inductive, and with it nothing is dropped, and as long as  *)
(* no message is repeated, batches are given up for good and complete ones *)
(* leave in the order of their frames.                                     *)
(*                                                                         *)
(* And what the incident manager may do with an incident, and what it may  *)
(* believe of its row, for every number of operators at once, incidents,   *)
(* requests and lost messages.  The first needs only the types.  The       *)
(* second needs to know where every message came from: what is about to be *)
(* published, what is on its way and what was pulled an operator wrote in  *)
(* the row it is about.                                                    *)
(***************************************************************************)
EXTENDS MCAssociation, FiniteSetTheorems, SequenceTheorems, WellFoundedInduction, TLAPS

\* The order of the numbers as a set of pairs is well-founded.
LessThan == {pair \in Nat \X Nat : pair[1] < pair[2]}
\* A set of numbers has a least one.
LEMMA LessThanIsWellFounded == IsWellFoundedOn(LessThan, Nat)
  BY NatLessThanWellFounded, Zenon DEF OpToRel, LessThan

\* A nonempty set of numbers up to n has a greatest.
LEMMA GreatestExists ==
    ASSUME NEW n \in Nat, NEW S, S \subseteq 1..n, S # {}
    PROVE  \E m \in S : \A k \in S : m >= k
<1> DEFINE T == {n - k : k \in S}
<1>1. T \subseteq Nat /\ T # {}
  <2>1. \A k \in S : k \in Nat /\ n - k \in Nat
    OBVIOUS
  <2> QED BY <2>1
<1>2. PICK x \in T : \A y \in T : ~(<<y, x>> \in LessThan)
  <2> HIDE DEF T
  <2> QED BY <1>1, LessThanIsWellFounded, WFMin
<1>3. \A y \in T : ~(y < x)
  <2> HIDE DEF T
  <2> QED BY <1>1, <1>2 DEF LessThan
<1>4. PICK m \in S : x = n - m
  BY <1>2
<1>5. ASSUME NEW k \in S PROVE m >= k
  <2>1. ~(n - k < n - m)
    BY <1>3, <1>4
  <2> QED BY <2>1
<1> QED BY <1>5

\* The scan stops at a complete batch of the dictionary, or nowhere; no batch
\* behind it is complete.
LEMMA LastCompleteShape ==
    ASSUME order \in Seq(Frames)
    PROVE  /\ LastComplete \in 0..Len(order)
           /\ LastComplete > 0 => messages[order[LastComplete]] = KeySet
           /\ \A i \in 1..Len(order) : messages[order[i]] = KeySet => i <= LastComplete
<1> DEFINE I == {i \in 1..Len(order) : Complete(order[i])}
<1>1. LastComplete = IF I # {} THEN Max(I) ELSE 0
  BY DEF LastComplete, SelectLastInSeq
<1>2. ASSUME I # {} PROVE Max(I) \in I /\ \A i \in I : Max(I) >= i
  <2>1. \E m \in I : \A k \in I : m >= k
    <3> HIDE DEF I
    <3>1. Len(order) \in Nat /\ I \subseteq 1..Len(order)
      BY DEF I
    <3> QED BY <3>1, <1>2, GreatestExists
  <2> QED BY <2>1 DEF Max
<1>3. CASE I = {}
  BY <1>1, <1>3 DEF Complete
<1>4. CASE I # {}
  BY <1>1, <1>2, <1>4 DEF Complete
<1> QED BY <1>3, <1>4

\* What a scan does, element by element.
LEMMA ScanShape ==
    ASSUME TypeOK, Scan
    PROVE  \E n \in 0..Len(order) :
               /\ n > 0 => messages[order[n]] = KeySet
               /\ \A i \in 1..Len(order) : messages[order[i]] = KeySet => i <= n
               /\ order' \in Seq(Frames) /\ Len(order') = Len(order) - n
               /\ \A i \in 1..Len(order') : order'[i] = order[n + i]
               /\ messages' = [f \in Frames |->
                      IF \E i \in 1..n : order[i] = f THEN {} ELSE messages[f]]
               /\ pushed' \in Seq(Frames \X SUBSET KeySet)
               /\ Len(pushed') = Len(pushed) + n
               /\ \A i \in 1..Len(pushed) : pushed'[i] = pushed[i]
               /\ \A i \in 1..n :
                      pushed'[Len(pushed) + i] = <<order[i], messages[order[i]]>>
<1> DEFINE n == LastComplete
           s == SubSeq(order, 1, n)
           b == Batches(s)
<1>1. /\ n \in 0..Len(order)
      /\ n > 0 => messages[order[n]] = KeySet
      /\ \A i \in 1..Len(order) : messages[order[i]] = KeySet => i <= n
  BY LastCompleteShape DEF TypeOK
<1> HIDE DEF n
<1>2. Len(order) \in Nat /\ \A i \in 1..Len(order) : order[i] \in Frames
  BY LenProperties DEF TypeOK
<1>3. s \in Seq(Frames) /\ Len(s) = n /\ \A i \in 1..n : s[i] = order[i]
  BY <1>1, <1>2, SubSeqProperties
<1>4. b \in Seq(Frames \X SUBSET KeySet) /\ Len(b) = n
      /\ \A i \in 1..n : b[i] = <<order[i], messages[order[i]]>>
  <2> HIDE DEF s
  <2>1. b = [i \in 1..n |-> <<order[i], messages[order[i]]>>]
    BY <1>1, <1>3, LenProperties DEF Batches
  <2>2. \A i \in 1..n : <<order[i], messages[order[i]]>> \in Frames \X SUBSET KeySet
    BY <1>1, <1>2 DEF TypeOK
  <2> HIDE DEF b
  <2> QED BY <1>1, <2>1, <2>2
<1>5. pushed' = pushed \o b
  BY DEF Scan, n
<1>6. /\ pushed' \in Seq(Frames \X SUBSET KeySet)
      /\ Len(pushed') = Len(pushed) + n
      /\ \A i \in 1..Len(pushed) : pushed'[i] = pushed[i]
      /\ \A i \in 1..n : pushed'[Len(pushed) + i] = <<order[i], messages[order[i]]>>
  <2> HIDE DEF b
  <2>1. pushed \in Seq(Frames \X SUBSET KeySet) /\ Len(pushed) \in Nat
    BY LenProperties DEF TypeOK
  <2>2. /\ pushed \o b \in Seq(Frames \X SUBSET KeySet)
        /\ Len(pushed \o b) = Len(pushed) + Len(b)
        /\ \A i \in 1..Len(pushed) + Len(b) :
               (pushed \o b)[i] = IF i <= Len(pushed) THEN pushed[i] ELSE b[i - Len(pushed)]
    <3> HIDE DEF Frames, KeySet
    <3> QED BY <1>4, <2>1, ConcatProperties, Zenon
  <2>3. ASSUME NEW i \in 1..n PROVE pushed'[Len(pushed) + i] = b[i]
    <3>1. Len(pushed) + i \in 1..Len(pushed) + Len(b) /\ ~(Len(pushed) + i <= Len(pushed))
      BY <1>1, <1>4, <2>1
    <3>2. Len(pushed) + i - Len(pushed) = i
      BY <1>1, <2>1
    <3>3. (pushed \o b)[Len(pushed) + i] = b[Len(pushed) + i - Len(pushed)]
      BY <2>2, <3>1
    <3> QED BY <1>5, <3>2, <3>3
  <2>4. ASSUME NEW i \in 1..Len(pushed) PROVE pushed'[i] = pushed[i]
    <3>1. i \in 1..Len(pushed) + Len(b) /\ i <= Len(pushed)
      BY <1>1, <1>4, <2>1
    <3> QED BY <1>5, <2>2, <3>1
  <2> QED BY <1>4, <1>5, <2>2, <2>3, <2>4
<1>7. order' = SubSeq(order, n + 1, Len(order))
  BY DEF Scan, Delete, n
<1>8. /\ order' \in Seq(Frames) /\ Len(order') = Len(order) - n
      /\ \A i \in 1..Len(order') : order'[i] = order[n + i]
  BY <1>1, <1>2, <1>7, SubSeqProperties
<1>9. messages' = [f \in Frames |->
          IF \E i \in 1..n : order[i] = f THEN {} ELSE messages[f]]
  <2>1. messages' = [f \in Frames |-> IF f \in ToSet(s) THEN {} ELSE messages[f]]
    BY DEF Scan, Delete, n
  <2>2. ToSet(s) = {order[i] : i \in 1..n}
    <3> HIDE DEF s
    <3> QED BY <1>1, <1>3, LenProperties DEF ToSet
  <2> QED BY <2>1, <2>2
<1> QED BY <1>1, <1>6, <1>8, <1>9

-----------------------------------------------------------------------------
\* What a queue holds after a message was appended, repeated, or taken.
LEMMA AppendContains ==
    ASSUME NEW S, NEW s \in Seq(S), NEW e \in S
    PROVE  /\ Append(s, e) \in Seq(S)
           /\ \A x : Contains(Append(s, e), x) <=> Contains(s, x) \/ x = e
<1> DEFINE t == Append(s, e)
<1>1. /\ t \in Seq(S) /\ Len(s) \in Nat /\ Len(t) = Len(s) + 1
      /\ t[Len(s) + 1] = e /\ \A i \in 1..Len(s) : t[i] = s[i]
  OBVIOUS
<1> HIDE DEF t
<1>2. ASSUME NEW i \in 1..Len(t) PROVE Contains(s, t[i]) \/ t[i] = e
  BY <1>1 DEF Contains
<1>3. ASSUME NEW i \in 1..Len(s) PROVE Contains(t, s[i])
  BY <1>1 DEF Contains
<1>4. Contains(t, e)
  BY <1>1 DEF Contains
<1>5. \A x : Contains(t, x) <=> Contains(s, x) \/ x = e
  BY <1>2, <1>3, <1>4 DEF Contains
<1> QED BY <1>1, <1>5 DEF t

\* An element put in twice is held, and so is all that was.
LEMMA RepeatContains ==
    ASSUME NEW S, NEW s \in Seq(S), NEW e \in S
    PROVE  /\ s \o <<e, e>> \in Seq(S)
           /\ \A x : Contains(s, x) \/ x = e => Contains(s \o <<e, e>>, x)
<1> DEFINE t == Append(s, e)
<1>1. s \o <<e, e>> = Append(t, e)
  OBVIOUS
<1>2. t \in Seq(S)
  OBVIOUS
<1>3. /\ Append(t, e) \in Seq(S)
      /\ \A x : Contains(Append(t, e), x) <=> Contains(t, x) \/ x = e
  <2> HIDE DEF t
  <2> QED BY <1>2, AppendContains
<1>4. \A x : Contains(t, x) <=> Contains(s, x) \/ x = e
  BY AppendContains
<1> QED
  <2> HIDE DEF t
  <2> QED BY <1>1, <1>3, <1>4

\* A sequence holds its head and what its tail holds.
LEMMA TailContains ==
    ASSUME NEW S, NEW s \in Seq(S), s # <<>>
    PROVE  /\ Head(s) \in S
           /\ Tail(s) \in Seq(S)
           /\ \A x : Contains(s, x) <=> Contains(Tail(s), x) \/ x = Head(s)
<1>1. \A x : Contains(s, x) => Contains(Tail(s), x) \/ x = Head(s)
  <2> SUFFICES ASSUME NEW i \in 1..Len(s) PROVE Contains(Tail(s), s[i]) \/ s[i] = Head(s)
    BY DEF Contains
  <2>1. CASE i = 1
    BY <2>1
  <2>2. CASE i # 1
    <3>1. i - 1 \in 1..Len(Tail(s)) /\ Tail(s)[i - 1] = s[i]
      BY <2>2
    <3> QED BY <3>1 DEF Contains
  <2> QED BY <2>1, <2>2
<1>2. \A x : Contains(Tail(s), x) => Contains(s, x)
  <2> SUFFICES ASSUME NEW i \in 1..Len(Tail(s)) PROVE Contains(s, Tail(s)[i])
    BY DEF Contains
  <2>1. i + 1 \in 1..Len(s) /\ s[i + 1] = Tail(s)[i]
    OBVIOUS
  <2> QED BY <2>1 DEF Contains
<1>3. Contains(s, Head(s))
  BY DEF Contains
<1> QED BY <1>1, <1>2, <1>3

-----------------------------------------------------------------------------
\* The message of the next frame changes one queue only, by appending.
LEMMA ArriveShape ==
    ASSUME TypeOK, NEW k \in KeySet, Broker(k)
    PROVE  /\ next[k] \in Frames
           /\ next' = [next EXCEPT ![k] = @ + 1]
           /\ UNCHANGED <<turn, order, messages, pushed>>
           /\ queue' \in [KeySet -> Seq(Frames)]
           /\ \A c \in KeySet \ {k} : queue'[c] = queue[c]
           /\ \A f : Contains(queue[k], f) => Contains(queue'[k], f)
           /\ \/ <<k, next[k]>> \in lost' /\ queue' = queue
              \/ lost' = lost /\ Contains(queue'[k], next[k])
           /\ lost \subseteq lost' /\ lost' \subseteq KeySet \X Frames
           /\ again' \in 0..MaxAgain
<1>1. CASE Arrive(k)
  <2>1. /\ Append(queue[k], next[k]) \in Seq(Frames)
        /\ \A f : Contains(Append(queue[k], next[k]), f) <=> Contains(queue[k], f) \/ f = next[k]
    BY <1>1, AppendContains DEF TypeOK, Arrive, Advance
  <2> QED BY <1>1, <2>1 DEF TypeOK, Arrive, Advance
<1>2. CASE Lose(k)
  BY <1>2 DEF TypeOK, Lose, Advance
<1>3. CASE ArriveTwice(k)
  <2>1. /\ queue[k] \o <<next[k], next[k]>> \in Seq(Frames)
        /\ \A f : Contains(queue[k], f) \/ f = next[k]
                   => Contains(queue[k] \o <<next[k], next[k]>>, f)
    <3>1. queue[k] \in Seq(Frames) /\ next[k] \in Frames
      BY <1>3 DEF TypeOK, ArriveTwice, Advance
    <3> QED BY <3>1, RepeatContains
  <2>2. again' \in 0..MaxAgain
    BY <1>3, FrameSyncAssumption DEF TypeOK, ArriveTwice
  <2> QED BY <1>3, <2>1, <2>2 DEF TypeOK, ArriveTwice, Advance
<1> QED BY <1>1, <1>2, <1>3 DEF Broker

\* A poll moves the oldest message of one queue into the batch of its frame.
LEMMA PollShape ==
    ASSUME TypeOK, Poll
    PROVE  /\ turn' \in 1..Len(Keys) + 1
           /\ UNCHANGED <<next, lost, again, pushed>>
           /\ \/ UNCHANGED <<queue, order, messages>>
              \/ \E k \in KeySet :
                    LET f == Head(queue[k])
                    IN  /\ queue[k] # <<>> /\ f \in Frames
                        /\ Tail(queue[k]) \in Seq(Frames)
                        /\ \A g : Contains(queue[k], g) <=> Contains(Tail(queue[k]), g) \/ g = f
                        /\ queue' = [queue EXCEPT ![k] = Tail(@)]
                        /\ messages' = [messages EXCEPT ![f] = @ \cup {k}]
                        /\ order' = IF messages[f] = {} THEN Append(order, f) ELSE order
<1>1. turn \in 1..Len(Keys) /\ Keys[turn] \in KeySet
  BY FrameSyncAssumption DEF TypeOK, Poll, KeySet
<1>2. turn' \in 1..Len(Keys) + 1 /\ UNCHANGED <<next, lost, again, pushed>>
  BY <1>1, FrameSyncAssumption DEF Poll
<1>3. CASE queue[Keys[turn]] = <<>>
  BY <1>2, <1>3 DEF Poll
<1>4. CASE queue[Keys[turn]] # <<>>
  <2> DEFINE k == Keys[turn]
  <2>1. /\ Head(queue[k]) \in Frames
        /\ Tail(queue[k]) \in Seq(Frames)
        /\ \A g : Contains(queue[k], g) <=> Contains(Tail(queue[k]), g) \/ g = Head(queue[k])
    <3>1. queue[k] \in Seq(Frames)
      BY <1>1 DEF TypeOK
    <3> QED BY <1>4, <3>1, TailContains
  <2>2. /\ queue' = [queue EXCEPT ![k] = Tail(@)]
        /\ messages' = [messages EXCEPT ![Head(queue[k])] = @ \cup {k}]
        /\ order' = IF messages[Head(queue[k])] = {} THEN Append(order, Head(queue[k]))
                    ELSE order
    BY <1>4 DEF Poll
  <2>3. k \in KeySet /\ queue[k] # <<>>
    BY <1>1, <1>4
  <2> HIDE DEF k
  <2> QED BY <1>2, <2>1, <2>2, <2>3
<1> QED BY <1>3, <1>4

\* Type correctness is preserved.
LEMMA Typing == TypeOK /\ [Next]_vars => TypeOK'
<1> SUFFICES ASSUME TypeOK, [Next]_vars PROVE TypeOK'
  OBVIOUS
<1>1. ASSUME NEW k \in KeySet, Broker(k) PROVE TypeOK'
  <2>1. next' \in [KeySet -> 1..MaxFrame + 1]
    <3>1. next[k] \in Frames /\ next' = [next EXCEPT ![k] = @ + 1]
      BY <1>1, ArriveShape
    <3> QED BY <3>1, FrameSyncAssumption DEF TypeOK, Frames
  <2> QED BY <1>1, <2>1, ArriveShape DEF TypeOK
<1>2. CASE Poll
  <2>1. order' \in Seq(Frames) /\ queue' \in [KeySet -> Seq(Frames)]
        /\ messages' \in [Frames -> SUBSET KeySet]
    <3>1. CASE UNCHANGED <<queue, order, messages>>
      BY <3>1 DEF TypeOK
    <3>2. ASSUME NEW k \in KeySet, NEW f \in Frames,
                 Tail(queue[k]) \in Seq(Frames),
                 queue' = [queue EXCEPT ![k] = Tail(@)],
                 messages' = [messages EXCEPT ![f] = @ \cup {k}],
                 order' = IF messages[f] = {} THEN Append(order, f) ELSE order
          PROVE  order' \in Seq(Frames) /\ queue' \in [KeySet -> Seq(Frames)]
                 /\ messages' \in [Frames -> SUBSET KeySet]
      <4>1. Append(order, f) \in Seq(Frames)
        BY AppendContains DEF TypeOK
      <4> QED BY <3>2, <4>1 DEF TypeOK
    <3> QED BY <1>2, <3>1, <3>2, PollShape
  <2>2. turn' \in 1..Len(Keys) + 1 /\ UNCHANGED <<next, lost, again, pushed>>
    BY <1>2, PollShape
  <2> QED BY <2>1, <2>2 DEF TypeOK
<1>3. CASE Scan
  <2>1. /\ order' \in Seq(Frames)
        /\ messages' \in [Frames -> SUBSET KeySet]
        /\ pushed' \in Seq(Frames \X SUBSET KeySet)
    BY <1>3, ScanShape DEF TypeOK
  <2> QED BY <1>3, <2>1, FrameSyncAssumption DEF TypeOK, Scan, Delete
<1>4. CASE UNCHANGED vars
  BY <1>4 DEF TypeOK, vars
<1> QED BY <1>1, <1>2, <1>3, <1>4 DEF Next, Organizer

-----------------------------------------------------------------------------
\* Nothing that reached a consumer is lost by the organizer.
LEMMA Delivery ==
    ASSUME TypeOK, NothingDropped, [Next]_vars
    PROVE  NothingDropped'
<1>1. ASSUME NEW k \in KeySet, Broker(k) PROVE NothingDropped'
  <2> SUFFICES ASSUME NEW c \in KeySet, NEW f \in Frames, f < next'[c], <<c, f>> \notin lost'
               PROVE  Contains(queue'[c], f) \/ c \in messages'[f] \/ Pushed(f, c)'
    BY DEF NothingDropped
  <2>1. /\ next[k] \in Frames /\ next' = [next EXCEPT ![k] = @ + 1]
        /\ messages' = messages /\ pushed' = pushed /\ lost \subseteq lost'
        /\ Contains(queue[c], f) => Contains(queue'[c], f)
        /\ <<k, next[k]>> \in lost' \/ Contains(queue'[k], next[k])
    BY <1>1, ArriveShape
  <2>2. CASE f < next[c]
    <3>1. Contains(queue[c], f) \/ c \in messages[f] \/ Pushed(f, c)
      BY <2>1, <2>2 DEF NothingDropped
    <3> QED BY <2>1, <3>1 DEF Pushed
  <2>3. CASE ~(f < next[c])
    <3>1. c = k /\ f = next[k]
      BY <2>1, <2>3 DEF TypeOK, Frames
    <3> QED BY <2>1, <3>1
  <2> QED BY <2>2, <2>3
<1>2. CASE Poll
  <2> SUFFICES ASSUME NEW c \in KeySet, NEW f \in Frames, f < next'[c], <<c, f>> \notin lost'
               PROVE  Contains(queue'[c], f) \/ c \in messages'[f] \/ Pushed(f, c)'
    BY DEF NothingDropped
  <2>1. next' = next /\ lost' = lost /\ pushed' = pushed
    BY <1>2, PollShape
  <2>2. Contains(queue[c], f) \/ c \in messages[f] \/ Pushed(f, c)
    BY <2>1 DEF NothingDropped
  <2>3. CASE UNCHANGED <<queue, order, messages>>
    BY <2>1, <2>2, <2>3 DEF Pushed
  <2>4. ASSUME NEW k \in KeySet, NEW g \in Frames,
               \A h : Contains(queue[k], h) <=> Contains(Tail(queue[k]), h) \/ h = g,
               queue' = [queue EXCEPT ![k] = Tail(@)],
               messages' = [messages EXCEPT ![g] = @ \cup {k}]
        PROVE  Contains(queue'[c], f) \/ c \in messages'[f] \/ Pushed(f, c)'
    <3>1. Pushed(f, c) => Pushed(f, c)'
      BY <2>1 DEF Pushed
    <3>2. c \in messages[f] => c \in messages'[f]
      BY <2>4 DEF TypeOK
    <3>3. Contains(queue[c], f) => Contains(queue'[c], f) \/ c \in messages'[f]
      BY <2>4 DEF TypeOK
    <3> QED BY <2>2, <3>1, <3>2, <3>3
  <2> QED BY <1>2, <2>3, <2>4, PollShape
<1>3. CASE Scan
  <2> SUFFICES ASSUME NEW c \in KeySet, NEW f \in Frames, f < next'[c], <<c, f>> \notin lost'
               PROVE  Contains(queue'[c], f) \/ c \in messages'[f] \/ Pushed(f, c)'
    BY DEF NothingDropped
  <2>1. next' = next /\ lost' = lost /\ queue' = queue
    BY <1>3 DEF Scan, Delete
  <2>2. PICK n \in 0..Len(order) :
          /\ messages' = [g \in Frames |-> IF \E i \in 1..n : order[i] = g THEN {} ELSE messages[g]]
          /\ Len(pushed') = Len(pushed) + n
          /\ pushed' \in Seq(Frames \X SUBSET KeySet)
          /\ \A i \in 1..Len(pushed) : pushed'[i] = pushed[i]
          /\ \A i \in 1..n : pushed'[Len(pushed) + i] = <<order[i], messages[order[i]]>>
    BY <1>3, ScanShape
  <2>3. /\ DOMAIN pushed = 1..Len(pushed) /\ Len(pushed) \in Nat
        /\ DOMAIN pushed' = 1..Len(pushed) + n /\ n \in Nat
    BY <2>2, LenProperties DEF TypeOK
  <2>4. CASE Contains(queue[c], f)
    BY <2>1, <2>4
  <2>5. CASE Pushed(f, c)
    <3>1. PICK i \in 1..Len(pushed) : pushed[i][1] = f /\ c \in pushed[i][2]
      BY <2>3, <2>5 DEF Pushed
    <3>2. i \in DOMAIN pushed' /\ pushed'[i] = pushed[i]
      BY <2>2, <2>3
    <3> QED BY <3>1, <3>2 DEF Pushed
  <2>6. CASE c \in messages[f]
    <3>1. CASE \E i \in 1..n : order[i] = f
      <4>1. PICK i \in 1..n : order[i] = f
        BY <3>1
      <4>2. Len(pushed) + i \in DOMAIN pushed'
        BY <2>3, <4>1
      <4>3. pushed'[Len(pushed) + i] = <<f, messages[f]>>
        BY <2>2, <4>1
      <4> QED BY <2>6, <4>2, <4>3 DEF Pushed
    <3>2. CASE ~\E i \in 1..n : order[i] = f
      BY <2>2, <2>6, <3>2
    <3> QED BY <3>1, <3>2
  <2>7. Contains(queue[c], f) \/ c \in messages[f] \/ Pushed(f, c)
    BY <2>1 DEF NothingDropped
  <2> QED BY <2>4, <2>5, <2>6, <2>7
<1>4. CASE UNCHANGED vars
  BY <1>4 DEF NothingDropped, Pushed, vars
<1> QED BY <1>1, <1>2, <1>3, <1>4 DEF Next, Organizer

-----------------------------------------------------------------------------
\* The dictionary holds one batch for each frame it has messages of.
LEMMA Dictionary ==
    ASSUME TypeOK, TypeOK', DictionaryMatches, [Next]_vars
    PROVE  DictionaryMatches'
<1>1. /\ DOMAIN order = 1..Len(order) /\ Len(order) \in Nat
      /\ DOMAIN order' = 1..Len(order') /\ Len(order') \in Nat
  BY LenProperties DEF TypeOK
<1>2. CASE UNCHANGED <<order, messages>>
  BY <1>2 DEF DictionaryMatches
<1>3. CASE Poll
  <2>1. ASSUME NEW k \in KeySet, NEW f \in Frames,
               messages' = [messages EXCEPT ![f] = @ \cup {k}],
               order' = IF messages[f] = {} THEN Append(order, f) ELSE order
        PROVE  DictionaryMatches'
    <3>1. \A g \in Frames : messages'[g] # {} <=> messages[g] # {} \/ g = f
      BY <2>1 DEF TypeOK
    <3>2. CASE messages[f] = {}
      <4>1. order' = Append(order, f) /\ ~Contains(order, f)
        BY <2>1, <3>2 DEF DictionaryMatches
      <4>2. /\ Len(order') = Len(order) + 1 /\ order'[Len(order) + 1] = f
            /\ \A i \in 1..Len(order) : order'[i] = order[i] /\ order[i] # f
        BY <4>1, AppendProperties DEF TypeOK, Contains
      <4>3. \A g : Contains(order', g) <=> Contains(order, g) \/ g = f
        BY <4>1, AppendContains DEF TypeOK
      <4>4. \A i, j \in DOMAIN order' : order'[i] = order'[j] => i = j
        BY <1>1, <4>2 DEF DictionaryMatches
      <4> QED BY <3>1, <4>3, <4>4 DEF DictionaryMatches
    <3>3. CASE messages[f] # {}
      BY <2>1, <3>1, <3>3 DEF DictionaryMatches
    <3> QED BY <3>2, <3>3
  <2> QED BY <1>2, <1>3, <2>1, PollShape
<1>4. CASE Scan
  <2>1. PICK n \in 0..Len(order) :
          /\ Len(order') = Len(order) - n
          /\ \A i \in 1..Len(order') : order'[i] = order[n + i]
          /\ messages' = [g \in Frames |-> IF \E i \in 1..n : order[i] = g THEN {} ELSE messages[g]]
    BY <1>4, ScanShape
  <2>2. \A i \in 1..Len(order') : n + i \in 1..Len(order) /\ n + i > n
    BY <1>1, <2>1
  <2>3. \A i, j \in DOMAIN order' : order'[i] = order'[j] => i = j
    <3> SUFFICES ASSUME NEW i \in 1..Len(order'), NEW j \in 1..Len(order'), order'[i] = order'[j]
                 PROVE  i = j
      BY <1>1
    <3>1. n + i = n + j
      BY <1>1, <2>1, <2>2 DEF DictionaryMatches
    <3> QED BY <3>1
  <2>4. ASSUME NEW f \in Frames, messages'[f] # {} PROVE Contains(order', f)
    <3>1. messages[f] # {} /\ ~\E i \in 1..n : order[i] = f
      BY <2>1, <2>4
    <3>2. PICK i \in 1..Len(order) : order[i] = f
      BY <3>1 DEF DictionaryMatches, Contains
    <3>3. i - n \in 1..Len(order') /\ n + (i - n) = i
      BY <1>1, <2>1, <3>1, <3>2
    <3>4. order'[i - n] = f
      BY <2>1, <3>2, <3>3
    <3> QED BY <3>3, <3>4 DEF Contains
  <2>5. ASSUME NEW f \in Frames, Contains(order', f) PROVE messages'[f] # {}
    <3>1. PICK i \in 1..Len(order') : order'[i] = f
      BY <2>5 DEF Contains
    <3>2. order[n + i] = f /\ n + i \in 1..Len(order)
      BY <2>1, <2>2, <3>1
    <3>3. messages[f] # {}
      BY <3>2 DEF DictionaryMatches, Contains
    <3>4. ~\E j \in 1..n : order[j] = f
      BY <1>1, <2>1, <2>2, <3>2 DEF DictionaryMatches
    <3> QED BY <2>1, <3>3, <3>4
  <2> QED BY <2>3, <2>4, <2>5 DEF DictionaryMatches
<1>5. ASSUME NEW k \in KeySet, Broker(k) PROVE UNCHANGED <<order, messages>>
  BY <1>5, ArriveShape
<1>6. CASE UNCHANGED vars
  BY <1>2, <1>6 DEF vars
<1> QED BY <1>2, <1>3, <1>4, <1>5, <1>6 DEF Next, Organizer

-----------------------------------------------------------------------------
\* An increasing queue of frames, appended to and taken from.
LEMMA AppendIncreasing ==
    ASSUME NEW s \in Seq(Nat), NEW e \in Nat, Increasing(s), Below(s, e)
    PROVE  /\ Increasing(Append(s, e))
           /\ Below(Append(s, e), e + 1)
           /\ \A a \in Nat : Above(s, a) /\ a < e => Above(Append(s, e), a)
<1> DEFINE t == Append(s, e)
<1>1. /\ DOMAIN s = 1..Len(s) /\ Len(s) \in Nat /\ DOMAIN t = 1..Len(s) + 1
      /\ t[Len(s) + 1] = e
      /\ \A i \in 1..Len(s) : t[i] = s[i] /\ s[i] \in Nat
  BY AppendProperties, LenProperties, ElementOfSeq
<1> HIDE DEF t
<1>2. Increasing(t)
  BY <1>1 DEF Increasing, Below
<1>3. Below(t, e + 1)
  BY <1>1 DEF Below
<1>4. \A a \in Nat : Above(s, a) /\ a < e => Above(t, a)
  BY <1>1 DEF Above
<1> QED BY <1>2, <1>3, <1>4 DEF t

\* The tail of an increasing sequence is increasing.
LEMMA TailIncreasing ==
    ASSUME NEW s \in Seq(Nat), s # <<>>, Increasing(s)
    PROVE  /\ Increasing(Tail(s))
           /\ Above(Tail(s), Head(s))
           /\ \A b \in Nat : Below(s, b) => Below(Tail(s), b) /\ Head(s) < b
           /\ \A a \in Nat : Above(s, a) => Above(Tail(s), a) /\ a < Head(s)
<1> DEFINE t == Tail(s)
<1>1. /\ DOMAIN s = 1..Len(s) /\ Len(s) \in Nat /\ Len(s) > 0
      /\ DOMAIN t = 1..Len(s) - 1 /\ Head(s) = s[1] /\ 1 \in DOMAIN s
      /\ \A i \in DOMAIN s : s[i] \in Nat
  BY HeadTailProperties, LenProperties, EmptySeq, ElementOfSeq
<1>2. ASSUME NEW i \in DOMAIN t PROVE i \in Nat /\ i > 0 /\ i + 1 \in DOMAIN s /\ t[i] = s[i + 1]
  BY <1>1, HeadTailProperties
<1> HIDE DEF t
<1>3. ASSUME NEW i \in DOMAIN t, NEW j \in DOMAIN t, i < j PROVE t[i] < t[j]
  <2>1. i + 1 < j + 1
    BY <1>2, <1>3
  <2> QED BY <1>2, <2>1 DEF Increasing
<1>4. ASSUME NEW i \in DOMAIN t PROVE Head(s) < t[i]
  <2>1. 1 < i + 1
    BY <1>2
  <2> QED BY <1>1, <1>2, <2>1 DEF Increasing
<1>5. \A b \in Nat : Below(s, b) => Below(t, b) /\ Head(s) < b
  BY <1>1, <1>2 DEF Below
<1>6. \A a \in Nat : Above(s, a) => Above(t, a) /\ a < Head(s)
  BY <1>1, <1>2 DEF Above
<1> QED BY <1>3, <1>4, <1>5, <1>6 DEF t, Increasing, Above

\* What lies above a frame is not that frame or an earlier one.
LEMMA AboveExcludes ==
    ASSUME NEW s \in Seq(Nat), NEW a \in Nat, Above(s, a), NEW f \in Nat, f <= a
    PROVE  ~Contains(s, f)
<1>1. DOMAIN s = 1..Len(s) /\ \A i \in 1..Len(s) : s[i] \in Nat
  BY LenProperties, ElementOfSeq
<1> QED BY <1>1 DEF Above, Contains

\* Queues and dictionary hold numbers.
LEMMA Numbers ==
    ASSUME TypeOK
    PROVE  /\ Frames \subseteq Nat
           /\ \A k \in KeySet : queue[k] \in Seq(Nat) /\ next[k] \in Nat
           /\ order \in Seq(Nat)
           /\ \A i \in DOMAIN order : order[i] \in Frames
           /\ \A i \in DOMAIN pushed : pushed[i][1] \in Frames /\ pushed[i][2] \subseteq KeySet
<1>1. Frames \subseteq Nat
  BY DEF Frames
<1>2. \A k \in KeySet : queue[k] \in Seq(Nat)
  BY <1>1, SeqMonotonic DEF TypeOK
<1>3. order \in Seq(Nat)
  BY <1>1, SeqMonotonic DEF TypeOK
<1>4. \A i \in DOMAIN pushed : pushed[i] \in Frames \X SUBSET KeySet
  BY ElementOfSeq, LenProperties DEF TypeOK
<1>5. \A i \in DOMAIN order : order[i] \in Frames
  BY ElementOfSeq, LenProperties DEF TypeOK
<1> QED BY <1>1, <1>2, <1>3, <1>4, <1>5, FrameSyncAssumption DEF TypeOK

\* What the dictionary lists has messages.
LEMMA InDictionary ==
    ASSUME TypeOK, DictionaryMatches
    PROVE  \A i \in DOMAIN order : order[i] \in Frames /\ messages[order[i]] # {}
<1>1. DOMAIN order = 1..Len(order) /\ \A i \in DOMAIN order : order[i] \in Frames
  BY Numbers, LenProperties
<1>2. ASSUME NEW i \in DOMAIN order PROVE Contains(order, order[i])
  BY <1>1 DEF Contains
<1> QED BY <1>1, <1>2 DEF DictionaryMatches

-----------------------------------------------------------------------------
\* The order of things as long as no message was repeated.
Ordered ==
    /\ \A k \in KeySet : ConsumerInOrder(k)
    /\ Overtaken
    /\ PushedIsPast
    /\ GivenUpForGood
    /\ CompleteInOrder

\* It is kept by a message that arrives or is lost ...
LEMMA OrderedArrive ==
    ASSUME TypeOK, TypeOK', again = 0, Ordered, NEW k \in KeySet, Arrive(k) \/ Lose(k)
    PROVE  Ordered'
<1>1. /\ next[k] \in Frames /\ next' = [next EXCEPT ![k] = @ + 1]
      /\ UNCHANGED <<turn, order, messages, pushed, again>>
  BY DEF Arrive, Lose, Advance
<1>2. /\ next[k] \in Nat /\ next'[k] = next[k] + 1
      /\ \A c \in KeySet \ {k} : next'[c] = next[c]
      /\ \A c \in KeySet : next[c] \in Nat /\ next'[c] >= next[c]
  BY <1>1 DEF TypeOK, Frames
<1>3. /\ \A c \in KeySet \ {k} : queue'[c] = queue[c]
      /\ queue'[k] = queue[k] \/ queue'[k] = Append(queue[k], next[k])
  BY DEF Arrive, Lose, TypeOK
<1>4. \A f : Contains(queue'[k], f) => Contains(queue[k], f) \/ f = next[k]
  <2>1. \A f : Contains(Append(queue[k], next[k]), f) <=> Contains(queue[k], f) \/ f = next[k]
    BY <1>1, AppendContains DEF TypeOK
  <2> QED BY <1>3, <2>1
<1>5. ASSUME NEW c \in KeySet, c # k PROVE ConsumerInOrder(c)'
  BY <1>1, <1>2, <1>3, <1>5 DEF Ordered, ConsumerInOrder
<1>6. ConsumerInOrder(k)'
  <2>1. /\ Increasing(queue[k]) /\ Below(queue[k], next[k])
        /\ \A f \in Frames : k \in messages[f] => f < next[k] /\ Above(queue[k], f)
        /\ queue[k] \in Seq(Nat) /\ next[k] \in Nat /\ Frames \subseteq Nat
    BY Numbers DEF Ordered, ConsumerInOrder
  <2>2. CASE queue'[k] = queue[k]
    <3>1. Below(queue[k], next[k] + 1)
      BY <2>1, LenProperties, ElementOfSeq DEF Below
    <3> QED BY <1>1, <1>2, <2>1, <2>2, <3>1 DEF ConsumerInOrder
  <2>3. CASE queue'[k] = Append(queue[k], next[k])
    <3>1. /\ Increasing(Append(queue[k], next[k]))
          /\ Below(Append(queue[k], next[k]), next[k] + 1)
          /\ \A a \in Nat : Above(queue[k], a) /\ a < next[k]
                             => Above(Append(queue[k], next[k]), a)
      BY <2>1, AppendIncreasing
    <3> QED BY <1>1, <1>2, <2>1, <2>3, <3>1 DEF ConsumerInOrder
  <2> QED BY <1>3, <2>2, <2>3
<1>7. Overtaken'
  BY <1>1 DEF Ordered, Overtaken
<1>8. \A i \in DOMAIN pushed : pushed[i][1] \in Frames /\ \A c \in KeySet : pushed[i][1] < next[c]
  BY Numbers DEF Ordered, PushedIsPast
<1>9. PushedIsPast'
  <2> SUFFICES ASSUME NEW i \in DOMAIN pushed
               PROVE  /\ \A c \in KeySet : pushed[i][1] < next'[c]
                      /\ pushed[i][2] = KeySet => Closed(pushed[i][1])'
    BY <1>1 DEF PushedIsPast
  <2>1. \A c \in KeySet : pushed[i][1] < next'[c]
    BY <1>2, <1>8 DEF Frames
  <2>2. ASSUME pushed[i][2] = KeySet, NEW g \in 1..pushed[i][1]
        PROVE  \E c \in KeySet : c \notin messages'[g] /\ ~Coming(c, g)'
    <3>1. PICK c \in KeySet : c \notin messages[g] /\ ~Coming(c, g)
      BY <2>2 DEF Ordered, PushedIsPast, Closed
    <3>2. g < next[k]
      BY <1>2, <1>8 DEF Frames
    <3>3. ~Coming(c, g)'
      BY <1>2, <1>3, <1>4, <3>1, <3>2 DEF Coming
    <3> QED BY <1>1, <3>1, <3>3
  <2> QED BY <1>1, <2>1, <2>2 DEF Closed
<1>10. GivenUpForGood'
  <2>1. ASSUME NEW i \in DOMAIN pushed, NEW c \in KeySet PROVE ~Contains(queue'[c], pushed[i][1])
    <3>1. ~Contains(queue[c], pushed[i][1]) /\ pushed[i][1] # next[k]
      BY <1>2, <1>8 DEF Ordered, GivenUpForGood, Frames
    <3> QED BY <1>3, <1>4, <3>1
  <2> QED BY <1>1, <2>1 DEF Ordered, GivenUpForGood
<1>11. CompleteInOrder'
  BY <1>1 DEF Ordered, CompleteInOrder
<1> QED BY <1>5, <1>6, <1>7, <1>9, <1>10, <1>11 DEF Ordered

\* ... by a poll, which takes a message later than what its consumer sent
\* before, and earlier than what it sends after ...
LEMMA OrderedPoll ==
    ASSUME TypeOK, TypeOK', DictionaryMatches, Ordered, Poll, UNCHANGED again, again = 0,
           NEW k \in KeySet, queue[k] # <<>>, NEW f \in Frames, f = Head(queue[k]),
           \A g : Contains(queue[k], g) <=> Contains(Tail(queue[k]), g) \/ g = f,
           queue' = [queue EXCEPT ![k] = Tail(@)],
           messages' = [messages EXCEPT ![f] = @ \cup {k}],
           order' = IF messages[f] = {} THEN Append(order, f) ELSE order
    PROVE  Ordered'
<1>1. UNCHANGED <<next, lost, again, pushed>>
  BY DEF Poll
<1>2. /\ \A c \in KeySet \ {k} : queue'[c] = queue[c]
      /\ queue'[k] = Tail(queue[k])
      /\ \A g \in Frames \ {f} : messages'[g] = messages[g]
      /\ messages'[f] = messages[f] \cup {k}
  BY DEF TypeOK
<1>3. /\ Frames \subseteq Nat /\ queue[k] \in Seq(Nat) /\ next[k] \in Nat
      /\ Increasing(queue[k]) /\ Below(queue[k], next[k])
      /\ \A g \in Frames : k \in messages[g] => g < next[k] /\ Above(queue[k], g)
  BY Numbers DEF Ordered, ConsumerInOrder
<1>4. /\ Increasing(Tail(queue[k])) /\ Above(Tail(queue[k]), f)
      /\ Below(Tail(queue[k]), next[k]) /\ f < next[k]
      /\ \A g \in Nat : Above(queue[k], g) => Above(Tail(queue[k]), g) /\ g < f
  BY <1>3, TailIncreasing
<1>5. \A g \in Frames : k \in messages[g] => g < f
  BY <1>3, <1>4
<1>6. \A c \in KeySet : ConsumerInOrder(c)'
  <2>1. ASSUME NEW c \in KeySet, c # k PROVE ConsumerInOrder(c)'
    <3>1. \A g \in Frames : c \in messages'[g] <=> c \in messages[g]
      BY <1>2, <2>1
    <3> QED BY <1>1, <1>2, <2>1, <3>1 DEF Ordered, ConsumerInOrder
  <2>2. ConsumerInOrder(k)'
    <3>1. \A g \in Frames : k \in messages'[g] => k \in messages[g] \/ g = f
      BY <1>2
    <3> QED BY <1>1, <1>2, <1>3, <1>4, <3>1 DEF ConsumerInOrder
  <2> QED BY <2>1, <2>2
<1>7. Overtaken'
  <2>1. \A i \in DOMAIN order : order[i] \in Frames /\ order[i] \in Nat /\ messages[order[i]] # {}
    BY <1>3, InDictionary
  <2>2. ASSUME NEW a \in Frames, NEW b \in Frames, a > b, messages[a] # {},
               ~(messages[a] \subseteq messages[b])
        PROVE  ~(messages'[a] \subseteq messages'[b])
    <3>1. a = f \/ messages'[a] = messages[a]
      BY <1>2
    <3>2. CASE b = f
      <4>1. k \notin messages[a] /\ messages'[a] = messages[a]
        BY <1>2, <1>3, <1>5, <2>2, <3>2
      <4> QED BY <1>2, <2>2, <3>2, <4>1
    <3>3. CASE b # f
      BY <1>2, <2>2, <3>1, <3>3
    <3> QED BY <3>2, <3>3
  <2>3. CASE messages[f] # {}
    <3>1. order' = order
      BY <2>3
    <3> QED BY <2>1, <2>2, <3>1 DEF Ordered, Overtaken
  <2>4. CASE messages[f] = {}
    <3>1. /\ DOMAIN order = 1..Len(order) /\ Len(order) \in Nat
          /\ DOMAIN order' = 1..Len(order) + 1
          /\ order'[Len(order) + 1] = f
          /\ \A i \in DOMAIN order : order'[i] = order[i]
      BY <2>4, AppendProperties, LenProperties DEF TypeOK
    <3> SUFFICES ASSUME NEW i \in DOMAIN order', NEW j \in DOMAIN order', i < j,
                        order'[i] > order'[j]
                 PROVE  ~(messages'[order'[i]] \subseteq messages'[order'[j]])
      BY DEF Overtaken
    <3>2. i \in DOMAIN order /\ order'[i] = order[i]
      BY <3>1
    <3>3. CASE j \in DOMAIN order
      BY <2>1, <2>2, <3>1, <3>2, <3>3 DEF Ordered, Overtaken
    <3>4. CASE j = Len(order) + 1
      <4>1. order'[j] = f /\ messages'[f] = {k} /\ order[i] > f
        BY <1>2, <2>4, <3>1, <3>2, <3>4
      <4>2. k \notin messages[order[i]] /\ messages'[order[i]] = messages[order[i]]
        BY <1>2, <1>3, <1>5, <2>1, <3>2, <4>1
      <4> QED BY <2>1, <3>2, <4>1, <4>2
    <3> QED BY <3>1, <3>3, <3>4
  <2> QED BY <2>3, <2>4
<1>8. Contains(queue[k], f)
  OBVIOUS
<1>9. \A c \in KeySet, g \in Frames :
          c \notin messages[g] /\ ~Coming(c, g) => c \notin messages'[g] /\ ~Coming(c, g)'
  <2> SUFFICES ASSUME NEW c \in KeySet, NEW g \in Frames, c \notin messages[g], ~Coming(c, g)
               PROVE  c \notin messages'[g] /\ ~Coming(c, g)'
    OBVIOUS
  <2>1. ~(c = k /\ g = f)
    BY <1>8 DEF Coming
  <2>2. Contains(queue'[c], g) => Contains(queue[c], g)
    BY <1>2
  <2> QED BY <1>1, <1>2, <2>1, <2>2 DEF Coming
<1>10. PushedIsPast'
  <2>1. ASSUME NEW i \in DOMAIN pushed, pushed[i][2] = KeySet, NEW g \in 1..pushed[i][1]
        PROVE  \E c \in KeySet : c \notin messages'[g] /\ ~Coming(c, g)'
    <3>1. PICK c \in KeySet : c \notin messages[g] /\ ~Coming(c, g)
      BY <2>1 DEF Ordered, PushedIsPast, Closed
    <3>2. g \in Frames
      BY Numbers, FrameSyncAssumption DEF Frames
    <3> QED BY <1>9, <3>1, <3>2
  <2> QED BY <1>1, <2>1 DEF Ordered, PushedIsPast, Closed
<1>11. GivenUpForGood'
  <2>1. ASSUME NEW i \in DOMAIN pushed, NEW c \in KeySet
        PROVE  ~Contains(queue'[c], pushed[i][1]) /\ messages'[pushed[i][1]] = {}
    <3>1. /\ ~Contains(queue[c], pushed[i][1]) /\ ~Contains(queue[k], pushed[i][1])
          /\ messages[pushed[i][1]] = {} /\ pushed[i][1] \in Frames
      BY Numbers DEF Ordered, GivenUpForGood
    <3> QED BY <1>2, <1>8, <3>1
  <2> QED BY <1>1, <2>1 DEF Ordered, GivenUpForGood
<1>12. CompleteInOrder'
  BY <1>1 DEF Ordered, CompleteInOrder
<1> QED BY <1>6, <1>7, <1>10, <1>11, <1>12 DEF Ordered

\* ... and by a scan, which pushes frames up to the last complete one only, and
\* nothing later than it.
LEMMA OrderedScan ==
    ASSUME TypeOK, TypeOK', DictionaryMatches, Ordered, Scan, again = 0
    PROVE  Ordered'
<1>1. PICK n \in 0..Len(order) :
        /\ n > 0 => messages[order[n]] = KeySet
        /\ Len(order') = Len(order) - n
        /\ \A i \in 1..Len(order') : order'[i] = order[n + i]
        /\ messages' = [f \in Frames |-> IF \E i \in 1..n : order[i] = f THEN {} ELSE messages[f]]
        /\ Len(pushed') = Len(pushed) + n
        /\ \A i \in 1..Len(pushed) : pushed'[i] = pushed[i]
        /\ \A i \in 1..n : pushed'[Len(pushed) + i] = <<order[i], messages[order[i]]>>
  BY ScanShape
<1>2. UNCHANGED <<next, lost, again, queue>>
  BY DEF Scan, Delete
<1>3. /\ DOMAIN order = 1..Len(order) /\ Len(order) \in Nat /\ n \in Nat
      /\ DOMAIN order' = 1..Len(order') /\ Len(order') \in Nat
      /\ DOMAIN pushed = 1..Len(pushed) /\ Len(pushed) \in Nat
      /\ DOMAIN pushed' = 1..Len(pushed) + n
      /\ 1..n \subseteq DOMAIN order
  BY <1>1, LenProperties DEF TypeOK
<1>4. /\ Frames \subseteq Nat
      /\ \A i \in DOMAIN order : order[i] \in Frames /\ messages[order[i]] # {}
      /\ \A i, j \in DOMAIN order : order[i] = order[j] => i = j
      /\ \A f \in Frames : messages[f] \subseteq KeySet
      /\ \A f \in Frames : messages[f] # {} => \E i \in DOMAIN order : order[i] = f
  BY <1>3, Numbers, InDictionary DEF DictionaryMatches, Contains, TypeOK
<1>5. \A f \in Frames : messages'[f] = {} \/ messages'[f] = messages[f]
  BY <1>1
\* No batch before a complete one is later than it.
<1>6. ASSUME NEW i \in 1..n, NEW j \in DOMAIN order, i < j, messages[order[j]] = KeySet
      PROVE  order[i] < order[j]
  <2>1. i \in DOMAIN order /\ i # j
    BY <1>3, <1>6
  <2>2. order[i] # order[j] /\ messages[order[i]] \subseteq KeySet
    BY <1>4, <2>1
  <2>3. ~(order[i] > order[j])
    BY <1>6, <2>1, <2>2 DEF Ordered, Overtaken
  <2>4. order[i] \in Nat /\ order[j] \in Nat
    BY <1>4, <2>1
  <2> QED BY <2>2, <2>3, <2>4
\* Every message of a frame that is pushed has been polled or will not come.
<1>7. ASSUME NEW f \in Frames, messages[f] = KeySet, NEW g \in Frames, g <= f, NEW c \in KeySet
      PROVE  ~Contains(queue[c], g) /\ g < next[c]
  <2>1. Above(queue[c], f) /\ f < next[c]
    BY <1>7 DEF Ordered, ConsumerInOrder
  <2>2. queue[c] \in Seq(Nat) /\ next[c] \in Nat /\ f \in Nat /\ g \in Nat
    BY Numbers, <1>4
  <2> QED BY <1>7, <2>1, <2>2, AboveExcludes
<1>8. ASSUME NEW i \in 1..n
      PROVE  /\ i \in DOMAIN order /\ order[i] \in Frames /\ messages'[order[i]] = {}
             /\ \A c \in KeySet : ~Contains(queue[c], order[i]) /\ order[i] < next[c]
  <2>1. /\ i \in DOMAIN order /\ n \in DOMAIN order /\ n > 0
        /\ order[i] \in Frames /\ order[n] \in Frames /\ messages[order[n]] = KeySet
    BY <1>1, <1>3, <1>4
  <2>2. order[i] <= order[n]
    <3>1. order[i] \in Nat /\ order[n] \in Nat
      BY <1>4, <2>1
    <3>2. CASE i = n
      BY <3>1, <3>2
    <3>3. CASE i < n
      BY <1>6, <2>1, <3>1, <3>3
    <3> QED BY <1>3, <3>2, <3>3
  <2>3. \A c \in KeySet : ~Contains(queue[c], order[i]) /\ order[i] < next[c]
    BY <1>7, <2>1, <2>2
  <2>4. messages'[order[i]] = {}
    BY <1>1, <2>1
  <2> QED BY <2>1, <2>3, <2>4
<1>9. \A c \in KeySet : ConsumerInOrder(c)'
  BY <1>2, <1>5 DEF Ordered, ConsumerInOrder
<1>10. Overtaken'
  <2> SUFFICES ASSUME NEW i \in DOMAIN order', NEW j \in DOMAIN order', i < j,
                      order'[i] > order'[j]
               PROVE  ~(messages'[order'[i]] \subseteq messages'[order'[j]])
    BY DEF Overtaken
  <2>1. /\ n + i \in DOMAIN order /\ n + j \in DOMAIN order /\ n + i < n + j
        /\ order'[i] = order[n + i] /\ order'[j] = order[n + j]
    <3>1. /\ Len(order') = Len(order) - n
          /\ i \in 1..Len(order') /\ j \in 1..Len(order')
      BY <1>1, <1>3
    <3>2. n + i \in DOMAIN order /\ n + j \in DOMAIN order /\ n + i < n + j
      BY <1>3, <3>1
    <3>3. order'[i] = order[n + i] /\ order'[j] = order[n + j]
      BY <1>1, <3>1
    <3> QED BY <3>2, <3>3
  <2>2. ~(messages[order[n + i]] \subseteq messages[order[n + j]])
    BY <2>1 DEF Ordered, Overtaken
  <2>3. ~\E m \in 1..n : order[m] = order[n + i]
    BY <1>3, <1>4, <2>1
  <2>4. messages'[order[n + i]] = messages[order[n + i]]
    BY <1>1, <1>4, <2>1, <2>3
  <2> QED BY <1>4, <1>5, <2>1, <2>2, <2>4
\* Whatever is not later than a complete frame that is pushed stays incomplete.
<1>11. ASSUME NEW m \in 1..n, messages[order[m]] = KeySet, NEW g \in 1..order[m]
       PROVE  \E c \in KeySet : c \notin messages'[g] /\ ~Coming(c, g)'
  <2>1. order[m] \in Frames /\ g \in Frames /\ g <= order[m] /\ m \in DOMAIN order
    BY <1>4, <1>8, FrameSyncAssumption DEF Frames
  <2>2. \A c \in KeySet : ~Coming(c, g)'
    <3>1. \A c \in KeySet : ~Contains(queue[c], g) /\ g < next[c] /\ next[c] \in Nat /\ g \in Nat
      BY <1>4, <1>7, <1>11, <2>1, Numbers
    <3> QED BY <1>2, <3>1 DEF Coming
  <2>3. CASE messages'[g] = {}
    <3>1. PICK c : c \in KeySet
      BY <1>4, <1>11, <2>1
    <3> QED BY <2>2, <2>3, <3>1
  <2>4. CASE messages'[g] # {}
    <3>1. messages'[g] = messages[g] /\ ~\E i \in 1..n : order[i] = g
      BY <1>1, <2>1, <2>4
    <3>2. PICK j \in DOMAIN order : order[j] = g
      BY <1>4, <2>1, <2>4, <3>1
    <3>3. m < j
      BY <1>3, <3>1, <3>2
    <3>5. order[m] > order[j]
      <4>1. m # j
        BY <1>3, <3>3
      <4>2. order[m] # order[j]
        BY <1>4, <2>1, <3>2, <4>1
      <4>3. order[m] \in Nat /\ order[j] \in Nat
        BY <1>4, <2>1, <3>2
      <4> QED BY <2>1, <3>2, <4>2, <4>3
    <3>4. ~(messages[order[m]] \subseteq messages[order[j]])
      BY <2>1, <3>3, <3>5 DEF Ordered, Overtaken
    <3> QED BY <1>11, <2>2, <3>1, <3>2, <3>4
  <2> QED BY <2>3, <2>4
<1>12. ASSUME NEW i \in DOMAIN pushed'
       PROVE  \/ i \in DOMAIN pushed /\ pushed'[i] = pushed[i]
              \/ \E m \in 1..n : i = Len(pushed) + m /\ pushed'[i] = <<order[m], messages[order[m]]>>
  <2>1. CASE i \in DOMAIN pushed
    BY <1>1, <1>3, <2>1
  <2>2. CASE i \notin DOMAIN pushed
    <3>1. i - Len(pushed) \in 1..n /\ i = Len(pushed) + (i - Len(pushed))
      BY <1>3, <2>2
    <3> QED BY <1>1, <3>1
  <2> QED BY <2>1, <2>2
<1>13. PushedIsPast'
  <2> SUFFICES ASSUME NEW i \in DOMAIN pushed'
               PROVE  /\ \A c \in KeySet : pushed'[i][1] < next'[c]
                      /\ pushed'[i][2] = KeySet => Closed(pushed[i][1])'
    BY DEF PushedIsPast
  <2>1. CASE i \in DOMAIN pushed /\ pushed'[i] = pushed[i]
    <3>1. ASSUME pushed[i][2] = KeySet, NEW g \in 1..pushed[i][1]
          PROVE  \E c \in KeySet : c \notin messages'[g] /\ ~Coming(c, g)'
      <4>1. PICK c \in KeySet : c \notin messages[g] /\ ~Coming(c, g)
        BY <2>1, <3>1 DEF Ordered, PushedIsPast, Closed
      <4>2. g \in Frames
        BY <2>1, Numbers, FrameSyncAssumption DEF Frames
      <4> QED BY <1>2, <1>5, <4>1, <4>2 DEF Coming
    <3> QED BY <1>2, <2>1, <3>1 DEF Ordered, PushedIsPast, Closed
  <2>2. ASSUME NEW m \in 1..n, pushed'[i] = <<order[m], messages[order[m]]>>
        PROVE  /\ \A c \in KeySet : pushed'[i][1] < next'[c]
               /\ pushed'[i][2] = KeySet => Closed(pushed[i][1])'
    BY <1>2, <1>8, <1>11, <2>2 DEF Closed
  <2> QED BY <1>12, <2>1, <2>2
<1>14. GivenUpForGood'
  <2>1. ASSUME NEW i \in DOMAIN pushed', NEW c \in KeySet
        PROVE  ~Contains(queue[c], pushed'[i][1]) /\ messages'[pushed'[i][1]] = {}
    <3>1. CASE i \in DOMAIN pushed /\ pushed'[i] = pushed[i]
      BY <1>5, <3>1, Numbers DEF Ordered, GivenUpForGood
    <3>2. ASSUME NEW m \in 1..n, pushed'[i] = <<order[m], messages[order[m]]>>
          PROVE  ~Contains(queue[c], pushed'[i][1]) /\ messages'[pushed'[i][1]] = {}
      BY <1>8, <3>2
    <3> QED BY <1>12, <3>1, <3>2
  <2>2. ASSUME NEW i \in DOMAIN pushed', NEW j \in DOMAIN pushed', pushed'[i][1] = pushed'[j][1]
        PROVE  i = j
    <3>1. ASSUME NEW a \in DOMAIN pushed, NEW m \in 1..n PROVE pushed[a][1] # order[m]
      <4>1. messages[order[m]] # {} /\ messages[order[m]] \subseteq KeySet
        BY <1>4, <1>8
      <4>2. PICK c : c \in KeySet
        BY <4>1
      <4>3. messages[pushed[a][1]] = {}
        BY <4>2 DEF Ordered, GivenUpForGood
      <4> QED BY <4>1, <4>3
    <3>2. \A a, b \in DOMAIN pushed : pushed[a][1] = pushed[b][1] => a = b
      BY DEF Ordered, GivenUpForGood, IsInjective
    <3>3. \A l, m \in 1..n : order[l] = order[m] => l = m
      BY <1>4, <1>8
    <3> QED BY <1>12, <2>2, <3>1, <3>2, <3>3
  <2> QED BY <1>2, <2>1, <2>2 DEF GivenUpForGood, IsInjective
<1>15. CompleteInOrder'
  <2> SUFFICES ASSUME NEW i \in DOMAIN pushed', NEW j \in DOMAIN pushed', i < j,
                      pushed'[i][2] = KeySet, pushed'[j][2] = KeySet
               PROVE  pushed'[i][1] < pushed'[j][1]
    BY DEF CompleteInOrder
  <2>1. CASE i \in DOMAIN pushed /\ j \in DOMAIN pushed
    BY <1>1, <1>3, <2>1 DEF Ordered, CompleteInOrder
  <2>2. ASSUME i \in DOMAIN pushed, pushed'[i] = pushed[i],
               NEW m \in 1..n, pushed'[j] = <<order[m], messages[order[m]]>>
        PROVE  pushed'[i][1] < pushed'[j][1]
    <3>1. Closed(pushed[i][1]) /\ pushed[i][1] \in Frames
      BY <2>2, Numbers DEF Ordered, PushedIsPast
    <3>2. order[m] \in Frames /\ messages[order[m]] = KeySet
      BY <1>8, <2>2
    <3>3. order[m] \notin 1..pushed[i][1]
      BY <3>1, <3>2 DEF Closed
    <3>4. pushed[i][1] < order[m]
      BY <3>1, <3>2, <3>3, FrameSyncAssumption DEF Frames
    <3> QED BY <2>2, <3>4
  <2>3. ASSUME NEW l \in 1..n, i = Len(pushed) + l,
               pushed'[i] = <<order[l], messages[order[l]]>>,
               NEW m \in 1..n, j = Len(pushed) + m,
               pushed'[j] = <<order[m], messages[order[m]]>>
        PROVE  pushed'[i][1] < pushed'[j][1]
    <3>1. l < m /\ m \in DOMAIN order /\ messages[order[m]] = KeySet
      BY <1>3, <1>8, <2>3
    <3> QED BY <1>6, <2>3, <3>1
  <2>4. CASE j \in DOMAIN pushed
    <3>1. i \in DOMAIN pushed
      BY <1>3, <2>4
    <3> QED BY <2>1, <2>4, <3>1
  <2>5. CASE j \notin DOMAIN pushed
    <3>1. PICK m \in 1..n : j = Len(pushed) + m /\ pushed'[j] = <<order[m], messages[order[m]]>>
      BY <1>12, <2>5
    <3> QED BY <1>12, <2>2, <2>3, <3>1
  <2> QED BY <2>4, <2>5
<1> QED BY <1>9, <1>10, <1>13, <1>14, <1>15 DEF Ordered

-----------------------------------------------------------------------------
\* An organizer that has heard nothing satisfies the invariant.
THEOREM Initialization == Init => Invariant
<1> SUFFICES ASSUME Init PROVE Invariant
  OBVIOUS
<1>1. TypeOK
  BY FrameSyncAssumption DEF Init, TypeOK, Frames
<1>2. NothingDropped
  BY DEF Init, NothingDropped, Frames
<1>3. DictionaryMatches
  BY DEF Init, DictionaryMatches, Contains
<1>4. (\A k \in KeySet : ConsumerInOrder(k)) /\ Overtaken /\ PushedIsPast
  BY DEF Init, ConsumerInOrder, Increasing, Below, Above, Overtaken, PushedIsPast
<1>5. GivenUpForGood /\ CompleteInOrder
  BY DEF Init, GivenUpForGood, CompleteInOrder, IsInjective
<1> QED BY <1>1, <1>2, <1>3, <1>4, <1>5 DEF Invariant

\* Every arrival, loss, poll and scan preserves the invariant.
THEOREM Consecution == Invariant /\ [Next]_vars => Invariant'
<1> SUFFICES ASSUME Invariant, [Next]_vars PROVE Invariant'
  OBVIOUS
<1>1. TypeOK /\ TypeOK' /\ NothingDropped' /\ DictionaryMatches /\ DictionaryMatches'
  BY Typing, Delivery, Dictionary DEF Invariant
<1>2. again \in Nat /\ again' \in Nat
  BY <1>1, FrameSyncAssumption DEF TypeOK
<1>3. again = 0 <=> again = 0 /\ Ordered
  BY DEF Invariant, Ordered
<1>4. ASSUME again' = 0 PROVE Ordered'
  <2>1. ASSUME NEW k \in KeySet, Broker(k) PROVE Ordered'
    <3>1. ~ArriveTwice(k)
      BY <1>2, <1>4 DEF ArriveTwice
    <3>2. again = 0
      BY <1>4, <2>1, <3>1 DEF Broker, Arrive, Lose
    <3> QED BY <1>1, <1>3, <2>1, <3>1, <3>2, OrderedArrive DEF Broker
  <2>2. CASE Poll
    <3>1. again' = again
      BY <2>2 DEF Poll
    <3>2. CASE UNCHANGED <<queue, order, messages>>
      <4>1. UNCHANGED <<next, pushed>>
        BY <2>2 DEF Poll
      <4> QED BY <1>3, <1>4, <3>1, <3>2, <4>1
              DEF Ordered, ConsumerInOrder, Overtaken, PushedIsPast, Closed, Coming,
                  GivenUpForGood, CompleteInOrder
    <3>3. ASSUME NEW k \in KeySet, queue[k] # <<>>, NEW f \in Frames, f = Head(queue[k]),
                 \A g : Contains(queue[k], g) <=> Contains(Tail(queue[k]), g) \/ g = f,
                 queue' = [queue EXCEPT ![k] = Tail(@)],
                 messages' = [messages EXCEPT ![f] = @ \cup {k}],
                 order' = IF messages[f] = {} THEN Append(order, f) ELSE order
          PROVE  Ordered'
      BY <1>1, <1>3, <1>4, <2>2, <3>1, <3>3, OrderedPoll
    <3> QED BY <1>1, <2>2, <3>2, <3>3, PollShape
  <2>3. CASE Scan
    <3>1. again = 0
      BY <1>4, <2>3 DEF Scan, Delete
    <3> QED BY <1>1, <1>3, <2>3, <3>1, OrderedScan
  <2>4. CASE UNCHANGED vars
    BY <1>3, <1>4, <2>4 DEF vars, Ordered, ConsumerInOrder, Overtaken, PushedIsPast, Closed,
       Coming, GivenUpForGood, CompleteInOrder
  <2> QED BY <2>1, <2>2, <2>3, <2>4 DEF Next, Organizer
<1>5. CASE again' = 0
  BY <1>1, <1>4, <1>5 DEF Invariant, Ordered
<1>6. CASE again' # 0
  BY <1>1, <1>6 DEF Invariant, GivenUpForGood, CompleteInOrder
<1> QED BY <1>5, <1>6

\* Invariant holds in every state of every behaviour of the organizer.
THEOREM Safety == Spec => []Invariant
  BY Initialization, Consecution, PTL DEF Spec

\* Nothing that reached a consumer is dropped by the organizer.
THEOREM NoDrop == Spec => []NothingDropped
<1>1. Invariant => NothingDropped
  BY DEF Invariant
<1> QED BY <1>1, Safety, PTL

\* Unless a message was repeated, a batch is given up only when what it misses can no
\* longer come, and complete batches leave in frame order.
THEOREM Departures == Spec => []PushedInOrder
<1>1. Invariant => PushedInOrder
  BY DEF Invariant, PushedInOrder
<1> QED BY <1>1, Safety, PTL

-----------------------------------------------------------------------------
(* The incidents. *)

\* An operator wrote this status in the row of this incident.
Written(i, status) == status \in committed[i]

\* What the worker was told, or is about to be, was written.
Told ==
    /\ \A o \in Operators : step[o] = "publish" => Written(req[o].incident, req[o].status)
    /\ \A n \in DOMAIN resolutions : Written(resolutions[n].incident, resolutions[n].status)
    /\ \A n \in DOMAIN pulled : Written(pulled[n].incident, pulled[n].status)

\* The types, a request under way being one.
LifeTypes == Life!TypeOK /\ \A o \in Operators : step[o] # "ready" => req[o] \in Life!Resolution

LifeInvariant == LifeTypes /\ Told /\ Life!NeverAhead

-----------------------------------------------------------------------------
\* Lemmas on the operators of the model.

\* The instance counts as the module does.
LEMMA SameCount == \A S : Life!Cardinality(S) = Cardinality(S)
  BY DEF Life!Cardinality, Cardinality

\* The listing of a finite set: every element of it is in the set.
LEMMA SetToSeqLists ==
    ASSUME NEW S, IsFiniteSet(S)
    PROVE  Life!SetToSeq(S) \in Seq(S)
<1>1. Cardinality(S) \in Nat /\ \E f \in [1..Cardinality(S) -> S] : IsInjective(f)
  BY FS_CardinalityType DEF ExistsBijection, Bijection, Injection
<1>2. Life!SetToSeq(S) \in [1..Cardinality(S) -> S] /\ IsInjective(Life!SetToSeq(S))
  BY <1>1, SameCount DEF Life!SetToSeq, Life!IsInjective, IsInjective
<1> QED BY <1>1, <1>2

\* The status that a resolution message gives an incident is one that was pulled.
LEMMA NewStatusIsPulled ==
    ASSUME pulled \in Seq(Life!Resolution), NEW i, Life!NewStatus(i) # managed[i]
    PROVE  \E n \in DOMAIN pulled :
               /\ pulled[n].incident = i /\ pulled[n].status # "RESOLVED"
               /\ Life!NewStatus(i) = pulled[n].status
<1> DEFINE sent == Life!Sent(i, Life!Statuses \ {"RESOLVED"})
<1>1. sent # {}
  BY DEF Life!NewStatus
<1>2. sent \subseteq 1..Len(pulled) /\ Len(pulled) \in Nat
  BY DEF Life!Sent
<1>3. \E n \in sent : \A k \in sent : n >= k
  <2> HIDE DEF sent
  <2> QED BY <1>1, <1>2, GreatestExists
<1>4. Life!Max(sent) \in sent
  <2> HIDE DEF sent
  <2> QED BY <1>3 DEF Life!Max
<1> QED BY <1>1, <1>4 DEF Life!NewStatus, Life!Sent, Life!Statuses

\* An incident that is deleted once, and not by the system, was resolved by a message.
LEMMA DeletionIsPulled ==
    ASSUME pulled \in Seq(Life!Resolution), NEW i, NEW system, i \notin system, Life!Deletions(i,
           system) # 0
    PROVE  \E n \in DOMAIN pulled : pulled[n] = [incident |-> i, status |-> "RESOLVED"]
<1>1. Life!Sent(i, {"RESOLVED"}) # {}
  <2>1. SUFFICES ASSUME Life!Sent(i, {"RESOLVED"}) = {} PROVE Life!Deletions(i, system) = 0
    OBVIOUS
  <2>2. Cardinality(Life!Sent(i, {"RESOLVED"})) = 0
    BY <2>1, FS_EmptySet
  <2> QED BY <2>2, SameCount DEF Life!Deletions
<1>2. PICK n \in DOMAIN pulled : pulled[n].incident = i /\ pulled[n].status = "RESOLVED"
  BY <1>1 DEF Life!Sent
<1>3. pulled[n] \in Life!Resolution
  BY <1>2
<1> QED BY <1>2, <1>3 DEF Life!Resolution

-----------------------------------------------------------------------------
\* The types, and how a step of each party changes what it writes.
LEMMA TypesStart == ASSUME Life!Init PROVE LifeTypes
<1>1. managed \in [{} -> Life!Statuses \ {"RESOLVED"}]
  BY DEF Life!Init
<1>2. managed \in UNION {[I -> Life!Statuses \ {"RESOLVED"}] : I \in SUBSET Life!Ids}
  BY <1>1
<1> QED BY <1>2, IncidentsAssumption DEF Life!Init, LifeTypes, Life!TypeOK, Life!Ids, Life!Idle,
    Life!Resolution

\* What the manager is after a frame.
LEMMA FrameShape ==
    ASSUME Life!TypeOK, Life!Frames
    PROVE  \E attended \in SUBSET unattended, last \in raised..MaxIncidents :
             LET system == Life!SystemResolutions(attended)
                 kept == {i \in DOMAIN managed : Life!Deletions(i, system) = 0}
             IN  /\ raised' = last
                 /\ managed' = [i \in kept \cup (raised + 1..last) |->
                                  IF i \in kept THEN Life!NewStatus(i) ELSE "UNCONFIRMED"]
                 /\ unattended' \subseteq kept \cup (raised + 1..last)
                 /\ output' \in Seq({"create", "resolve"} \X Life!Ids)
<1>0. PICK attended \in SUBSET unattended, last \in raised..MaxIncidents :
          \E bags \in SUBSET (raised + 1..last) : Life!Frame(attended, raised + 1..last, bags)
  BY DEF Life!Frames
<1>1. PICK bags \in SUBSET (raised + 1..last) : Life!Frame(attended, raised + 1..last, bags)
  BY <1>0
<1> DEFINE system == Life!SystemResolutions(attended)
           new == raised + 1..last
           kept == {i \in DOMAIN managed : Life!Deletions(i, system) = 0}
           created == Life!SetToSeq({"create"} \X new)
           resolved == Life!SetToSeq({"resolve"} \X system)
<1>2. /\ raised \in Nat /\ last \in Nat /\ raised <= last /\ last <= MaxIncidents
      /\ new \subseteq Life!Ids /\ DOMAIN managed \subseteq Life!Ids /\ unattended \subseteq Life!Ids
      /\ system \subseteq Life!Ids /\ output \in Seq({"create", "resolve"} \X Life!Ids)
  <2>1. raised \in 0..MaxIncidents /\ MaxIncidents \in Nat
    BY IncidentsAssumption DEF Life!TypeOK
  <2>2. DOMAIN managed \subseteq Life!Ids /\ unattended \subseteq Life!Ids
    BY DEF Life!TypeOK
  <2>3. system \subseteq Life!Ids
    BY <2>2 DEF Life!SystemResolutions
  <2>4. output \in Seq({"create", "resolve"} \X Life!Ids)
    BY DEF Life!TypeOK
  <2>5. new \subseteq Life!Ids
    BY <2>1 DEF Life!Ids
  <2> QED BY <2>1, <2>2, <2>3, <2>4, <2>5
<1>3. IsFiniteSet(new) /\ Cardinality(new) = last - raised
  <2>1. /\ raised + 1 \in Int /\ last \in Int
        /\ last - raised = IF raised + 1 > last THEN 0 ELSE last - (raised + 1) + 1
    BY <1>2
  <2> QED BY <2>1, FS_Interval
<1>4. IsFiniteSet(system)
  <2>1. IsFiniteSet(Life!Ids)
    BY FS_Interval, IncidentsAssumption DEF Life!Ids
  <2> QED BY <1>2, <2>1, FS_Subset
<1>5. IsFiniteSet({"create"} \X new) /\ IsFiniteSet({"resolve"} \X system)
  BY <1>3, <1>4, FS_Singleton, FS_Product
<1>6. /\ created \in Seq({"create"} \X new) /\ resolved \in Seq({"resolve"} \X system)
  BY <1>5, SetToSeqLists
<1>7. /\ created \in Seq({"create", "resolve"} \X Life!Ids)
      /\ resolved \in Seq({"create", "resolve"} \X Life!Ids)
  <2> HIDE DEF created, resolved, system, new
  <2> QED BY <1>2, <1>6
<1>8. output' = output \o created \o resolved
  BY <1>1 DEF Life!Frame
<1>9. output' \in Seq({"create", "resolve"} \X Life!Ids)
  <2> HIDE DEF created, resolved
  <2> QED BY <1>2, <1>7, <1>8
<1>10. /\ raised' = last
       /\ managed' = [i \in kept \cup new |-> IF i \in kept THEN Life!NewStatus(i) ELSE "UNCONFIRMED"]
       /\ unattended' \subseteq kept \cup new
  <2>1. raised' = raised + Cardinality(new)
    BY <1>1, SameCount DEF Life!Frame
  <2>2. raised' = last
    <3> HIDE DEF new
    <3> QED BY <1>2, <1>3, <2>1
  <2>3. managed' = [i \in kept \cup new |-> IF i \in kept THEN Life!NewStatus(i) ELSE "UNCONFIRMED"]
    BY <1>1, Zenon DEF Life!Frame
  <2>4. unattended' = ((unattended \ attended) \cap kept) \cup bags
    BY <1>1, Zenon DEF Life!Frame
  <2> QED BY <2>2, <2>3, <2>4
<1> HIDE DEF created, resolved
<1> QED BY <1>9, <1>10

\* Every step keeps the types.
LEMMA TypesStep == ASSUME LifeTypes, [Life!Next]_(Life!vars) PROVE LifeTypes'
<1> USE DEF LifeTypes, Life!TypeOK, Life!dbVars, Life!operatorVars, Life!workerVars, Life!outputVars
<1>1. ASSUME NEW o \in Operators, NEW i \in Life!Ids, NEW new \in Life!Statuses, Life!Request(o, i, new)
      PROVE  LifeTypes'
  <2>1. [incident |-> i, status |-> new] \in Life!Resolution
    BY DEF Life!Resolution
  <2> QED BY <1>1, <2>1, IncidentsAssumption DEF Life!Request
<1>2. ASSUME NEW o \in Operators, Life!WriteStatus(o) PROVE LifeTypes'
  <2>1. req[o].incident \in Life!Ids /\ req[o].status \in Life!Statuses
    BY <1>2 DEF Life!WriteStatus, Life!Resolution
  <2>2. committed' \in [Life!Ids -> SUBSET Life!Statuses]
    BY <1>2, <2>1 DEF Life!WriteStatus
  <2> QED BY <1>2, <2>1, <2>2 DEF Life!WriteStatus
<1>12. ASSUME NEW o \in Operators, Life!WriteFails(o) PROVE LifeTypes'
  BY <1>12 DEF Life!WriteFails
<1>3. ASSUME NEW o \in Operators, Life!PublishResolution(o) PROVE LifeTypes'
  <2>1. req[o] \in Life!Resolution
    BY <1>3 DEF Life!PublishResolution
  <2>2. resolutions' \in Seq(Life!Resolution) /\ unheard' \in 0..MaxUnheard
    <3>1. resolutions' = Append(resolutions, req[o]) \/ resolutions' = resolutions
      BY <1>3 DEF Life!PublishResolution
    <3>2. unheard' = unheard \/ (unheard < MaxUnheard /\ unheard' = unheard + 1)
      BY <1>3 DEF Life!PublishResolution
    <3>3. resolutions' \in Seq(Life!Resolution)
      <4>1. resolutions \in Seq(Life!Resolution)
        OBVIOUS
      <4> HIDE DEF LifeTypes
      <4> QED BY <2>1, <3>1, <4>1
    <3> QED BY <3>2, <3>3, IncidentsAssumption
  <2>3. /\ step' \in [Operators -> {"ready", "write", "publish"}]
        /\ req' \in [Operators -> Life!Resolution \cup {Life!Idle}]
    BY <1>3 DEF Life!PublishResolution
  <2>4. UNCHANGED <<Life!dbVars, updates, pc, pulled, managed, unattended, raised, Life!outputVars>>
    BY <1>3 DEF Life!PublishResolution
  <2>5. \A p \in Operators : step'[p] # "ready" => req'[p] \in Life!Resolution
    BY <1>3 DEF Life!PublishResolution
  <2> QED BY <2>2, <2>3, <2>4, <2>5
<1>4. CASE Life!Pull
  <2>1. PICK n \in 0..Len(resolutions) :
            /\ n <= PullLimit /\ pulled' = SubSeq(resolutions, 1, n)
            /\ resolutions' = SubSeq(resolutions, n + 1, Len(resolutions))
    BY <1>4 DEF Life!Pull
  <2>2. /\ pulled' \in Seq(Life!Resolution) /\ Len(pulled') <= PullLimit
        /\ resolutions' \in Seq(Life!Resolution)
    BY <2>1
  <2> QED BY <1>4, <2>2 DEF Life!Pull
<1>5. CASE Life!NoFrame
  BY <1>5, IncidentsAssumption DEF Life!NoFrame
<1>6. CASE Life!Frames
  <2>1. PICK attended \in SUBSET unattended, last \in raised..MaxIncidents,
             kept \in SUBSET DOMAIN managed :
          /\ raised' = last
          /\ managed' = [i \in kept \cup (raised + 1..last) |->
                           IF i \in kept THEN Life!NewStatus(i) ELSE "UNCONFIRMED"]
          /\ unattended' \subseteq kept \cup (raised + 1..last)
          /\ output' \in Seq({"create", "resolve"} \X Life!Ids)
    BY <1>6, FrameShape
  <2>2. ASSUME NEW i \in DOMAIN managed PROVE Life!NewStatus(i) \in Life!Statuses \ {"RESOLVED"}
    <3>1. managed[i] \in Life!Statuses \ {"RESOLVED"}
      OBVIOUS
    <3>2. \A n \in DOMAIN pulled : pulled[n] \in Life!Resolution
      OBVIOUS
    <3> QED BY <3>1, <3>2, NewStatusIsPulled DEF Life!Resolution
  <2> DEFINE ids == kept \cup (raised + 1..last)
  <2>3. ids \in SUBSET Life!Ids
    <3>1. raised \in Nat /\ last \in Nat /\ last <= MaxIncidents
      BY IncidentsAssumption
    <3>2. DOMAIN managed \subseteq Life!Ids
      OBVIOUS
    <3> QED BY <3>1, <3>2, IncidentsAssumption DEF Life!Ids
  <2>4. managed' \in [ids -> Life!Statuses \ {"RESOLVED"}]
    BY <2>1, <2>2 DEF Life!Statuses
  <2>5. managed' \in UNION {[I -> Life!Statuses \ {"RESOLVED"}] : I \in SUBSET Life!Ids}
    <3> HIDE DEF ids
    <3> QED BY <2>3, <2>4
  <2>6. unattended' \subseteq DOMAIN managed'
    BY <2>1
  <2>7. raised' \in 0..MaxIncidents
    BY <2>1, IncidentsAssumption
  <2>8. /\ pc' = "pull" /\ pulled' = <<>> /\ UNCHANGED <<Life!dbVars, Life!operatorVars, resolutions, writing, forgone>>
    BY <1>6 DEF Life!Frames, Life!Frame
  <2>9. pulled' \in Seq(Life!Resolution) /\ Len(pulled') <= PullLimit
    BY <2>8, IncidentsAssumption
  <2> QED BY <2>1, <2>5, <2>6, <2>7, <2>8, <2>9
<1>7. CASE Life!Crash
  <2>1. managed' \in [{} -> Life!Statuses \ {"RESOLVED"}]
    BY <1>7 DEF Life!Crash
  <2>2. managed' \in UNION {[I -> Life!Statuses \ {"RESOLVED"}] : I \in SUBSET Life!Ids}
    BY <2>1
  <2>3. pulled' \in Seq(Life!Resolution) /\ Len(pulled') <= PullLimit
    BY <1>7, IncidentsAssumption DEF Life!Crash
  <2> QED BY <1>7, <2>2, <2>3 DEF Life!Crash
<1>13. CASE Life!Stop
  <2>1. managed' \in [{} -> Life!Statuses \ {"RESOLVED"}]
    BY <1>13 DEF Life!Stop
  <2>2. managed' \in UNION {[I -> Life!Statuses \ {"RESOLVED"}] : I \in SUBSET Life!Ids}
    BY <2>1
  <2>3. PICK n \in 0..Len(output) :
            /\ output' = SubSeq(output, 1, n)
            /\ forgone' = forgone \cup {output[k][2] : k \in n + 1..Len(output)}
    BY <1>13 DEF Life!Stop
  <2>4. \A k \in n + 1..Len(output) : output[k][2] \in Life!Ids
    <3>1. output \in Seq({"create", "resolve"} \X Life!Ids)
      OBVIOUS
    <3> QED BY <3>1
  <2>5. output' \in Seq({"create", "resolve"} \X Life!Ids) /\ forgone' \subseteq Life!Ids
    BY <2>3, <2>4
  <2> QED BY <1>13, <2>2, <2>5 DEF Life!Stop
<1>8. CASE Life!CreateRow
  <2>1. Head(output) \in {"create", "resolve"} \X Life!Ids
    BY <1>8 DEF Life!CreateRow
  <2>2. /\ db' \in [Life!Ids -> Life!Statuses \cup {"none"}]
        /\ forgone' \subseteq Life!Ids
    BY <1>8, <2>1 DEF Life!CreateRow, Life!Statuses
  <2> QED BY <1>8, <2>2 DEF Life!CreateRow
<1>9. CASE Life!ReadRow
  <2>1. Head(output) \in {"create", "resolve"} \X Life!Ids
    BY <1>9 DEF Life!ReadRow
  <2> QED BY <1>9, <2>1 DEF Life!ReadRow
<1>10. CASE Life!WriteRow
  <2>1. /\ db' \in [Life!Ids -> Life!Statuses \cup {"none"}]
        /\ forgone' \subseteq Life!Ids
    BY <1>10 DEF Life!WriteRow, Life!Statuses
  <2> QED BY <1>10, <2>1 DEF Life!WriteRow
<1>11. CASE UNCHANGED Life!vars
  BY <1>11 DEF Life!vars
<1> QED BY <1>1, <1>2, <1>3, <1>4, <1>5, <1>6, <1>7, <1>8, <1>9, <1>10, <1>11, <1>12, <1>13
        DEF Life!Next, Life!Association, Life!Output, Life!Operator

-----------------------------------------------------------------------------
\* What is read of the state.
LEMMA Fields ==
    ASSUME LifeTypes
    PROVE  /\ db \in [Life!Ids -> Life!Statuses \cup {"none"}] /\ raised \in 0..MaxIncidents
           /\ step \in [Operators -> {"ready", "write", "publish"}]
           /\ req \in [Operators -> Life!Resolution \cup {Life!Idle}]
           /\ resolutions \in Seq(Life!Resolution) /\ pulled \in Seq(Life!Resolution)
           /\ output \in Seq({"create", "resolve"} \X Life!Ids) /\ writing \in Life!Ids \cup {0}
           /\ committed \in [Life!Ids -> SUBSET Life!Statuses]
           /\ DOMAIN managed \subseteq Life!Ids /\ unattended \subseteq DOMAIN managed
           /\ \A i \in DOMAIN managed : managed[i] \in Life!Statuses
           /\ \A r \in Life!Resolution : r.incident \in Life!Ids /\ r.status \in Life!Statuses
BY DEF LifeTypes, Life!TypeOK, Life!Resolution

\* The messages, and what the manager believes, while an operator goes on: what is
\* published was written before, by the same request.
LEMMA ToldOfOperator ==
    ASSUME LifeInvariant, NEW o \in Operators, Life!Operator(o)
    PROVE  Told' /\ Life!NeverAhead'
<1>1. LifeTypes /\ Told /\ Life!NeverAhead
  BY DEF LifeInvariant
<1>2. UNCHANGED <<pulled, managed>>
  BY DEF Life!Operator, Life!Request, Life!WriteStatus, Life!WriteFails, Life!PublishResolution,
         Life!workerVars
<1>3. CASE Life!WriteStatus(o)
  <2> DEFINE i == req[o].incident
  <2>1. /\ committed' = [committed EXCEPT ![i] = @ \cup {req[o].status}]
        /\ step' = [step EXCEPT ![o] = "publish"] /\ UNCHANGED <<req, resolutions>>
    BY <1>3 DEF Life!WriteStatus
  <2>2. req[o].incident \in Life!Ids
    BY <1>1, <1>3, Fields DEF Life!WriteStatus, LifeTypes
  <2>3. \A j, t : Written(j, t) /\ j \in Life!Ids => t \in committed'[j]
    BY <1>1, <2>1, Fields DEF Written
  <2>4. req[o].status \in committed'[i]
    BY <1>1, <2>1, <2>2, Fields
  <2>5. ASSUME NEW p \in Operators, step'[p] = "publish" PROVE Written(req[p].incident, req[p].status)'
    <3>1. CASE p = o
      BY <2>1, <2>4, <3>1 DEF Written
    <3>2. CASE p # o
      <4>1. step[p] = "publish" /\ req[p].incident \in Life!Ids
        BY <1>1, <2>1, <2>5, <3>2, Fields DEF LifeTypes
      <4> QED BY <1>1, <2>1, <2>3, <4>1 DEF Told, Written
    <3> QED BY <3>1, <3>2
  <2>6. /\ \A n \in DOMAIN resolutions : resolutions[n].incident \in Life!Ids
        /\ \A n \in DOMAIN pulled : pulled[n].incident \in Life!Ids
    BY <1>1, Fields
  <2>7. /\ \A n \in DOMAIN resolutions : Written(resolutions[n].incident, resolutions[n].status)'
        /\ \A n \in DOMAIN pulled : Written(pulled[n].incident, pulled[n].status)'
    BY <1>1, <1>2, <2>1, <2>3, <2>6 DEF Told, Written
  <2>8. Life!NeverAhead'
    BY <1>1, <1>2, <2>3, Fields DEF Life!NeverAhead, Written
  <2> QED BY <1>2, <2>1, <2>5, <2>7, <2>8 DEF Told
<1>4. CASE Life!PublishResolution(o)
  <2>1. /\ step[o] = "publish" /\ UNCHANGED committed
        /\ step' = [step EXCEPT ![o] = "ready"] /\ req' = [req EXCEPT ![o] = Life!Idle]
        /\ resolutions' = Append(resolutions, req[o]) \/ resolutions' = resolutions
    BY <1>4 DEF Life!PublishResolution, Life!dbVars
  <2>2. \A p \in Operators : step'[p] = "publish" => step[p] = "publish" /\ req'[p] = req[p]
    BY <1>1, <2>1, Fields
  <2>3. \A n \in DOMAIN resolutions' :
            \/ resolutions'[n] = req[o]
            \/ n \in DOMAIN resolutions /\ resolutions'[n] = resolutions[n]
    <3>1. resolutions \in Seq(Life!Resolution) /\ req[o] \in Life!Resolution
      BY <1>1, <2>1, Fields DEF LifeTypes
    <3>2. CASE resolutions' = Append(resolutions, req[o])
      BY <3>1, <3>2
    <3> QED BY <2>1, <3>2
  <2>4. \A n \in DOMAIN resolutions' : Written(resolutions'[n].incident, resolutions'[n].status)
    BY <1>1, <2>1, <2>3 DEF Told
  <2> QED BY <1>1, <1>2, <2>1, <2>2, <2>4 DEF Told, Life!NeverAhead, Written
<1>5. CASE Life!WriteFails(o) \/ \E i \in Life!Ids, new \in Life!Statuses : Life!Request(o, i, new)
  <2>1. /\ UNCHANGED <<committed, resolutions>>
        /\ \E w \in {"ready", "write"} : step' = [step EXCEPT ![o] = w]
        /\ \E q : req' = [req EXCEPT ![o] = q]
    BY <1>5 DEF Life!WriteFails, Life!Request, Life!dbVars
  <2>2. \A p \in Operators : step'[p] = "publish" => step[p] = "publish" /\ req'[p] = req[p]
    BY <1>1, <2>1, Fields
  <2> QED BY <1>1, <1>2, <2>1, <2>2 DEF Told, Life!NeverAhead, Written
<1> QED BY <1>3, <1>4, <1>5 DEF Life!Operator

\* The same while the manager handles its messages.
LEMMA ToldOfAssociation ==
    ASSUME LifeInvariant, Life!Association
    PROVE  Told' /\ Life!NeverAhead'
<1>1. LifeTypes /\ Told /\ Life!NeverAhead
  BY DEF LifeInvariant
<1>2. UNCHANGED <<committed, step, req>>
  BY DEF Life!Association, Life!Pull, Life!NoFrame, Life!Frames, Life!Frame, Life!Crash, Life!Stop,
         Life!dbVars, Life!operatorVars
<1>3. CASE Life!Pull
  <2>1. PICK n \in 0..Len(resolutions) :
            /\ pulled' = SubSeq(resolutions, 1, n)
            /\ resolutions' = SubSeq(resolutions, n + 1, Len(resolutions))
    BY <1>3 DEF Life!Pull
  <2>2. /\ \A k \in DOMAIN pulled' : k \in DOMAIN resolutions /\ pulled'[k] = resolutions[k]
        /\ \A k \in DOMAIN resolutions' :
               k + n \in DOMAIN resolutions /\ resolutions'[k] = resolutions[k + n]
    <3>1. resolutions \in Seq(Life!Resolution)
      BY <1>1, Fields
    <3> QED BY <2>1, <3>1
  <2>3. UNCHANGED managed
    BY <1>3 DEF Life!Pull
  <2> QED BY <1>1, <1>2, <2>2, <2>3 DEF Told, Life!NeverAhead, Written
<1>4. CASE Life!NoFrame
  <2>1. UNCHANGED <<managed, resolutions>> /\ pulled' = <<>>
    BY <1>4 DEF Life!NoFrame
  <2> QED BY <1>1, <1>2, <2>1 DEF Told, Life!NeverAhead, Written
<1>5. CASE Life!Crash \/ Life!Stop
  <2>1. DOMAIN managed' = {} /\ UNCHANGED resolutions /\ pulled' \in {<<>>, pulled}
    BY <1>5 DEF Life!Crash, Life!Stop
  <2> QED BY <1>1, <1>2, <2>1 DEF Told, Life!NeverAhead, Written
<1>6. CASE Life!Frames
  <2>1. PICK last \in raised..MaxIncidents, kept \in SUBSET DOMAIN managed :
          managed' = [i \in kept \cup (raised + 1..last) |->
                         IF i \in kept THEN Life!NewStatus(i) ELSE "UNCONFIRMED"]
    BY <1>1, <1>6, FrameShape DEF LifeTypes
  <2>2. pulled' = <<>> /\ UNCHANGED resolutions
    BY <1>6 DEF Life!Frames, Life!Frame
  <2>3. Life!NeverAhead'
    <3> SUFFICES ASSUME NEW i \in DOMAIN managed', managed'[i] # "UNCONFIRMED"
                 PROVE  managed'[i] \in committed[i]
      BY <1>2 DEF Life!NeverAhead
    <3>1. i \in kept /\ i \in DOMAIN managed /\ managed'[i] = Life!NewStatus(i)
      BY <2>1
    <3>2. CASE Life!NewStatus(i) = managed[i]
      BY <1>1, <3>1, <3>2 DEF Life!NeverAhead
    <3>3. CASE Life!NewStatus(i) # managed[i]
      <4>1. PICK n \in DOMAIN pulled : pulled[n].incident = i /\ Life!NewStatus(i) = pulled[n].status
        BY <1>1, <3>3, NewStatusIsPulled, Fields
      <4>2. Written(pulled[n].incident, pulled[n].status)
        BY <1>1 DEF Told
      <4> QED BY <3>1, <4>1, <4>2 DEF Written
    <3> QED BY <3>2, <3>3
  <2> QED BY <1>1, <1>2, <2>2, <2>3 DEF Told, Written
<1> QED BY <1>3, <1>4, <1>5, <1>6 DEF Life!Association

\* The same while the output thread goes on: it writes rows, and no operator's status.
LEMMA ToldOfOutput ==
    ASSUME LifeInvariant, Life!Output
    PROVE  Told' /\ Life!NeverAhead'
<1>1. UNCHANGED <<managed, step, req, resolutions, pulled, committed>>
  BY DEF Life!Output, Life!CreateRow, Life!ReadRow, Life!WriteRow, Life!dbVars, Life!operatorVars,
         Life!workerVars
<1> QED BY <1>1 DEF LifeInvariant, Told, Life!NeverAhead, Written

-----------------------------------------------------------------------------
\* The types hold, for every number of operators.
THEOREM LifeTyping == Life!Spec => []LifeTypes
<1> QED BY TypesStart, TypesStep, PTL DEF Life!Spec

\* The manager never believes a status that no operator wrote: what it was told was
\* committed before it was published, however many operators write, and whatever they
\* and the output thread overwrite.
THEOREM ManagerIsBehind == Life!Spec => []NeverAhead
<1>1. Life!Init => LifeInvariant
  <2>1. ASSUME Life!Init PROVE Told /\ Life!NeverAhead
    BY <2>1 DEF Life!Init, Told, Life!NeverAhead
  <2> QED BY <2>1, TypesStart DEF LifeInvariant
<1>2. LifeInvariant /\ [Life!Next]_(Life!vars) => LifeInvariant'
  <2> SUFFICES ASSUME LifeInvariant, [Life!Next]_(Life!vars) PROVE LifeInvariant'
    OBVIOUS
  <2>1. LifeTypes'
    BY TypesStep DEF LifeInvariant
  <2>2. ASSUME NEW o \in Operators, Life!Operator(o) PROVE Told' /\ Life!NeverAhead'
    BY <2>2, ToldOfOperator
  <2>3. ASSUME Life!Association PROVE Told' /\ Life!NeverAhead'
    BY <2>3, ToldOfAssociation
  <2>4. ASSUME Life!Output PROVE Told' /\ Life!NeverAhead'
    BY <2>4, ToldOfOutput
  <2>5. ASSUME UNCHANGED Life!vars PROVE Told' /\ Life!NeverAhead'
    <3>1. UNCHANGED <<committed, step, req, resolutions, pulled, managed>>
      BY <2>5 DEF Life!vars, Life!dbVars, Life!operatorVars, Life!workerVars
    <3> QED BY <3>1 DEF LifeInvariant, Told, Life!NeverAhead, Written
  <2> QED BY <2>1, <2>2, <2>3, <2>4, <2>5 DEF Life!Next, LifeInvariant
<1>3. LifeInvariant => NeverAhead
  BY DEF LifeInvariant, NeverAhead
<1> QED BY <1>1, <1>2, <1>3, PTL DEF Life!Spec

\* Whatever the operators do, an incident the manager knows to be confirmed is dropped
\* only by a frame that applies an explicit RESOLVED for it: not by its bag being
\* attended again, and not by any other status.
THEOREM ConfirmedStay == Life!Spec => ConfirmedStays
<1>1. ASSUME LifeTypes, [Life!Next]_(Life!vars), NEW i \in DOMAIN managed, managed[i] # "UNCONFIRMED",
             i \notin DOMAIN managed', pc' \notin {"crashed", "stopped"}
      PROVE  \E n \in DOMAIN pulled : pulled[n] = [incident |-> i, status |-> "RESOLVED"]
  <2>1. managed' # managed
    BY <1>1
  <2>2. CASE Life!Frames
    <3>1. PICK attended \in SUBSET unattended, last \in raised..MaxIncidents :
            managed' = [j \in {k \in DOMAIN managed :
                                   Life!Deletions(k, Life!SystemResolutions(attended)) = 0}
                              \cup (raised + 1..last) |->
                          IF j \in {k \in DOMAIN managed :
                                       Life!Deletions(k, Life!SystemResolutions(attended)) = 0}
                          THEN Life!NewStatus(j) ELSE "UNCONFIRMED"]
      BY <1>1, <2>2, FrameShape DEF LifeTypes
    <3>2. Life!Deletions(i, Life!SystemResolutions(attended)) # 0
      BY <1>1, <3>1
    <3>3. i \notin Life!SystemResolutions(attended)
      BY <1>1 DEF Life!SystemResolutions
    <3> QED BY <1>1, <3>2, <3>3, DeletionIsPulled, Fields
  <2>3. CASE Life!Crash
    BY <1>1, <2>3 DEF Life!Crash
  <2>4. CASE Life!Stop
    BY <1>1, <2>4 DEF Life!Stop
  <2> QED BY <1>1, <2>1, <2>2, <2>3, <2>4
          DEF Life!Next, Life!Association, Life!Output, Life!Operator, Life!Pull, Life!NoFrame,
              Life!CreateRow, Life!ReadRow, Life!WriteRow,
              Life!Request, Life!WriteStatus, Life!WriteFails, Life!PublishResolution, Life!vars,
              Life!workerVars
<1>2. LifeTypes /\ [Life!Next]_(Life!vars) =>
        [\A i \in DOMAIN managed :
            managed[i] # "UNCONFIRMED" /\ i \notin DOMAIN managed'
                                       /\ pc' \notin {"crashed", "stopped"}
                => \E n \in DOMAIN pulled :
                       pulled[n] = [incident |-> i, status |-> "RESOLVED"]]_(Life!vars)
  BY <1>1
<1> QED BY <1>2, LifeTyping, PTL DEF Life!Spec, ConfirmedStays, Life!ConfirmedStays

-----------------------------------------------------------------------------
(***************************************************************************)
(* Each of the two specifications that the runs check has what is proved   *)
(* of its part.                                                            *)
(***************************************************************************)
THEOREM AssociationSafety ==
    /\ SyncSpec => []NothingDropped /\ []PushedInOrder
    /\ LifeSpec => []NeverAhead /\ ConfirmedStays
<1>1. SyncSpec => Spec
  <2>1. AssociationInit => Init
    BY DEF AssociationInit
  <2>2. [Next /\ UNCHANGED lifeVars]_associationVars => [Next]_vars
    BY DEF associationVars
  <2> QED BY <2>1, <2>2, PTL DEF SyncSpec, Spec
<1>2. LifeSpec => Life!Spec
  <2>1. AssociationInit => Life!Init
    BY DEF AssociationInit
  <2>2. [Life!Next /\ UNCHANGED vars]_associationVars => [Life!Next]_(Life!vars)
    BY DEF associationVars, lifeVars, Life!vars, Life!dbVars, Life!operatorVars, Life!workerVars,
           Life!outputVars
  <2> QED BY <2>1, <2>2, PTL DEF LifeSpec, Life!Spec
<1>3. Life!Spec => []NeverAhead
  BY ManagerIsBehind
<1>4. SyncSpec => []NothingDropped /\ []PushedInOrder
  BY <1>1, NoDrop, Departures, PTL
<1>5. LifeSpec => []NeverAhead /\ ConfirmedStays
  BY <1>2, <1>3, ConfirmedStay, PTL
<1> QED BY <1>4, <1>5
=============================================================================
