------------------------------ MODULE FrameSync ------------------------------
(***************************************************************************)
(* MessageOrganizer (shared/rabbit_messenger.py): the thread that joins    *)
(* the messages of several consumers into one batch for each frame.        *)
(*                                                                         *)
(* Producers send one message per frame, in order; the broker may lose     *)
(* some (auto_ack) and a publisher that retries may send one twice.  Every *)
(* consumer hands over what arrives in a FIFO queue.  A batch is pushed    *)
(* when it is complete; the incomplete ones that were begun before it are  *)
(* pushed first, their missing entries None.                               *)
(***************************************************************************)
EXTENDS Naturals, FiniteSets, SequencesExt

CONSTANTS Keys,       \* the consumers, a sequence in dictionary order
          MaxFrame,   \* bound: the last frame sent
          MaxLost,    \* bound: messages lost on the way
          MaxAgain    \* bound: messages sent twice

KeySet == {Keys[i] : i \in DOMAIN Keys}
Frames == 1..MaxFrame

ASSUME FrameSyncAssumption ==
    /\ Keys \in Seq(KeySet) /\ Keys # <<>>
    /\ MaxFrame \in Nat /\ MaxLost \in Nat /\ MaxAgain \in Nat

VARIABLES next,       \* next frame of each producer
          lost,       \* messages lost: <<key, frame>>
          again,      \* number of messages sent twice
          queue,      \* frames waiting in each consumer's queue
          turn,       \* index of the consumer to be polled; past the last: the scan
          order,      \* frames of the dictionary of batches, in insertion order
          messages,   \* for each frame, the keys whose message is in its batch
          pushed      \* batches put on the output queue: <<frame, keys>>

vars == <<next, lost, again, queue, turn, order, messages, pushed>>

TypeOK ==
    /\ next \in [KeySet -> 1..MaxFrame + 1]
    /\ lost \subseteq KeySet \X Frames
    /\ again \in 0..MaxAgain
    /\ queue \in [KeySet -> Seq(Frames)]
    /\ turn \in 1..Len(Keys) + 1
    /\ order \in Seq(Frames)
    /\ messages \in [Frames -> SUBSET KeySet]
    /\ pushed \in Seq(Frames \X SUBSET KeySet)

Init ==
    /\ next = [k \in KeySet |-> 1]
    /\ lost = {} /\ again = 0
    /\ queue = [k \in KeySet |-> <<>>]
    /\ turn = 1
    /\ order = <<>>
    /\ messages = [f \in Frames |-> {}]
    /\ pushed = <<>>

-----------------------------------------------------------------------------
\* The message of the next frame arrives, does not arrive, or arrives twice.
Advance(k) ==
    /\ next[k] \in Frames
    /\ next' = [next EXCEPT ![k] = @ + 1]
    /\ UNCHANGED <<turn, order, messages, pushed>>

Arrive(k) ==
    /\ Advance(k)
    /\ queue' = [queue EXCEPT ![k] = Append(@, next[k])]
    /\ UNCHANGED <<lost, again>>

Lose(k) ==
    /\ Advance(k)
    /\ Cardinality(lost) < MaxLost
    /\ lost' = lost \cup {<<k, next[k]>>}
    /\ UNCHANGED <<queue, again>>

ArriveTwice(k) ==
    /\ Advance(k)
    /\ again < MaxAgain
    /\ again' = again + 1
    /\ queue' = [queue EXCEPT ![k] = @ \o <<next[k], next[k]>>]
    /\ UNCHANGED lost

\* get_nowait on the consumers in turn; a message of the same key replaces the
\* one its batch holds.
Poll ==
    /\ turn \in DOMAIN Keys
    /\ turn' = turn + 1
    /\ LET k == Keys[turn]
       IN  \/ queue[k] = <<>> /\ UNCHANGED <<queue, order, messages>>
           \/ /\ queue[k] # <<>>
              /\ queue' = [queue EXCEPT ![k] = Tail(@)]
              /\ LET f == Head(queue[k])
                 IN  /\ messages' = [messages EXCEPT ![f] = @ \cup {k}]
                     /\ order' = IF messages[f] = {} THEN Append(order, f) ELSE order
    /\ UNCHANGED <<next, lost, again, pushed>>

\* push_frames puts the first n batches of the dictionary on the output queue and
\* deletes them.
Complete(f) == messages[f] = KeySet
LastComplete == SelectLastInSeq(order, Complete)
Batches(s) == [i \in DOMAIN s |-> <<s[i], messages[s[i]]>>]
Delete(n) ==
    /\ order' = SubSeq(order, n + 1, Len(order))
    /\ messages' = [f \in Frames |-> IF f \in ToSet(SubSeq(order, 1, n)) THEN {} ELSE messages[f]]
    /\ UNCHANGED <<next, lost, again, queue>>

\* (slips: a complete batch also takes the incomplete ones begun after it along;
\* incomplete ones are deleted without being pushed; the scan stops at the first
\* incomplete one)
ScanEverything ==
    LET n == IF LastComplete = 0 THEN 0 ELSE Len(order)
    IN  /\ turn = Len(Keys) + 1
        /\ turn' = 1
        /\ pushed' = pushed \o Batches(SubSeq(order, 1, n))
        /\ Delete(n)
ScanDropsPartial ==
    /\ turn = Len(Keys) + 1
    /\ turn' = 1
    /\ pushed' = pushed \o SelectSeq(Batches(SubSeq(order, 1, LastComplete)),
                                    LAMBDA b : b[2] = KeySet)
    /\ Delete(LastComplete)
ScanHeadOnly ==
    LET n == IF order # <<>> /\ Complete(Head(order)) THEN 1 ELSE 0
    IN  /\ turn = Len(Keys) + 1
        /\ turn' = 1
        /\ pushed' = pushed \o Batches(SubSeq(order, 1, n))
        /\ Delete(n)

\* The scan pushes every batch up to the last complete one, in insertion order.
Scan ==
    /\ turn = Len(Keys) + 1
    /\ turn' = 1
    /\ pushed' = pushed \o Batches(SubSeq(order, 1, LastComplete))
    /\ Delete(LastComplete)

Broker(k) == Arrive(k) \/ Lose(k) \/ ArriveTwice(k)
Organizer == Poll \/ Scan

Next == Organizer \/ \E k \in KeySet : Broker(k)

\* Producers go on until the last frame; the organizer's loop never stops.
Fairness == WF_vars(Organizer) /\ \A k \in KeySet : WF_vars(Broker(k))

Spec == Init /\ [][Next]_vars
FairSpec == Spec /\ Fairness

-----------------------------------------------------------------------------
\* A message that was pushed; one that may still reach a batch.
Pushed(f, k) == \E i \in DOMAIN pushed : pushed[i][1] = f /\ k \in pushed[i][2]
Coming(k, f) == Contains(queue[k], f) \/ f >= next[k]

\* A batch is given up only when what it misses can no longer come: unless a
\* message was sent twice, no frame is pushed more than once and nothing of a
\* frame that was pushed is still on its way to a batch.
GivenUpForGood ==
    again = 0 =>
        /\ IsInjective([i \in DOMAIN pushed |-> pushed[i][1]])
        /\ \A i \in DOMAIN pushed, k \in KeySet :
               ~Contains(queue[k], pushed[i][1]) /\ messages[pushed[i][1]] = {}

\* The complete batches leave in the order of their frames, whatever was lost.
\* (Incomplete ones may not: frame 2 can be pushed before a frame 1 begun later.)
CompleteInOrder ==
    again = 0 =>
        \A i, j \in DOMAIN pushed :
            i < j /\ pushed[i][2] = KeySet /\ pushed[j][2] = KeySet
                => pushed[i][1] < pushed[j][1]

\* How batches leave: association and reid get each frame once, and whole frames in
\* their order.
PushedInOrder == GivenUpForGood /\ CompleteInOrder

\* The organizer itself loses nothing: a message that reached a consumer is in
\* its queue, in a batch, or was pushed with the batch of its frame.
NothingDropped ==
    \A k \in KeySet : \A f \in Frames :
        f < next[k] /\ <<k, f>> \notin lost =>
            Contains(queue[k], f) \/ k \in messages[f] \/ Pushed(f, k)

\* The dictionary holds one batch for each frame it has messages of.  Without
\* repeated messages a consumer's frames come in order; a batch begun before that
\* of an earlier frame has a message that one can no longer get; and what lies
\* before a batch that was pushed complete can no longer be completed.
DictionaryMatches ==
    /\ \A i, j \in DOMAIN order : order[i] = order[j] => i = j
    /\ \A f \in Frames : messages[f] # {} <=> Contains(order, f)
Increasing(s) == \A i, j \in DOMAIN s : i < j => s[i] < s[j]
Below(s, f) == \A i \in DOMAIN s : s[i] < f
Above(s, f) == \A i \in DOMAIN s : f < s[i]
ConsumerInOrder(k) ==
    /\ Increasing(queue[k])
    /\ Below(queue[k], next[k])
    /\ \A f \in Frames : k \in messages[f] => f < next[k] /\ Above(queue[k], f)
Overtaken ==
    \A i, j \in DOMAIN order :
        i < j /\ order[i] > order[j] => ~(messages[order[i]] \subseteq messages[order[j]])
Closed(f) ==
    \A g \in 1..f : \E k \in KeySet : k \notin messages[g] /\ ~Coming(k, g)
PushedIsPast ==
    \A i \in DOMAIN pushed :
        /\ \A k \in KeySet : pushed[i][1] < next[k]
        /\ pushed[i][2] = KeySet => Closed(pushed[i][1])
Invariant ==
    /\ TypeOK
    /\ NothingDropped
    /\ DictionaryMatches
    /\ again = 0 => (\A k \in KeySet : ConsumerInOrder(k)) /\ Overtaken /\ PushedIsPast
    /\ GivenUpForGood
    /\ CompleteInOrder

\* A frame all of whose messages reached the consumers is delivered whole in the
\* end, whatever its neighbours lost.
WholeFramesArrive ==
    \A f \in Frames :
        (\A k \in KeySet : next[k] > f /\ <<k, f>> \notin lost) ~>
            \E i \in DOMAIN pushed : pushed[i] = <<f, KeySet>>
=============================================================================
