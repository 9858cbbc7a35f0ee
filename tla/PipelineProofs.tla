---------------------------- MODULE PipelineProofs ----------------------------
(***************************************************************************)
(* The threads frames pass through, for every capacity of the queues, and  *)
(* every number of batches, messages, frames, attempts and runs.           *)
(*                                                                         *)
(* The pipeline of the ingestor: its types, and that it implements         *)
(* LossyFifo.  The invariant is that a batch which is nearer to the worker *)
(* is older: in each queue, and between the places along the way, the      *)
(* hands of the threads among them.                                        *)
(*                                                                         *)
(* A publisher and a consumer: after an orderly end no message of one run  *)
(* reaches the next, however connections and the broker come and go.  The  *)
(* invariant follows the emptiness of the queue and of the client's buffer *)
(* from the end of a run to the next run.                                  *)
(*                                                                         *)
(* The writer of the annotated video: its saves are as many as the time    *)
(* between the frames shown.  They are sums over sequences, and sums are   *)
(* folds: a fold is shown to have a solution, and the partial sums to      *)
(* determine it.                                                           *)
(***************************************************************************)
EXTENDS MCPipeline, FiniteSetTheorems, TLAPS

Rising(s) == \A i, j \in DOMAIN s : i < j => s[i] < s[j]

\* The batches at every place, from the one the worker took to the one just captured.
Waiting(q) == {queue[q][i] : i \in DOMAIN queue[q]}
Carried(t) == {held[t]} \ {NoBatch}
Places == 0..6
Place ==
    [n \in Places |->
        CASE n = 0 -> {tracked}
          [] n = 1 -> Waiting("worker") [] n = 2 -> Carried("output")
          [] n = 3 -> Waiting("output") [] n = 4 -> Carried("ingestor")
          [] n = 5 -> Waiting("frames") [] n = 6 -> Carried("frames")]

Chain(P) == \A m, n \in Places : m < n => \A a \in P[m], b \in P[n] : a < b
UpTo(P, newest) == \A n \in Places : \A a \in P[n] : a <= newest

HandsFull == \A t \in Writers : pc[t] \in {"detect", "put", "evict"} => held[t] # NoBatch
Ordered ==
    /\ \A q \in Queues : Rising(queue[q])
    /\ Chain(Place) /\ UpTo(Place, id)
Invariant == TypeOK /\ HandsFull /\ Ordered

-----------------------------------------------------------------------------
\* A batch newer than a rising queue is put at its end.
LEMMA Appended ==
    ASSUME NEW s \in Seq(Nat), NEW m \in Nat, Rising(s), \A i \in DOMAIN s : s[i] < m
    PROVE  /\ Append(s, m) \in Seq(Nat) /\ Rising(Append(s, m))
           /\ Len(Append(s, m)) = Len(s) + 1
           /\ {Append(s, m)[i] : i \in DOMAIN Append(s, m)} = {s[i] : i \in DOMAIN s} \cup {m}
<1>1. /\ Append(s, m) \in Seq(Nat) /\ Len(Append(s, m)) = Len(s) + 1
      /\ DOMAIN Append(s, m) = 1..Len(s) + 1 /\ DOMAIN s = 1..Len(s)
      /\ \A i \in 1..Len(s) : Append(s, m)[i] = s[i]
      /\ Append(s, m)[Len(s) + 1] = m
  OBVIOUS
<1>2. Rising(Append(s, m))
  BY <1>1 DEF Rising
<1>3. \A i \in 1..Len(s) + 1 : i \in 1..Len(s) \/ i = Len(s) + 1
  OBVIOUS
<1>4. {Append(s, m)[i] : i \in DOMAIN Append(s, m)} \subseteq {s[i] : i \in DOMAIN s} \cup {m}
  BY <1>1, <1>3
<1>5. \A i \in 1..Len(s) : i \in 1..Len(s) + 1
  OBVIOUS
<1>6. Len(s) + 1 \in 1..Len(s) + 1
  OBVIOUS
<1>7. {s[i] : i \in DOMAIN s} \cup {m} \subseteq {Append(s, m)[i] : i \in DOMAIN Append(s, m)}
  BY <1>1, <1>5, <1>6
<1> QED BY <1>1, <1>2, <1>4, <1>7

\* The head of a rising queue is taken.
LEMMA Shortened ==
    ASSUME NEW s \in Seq(Nat), s # <<>>, Rising(s)
    PROVE  /\ Tail(s) \in Seq(Nat) /\ Rising(Tail(s)) /\ Len(Tail(s)) = Len(s) - 1
           /\ Head(s) \in Nat /\ Head(s) \in {s[i] : i \in DOMAIN s}
           /\ {Tail(s)[i] : i \in DOMAIN Tail(s)} \subseteq {s[i] : i \in DOMAIN s}
           /\ \A i \in DOMAIN Tail(s) : Head(s) < Tail(s)[i]
<1>1. /\ Tail(s) \in Seq(Nat) /\ Len(Tail(s)) = Len(s) - 1 /\ Len(s) \in Nat /\ Len(s) # 0
      /\ DOMAIN Tail(s) = 1..Len(s) - 1 /\ DOMAIN s = 1..Len(s)
      /\ \A i \in 1..Len(s) - 1 : Tail(s)[i] = s[i + 1]
      /\ Head(s) = s[1]
  OBVIOUS
<1>2. \A i \in 1..Len(s) - 1 : i + 1 \in 1..Len(s) /\ 1 < i + 1
  BY <1>1
<1>3. 1 \in 1..Len(s)
  BY <1>1
<1>4. Rising(Tail(s))
  BY <1>1, <1>2 DEF Rising
<1>5. \A i \in DOMAIN Tail(s) : Head(s) < Tail(s)[i]
  BY <1>1, <1>2, <1>3 DEF Rising
<1>6. Head(s) \in Nat /\ Head(s) \in {s[i] : i \in DOMAIN s}
  BY <1>1, <1>3
<1>7. {Tail(s)[i] : i \in DOMAIN Tail(s)} \subseteq {s[i] : i \in DOMAIN s}
  BY <1>1, <1>2
<1> QED BY <1>1, <1>4, <1>5, <1>6, <1>7

\* A batch moves from one place to the one before it, or is lost: the chain stays one.
LEMMA Moved ==
    ASSUME NEW A, NEW B, NEW n \in 0..5, NEW m \in A[n + 1], NEW newest,
           Chain(A), UpTo(A, newest),
           \A k \in Places : k # n => B[k] \subseteq A[k],
           B[n] \subseteq A[n] \cup {m},
           \A b \in B[n + 1] : m < b
    PROVE  Chain(B) /\ UpTo(B, newest)
<1>1. n + 1 \in Places /\ n \in Places
  BY DEF Places
<1>2. ASSUME NEW i \in Places, NEW j \in Places, i < j, NEW a \in B[i], NEW b \in B[j] PROVE a < b
  <2>1. CASE a \in A[i] /\ b \in A[j]
    BY <1>2, <2>1 DEF Chain
  <2>2. CASE i = n /\ a = m /\ j = n + 1
    BY <2>2
  <2>3. CASE i = n /\ a = m /\ j # n + 1
    <3>1. n + 1 < j /\ j # n /\ b \in A[j]
      BY <1>1, <1>2, <2>3 DEF Places
    <3> QED BY <1>1, <2>3, <3>1 DEF Chain
  <2>4. CASE j = n /\ b = m
    <3>1. i < n + 1 /\ a \in A[i]
      BY <1>1, <1>2, <2>4 DEF Places
    <3> QED BY <1>1, <2>4, <3>1 DEF Chain
  <2> QED BY <2>1, <2>2, <2>3, <2>4
<1>3. UpTo(B, newest)
  BY <1>1 DEF UpTo
<1> QED BY <1>2, <1>3 DEF Chain

\* Batches are lost on the way: the chain stays one.
LEMMA Lost ==
    ASSUME NEW A, NEW B, NEW newest, Chain(A), UpTo(A, newest), \A k \in Places : B[k] \subseteq A[k]
    PROVE  Chain(B) /\ UpTo(B, newest)
BY DEF Chain, UpTo

-----------------------------------------------------------------------------
\* The constants' assumption, as the steps use it.
LEMMA Bounds ==
    /\ MaxBatches \in Nat /\ Patience \in Nat
    /\ \A q \in Queues : Capacity[q] \in Nat \ {0}
BY PipelineAssumption DEF Queues, Capacity

\* The types of what is left of a queue.
LEMMA Taken ==
    ASSUME NEW q \in Queues, queue \in [Queues -> Seq(Batch)], queue[q] # <<>>,
           \A r \in Queues : Len(queue[r]) <= Capacity[r],
           queue' = [queue EXCEPT ![q] = Tail(@)]
    PROVE  /\ Head(queue[q]) \in Batch
           /\ queue' \in [Queues -> Seq(Batch)]
           /\ \A r \in Queues : Len(queue'[r]) <= Capacity[r]
<1>1. queue[q] \in Seq(Batch)
  OBVIOUS
<1>2. /\ Tail(queue[q]) \in Seq(Batch) /\ Len(Tail(queue[q])) = Len(queue[q]) - 1
      /\ Head(queue[q]) \in Batch /\ Len(queue[q]) \in Nat
  BY <1>1
<1>3. \A r \in Queues : queue'[r] = IF r = q THEN Tail(queue[q]) ELSE queue[r]
  OBVIOUS
<1>4. queue' \in [Queues -> Seq(Batch)]
  BY <1>2
<1>5. \A r \in Queues : Len(queue'[r]) <= Capacity[r]
  BY <1>2, <1>3, Bounds
<1> QED BY <1>2, <1>4, <1>5

\* The types of a queue with one batch more.
LEMMA Added ==
    ASSUME NEW q \in Queues, NEW s \in Seq(Batch), NEW b \in Batch,
           queue \in [Queues -> Seq(Batch)], Len(s) < Capacity[q],
           \A r \in Queues : Len(queue[r]) <= Capacity[r],
           queue' = [queue EXCEPT ![q] = Append(s, b)]
    PROVE  /\ queue' \in [Queues -> Seq(Batch)]
           /\ \A r \in Queues : Len(queue'[r]) <= Capacity[r]
<1>1. Append(s, b) \in Seq(Batch) /\ Len(Append(s, b)) = Len(s) + 1 /\ Len(s) \in Nat
  OBVIOUS
<1>2. \A r \in Queues : queue'[r] = IF r = q THEN Append(s, b) ELSE queue[r]
  OBVIOUS
<1>3. queue' \in [Queues -> Seq(Batch)]
  BY <1>1
<1>4. \A r \in Queues : Len(queue'[r]) <= Capacity[r]
  BY <1>1, <1>2, Bounds
<1> QED BY <1>3, <1>4

\* A queue after bounded_put, whichever way it went.
LEMMA Put ==
    ASSUME TypeOK, HandsFull, NEW t \in Writers, NEW q \in Queues, NEW where,
           BoundedPut(t, q, where)
    PROVE  /\ queue' \in [Queues -> Seq(Batch)]
           /\ \A r \in Queues : Len(queue'[r]) <= Capacity[r]
           /\ held' \in [Writers -> Batch \cup {NoBatch}]
<1> USE DEF TypeOK
<1>1. /\ queue \in [Queues -> Seq(Batch)] /\ held \in [Writers -> Batch \cup {NoBatch}]
      /\ \A r \in Queues : Len(queue[r]) <= Capacity[r]
  OBVIOUS
<1>2. held[t] \in Batch
  BY <1>1 DEF BoundedPut, PutNowait, Evict, HandsFull, Hand
<1>3. held' = held \/ held' = [held EXCEPT ![t] = NoBatch]
  BY DEF BoundedPut, PutNowait, Evict, LetGo
<1>4. held' \in [Writers -> Batch \cup {NoBatch}]
  BY <1>1, <1>3
<1>5. CASE queue' = queue
  BY <1>1, <1>4, <1>5
<1>6. CASE Len(queue[q]) < Capacity[q] /\ queue' = [queue EXCEPT ![q] = Append(@, held[t])]
  <2>1. queue[q] \in Seq(Batch) /\ queue' = [queue EXCEPT ![q] = Append(queue[q], held[t])]
    BY <1>1, <1>6
  <2> QED BY <1>1, <1>2, <1>4, <1>6, <2>1, Added
<1>7. CASE queue[q] # <<>> /\ queue' = [queue EXCEPT ![q] = Append(Tail(@), held[t])]
  <2>1. queue[q] \in Seq(Batch) /\ queue' = [queue EXCEPT ![q] = Append(Tail(queue[q]), held[t])]
    BY <1>1, <1>7
  <2>2. /\ Tail(queue[q]) \in Seq(Batch) /\ Len(Tail(queue[q])) = Len(queue[q]) - 1
        /\ Len(queue[q]) \in Nat
    BY <1>7, <2>1
  <2>3. Len(Tail(queue[q])) < Capacity[q]
    BY <1>1, <2>2, Bounds
  <2> QED BY <1>1, <1>2, <1>4, <2>1, <2>2, <2>3, Added
<1>8. CASE queue[q] = <<>> /\ queue' = [queue EXCEPT ![q] = queue[q]]
  BY <1>1, <1>4, <1>8
<1> QED
  <2>1. CASE PutNowait(t, q, where)
    BY <1>5, <1>6, <2>1 DEF PutNowait
  <2>2. CASE Evict(t, q, where)
    BY <1>7, <1>8, <2>2 DEF Evict
  <2> QED BY <2>1, <2>2 DEF BoundedPut

\* Every step of the pipeline keeps the types of its state.
LEMMA TypesStep ==
    ASSUME TypeOK, HandsFull, Next
    PROVE  TypeOK'
<1> USE Bounds DEF TypeOK, vars, threadVars, ingestVars, flowVars, Threads, Queues, Writers
<1>1. ASSUME NEW t \in Threads, Begin(t) PROVE TypeOK'
  BY <1>1 DEF Begin, Starts
<1>2. ASSUME NEW t \in Threads, Die(t) PROVE TypeOK'
  BY <1>2 DEF Die
<1>3. CASE StopIngestor
  BY <1>3 DEF StopIngestor, Stop
<1>4. CASE SourcesChange
  BY <1>4 DEF SourcesChange, Capture
<1>5. CASE FilesEnd
  BY <1>5 DEF FilesEnd, Capture, End
<1>6. CASE CaptureEnds
  BY <1>6 DEF CaptureEnds, Capture, End
<1>7. CASE Collect
  <2>1. id' \in 0..MaxBatches /\ id' \in Batch
    BY <1>7 DEF Collect, Batch
  <2>2. held' \in [Writers -> Batch \cup {NoBatch}]
    BY <1>7, <2>1 DEF Collect
  <2>3. pc' \in PCs
    BY <1>7 DEF Collect, Frames, Goto, PCs
  <2> QED BY <1>7, <2>1, <2>2, <2>3 DEF Collect, Frames
<1>8. CASE BoundedPut("frames", "frames", "look")
  <2>1. /\ queue' \in [Queues -> Seq(Batch)] /\ held' \in [Writers -> Batch \cup {NoBatch}]
        /\ \A r \in Queues : Len(queue'[r]) <= Capacity[r]
    BY <1>8, Put
  <2>2. pc' = [pc EXCEPT !["frames"] = "look"] \/ pc' = [pc EXCEPT !["frames"] = "evict"]
    BY <1>8 DEF BoundedPut, PutNowait, Evict, LetGo, Goto
  <2>3. pc' \in PCs
    BY <2>2 DEF PCs
  <2>4. UNCHANGED <<sources, threadVars, ingestVars, id, tracked>>
    BY <1>8 DEF BoundedPut, PutNowait, Evict, Hand
  <2> QED BY <2>1, <2>3, <2>4
<1>9. CASE FramesEnds
  BY <1>9 DEF FramesEnds, Frames, End
<1>10. CASE Check
  BY <1>10 DEF Check, Ingestor, Goto, Quit, PCs
<1>11. CASE Fetch
  <2>1. queue.frames # <<>> /\ queue' = [queue EXCEPT !["frames"] = Tail(@)]
    BY <1>11 DEF Fetch
  <2>2. /\ Head(queue.frames) \in Batch /\ queue' \in [Queues -> Seq(Batch)]
        /\ \A q \in Queues : Len(queue'[q]) <= Capacity[q]
    BY <2>1, Taken
  <2>3. held' \in [Writers -> Batch \cup {NoBatch}]
    BY <1>11, <2>2 DEF Fetch
  <2>4. pc' \in PCs
    BY <1>11 DEF Fetch, Ingestor, Goto, Quit, PCs
  <2>5. recorded' \in BOOLEAN
    <3>1. recorded \in BOOLEAN
      BY Zenon
    <3>2. recorded' = recorded \/ recorded' = TRUE
      BY <1>11, Zenon DEF Fetch
    <3> QED BY <3>1, <3>2, Zenon
  <2>6. empties' \in 0..Patience
    BY <1>11 DEF Fetch
  <2> QED BY <1>11, <2>2, <2>3, <2>4, <2>5, <2>6 DEF Fetch, Ingestor, Quit
<1>12. CASE Detect
  BY <1>12 DEF Detect, Ingestor, Goto, PCs
<1>13. CASE FindEmpty
  BY <1>13 DEF FindEmpty, Ingestor, Goto, PCs
<1>14. CASE Empty
  <2>1. empties' \in 0..Patience
    BY <1>14 DEF Empty
  <2>2. pc' \in PCs
    BY <1>14 DEF Empty, Ingestor, Goto, Quit, PCs
  <2> QED BY <1>14, <2>1, <2>2 DEF Empty, Ingestor, Quit
<1>15. CASE Wait
  BY <1>15 DEF Wait, Ingestor, Goto, PCs
<1>16. CASE StopAll
  BY <1>16 DEF StopAll, Ingestor, Goto, Stop, PCs
<1>17. CASE JoinAll
  BY <1>17 DEF JoinAll, Ingestor, End
<1>18. CASE BoundedPut("ingestor", "output", "wait")
  <2>1. /\ queue' \in [Queues -> Seq(Batch)] /\ held' \in [Writers -> Batch \cup {NoBatch}]
        /\ \A r \in Queues : Len(queue'[r]) <= Capacity[r]
    BY <1>18, Put
  <2>2. pc' = [pc EXCEPT !["ingestor"] = "wait"] \/ pc' = [pc EXCEPT !["ingestor"] = "evict"]
    BY <1>18 DEF BoundedPut, PutNowait, Evict, LetGo, Goto
  <2>3. pc' \in PCs
    BY <2>2 DEF PCs
  <2>4. UNCHANGED <<sources, threadVars, ingestVars, id, tracked>>
    BY <1>18 DEF BoundedPut, PutNowait, Evict, Hand
  <2> QED BY <2>1, <2>3, <2>4
<1>19. CASE Forward
  <2>1. queue.output # <<>> /\ queue' = [queue EXCEPT !["output"] = Tail(@)]
    BY <1>19 DEF Forward
  <2>2. /\ Head(queue.output) \in Batch /\ queue' \in [Queues -> Seq(Batch)]
        /\ \A q \in Queues : Len(queue'[q]) <= Capacity[q]
    BY <2>1, Taken
  <2>3. held' \in [Writers -> Batch \cup {NoBatch}]
    BY <1>19, <2>2 DEF Forward
  <2>4. pc' \in PCs
    BY <1>19 DEF Forward, Output, Goto, PCs
  <2> QED BY <1>19, <2>2, <2>3, <2>4 DEF Forward, Output
<1>20. CASE StopWorkers
  BY <1>20 DEF StopWorkers, Output, Goto, Stop, PCs
<1>21. CASE JoinWorkers
  BY <1>21 DEF JoinWorkers, Output, End
<1>22. CASE BoundedPut("output", "worker", "get")
  <2>1. /\ queue' \in [Queues -> Seq(Batch)] /\ held' \in [Writers -> Batch \cup {NoBatch}]
        /\ \A r \in Queues : Len(queue'[r]) <= Capacity[r]
    BY <1>22, Put
  <2>2. pc' = [pc EXCEPT !["output"] = "get"] \/ pc' = [pc EXCEPT !["output"] = "evict"]
    BY <1>22 DEF BoundedPut, PutNowait, Evict, LetGo, Goto
  <2>3. pc' \in PCs
    BY <2>2 DEF PCs
  <2>4. UNCHANGED <<sources, threadVars, ingestVars, id, tracked>>
    BY <1>22 DEF BoundedPut, PutNowait, Evict, Hand
  <2> QED BY <2>1, <2>3, <2>4
<1>23. CASE Track
  <2>1. queue.worker # <<>> /\ queue' = [queue EXCEPT !["worker"] = Tail(@)]
    BY <1>23 DEF Track
  <2>2. /\ Head(queue.worker) \in Batch /\ queue' \in [Queues -> Seq(Batch)]
        /\ \A q \in Queues : Len(queue'[q]) <= Capacity[q]
    BY <2>1, Taken
  <2>3. tracked' \in 0..MaxBatches
    BY <1>23, <2>2 DEF Track, Batch
  <2> QED BY <1>23, <2>2, <2>3 DEF Track
<1>24. CASE WorkerEnds
  BY <1>24 DEF WorkerEnds, End
<1> HIDE DEF TypeOK
<1> QED BY <1>1, <1>2, <1>3, <1>4, <1>5, <1>6, <1>7, <1>8, <1>9, <1>10, <1>11, <1>12, <1>13,
       <1>14, <1>15, <1>16, <1>17, <1>18, <1>19, <1>20, <1>21, <1>22, <1>23, <1>24
    DEF Next, CaptureStep, FramesStep, IngestorStep, OutputStep, WorkerStep

\* A thread that is about to put a batch holds one.
LEMMA HandsStep ==
    ASSUME TypeOK, HandsFull, Next
    PROVE  HandsFull'
<1> DEFINE Full(t) == pc[t] \in {"detect", "put", "evict"} => held[t] # NoBatch
<1>1. /\ DOMAIN pc = Writers /\ held \in [Writers -> Nat] /\ id \in Nat
      /\ \A q \in Queues : queue[q] \in Seq(Batch)
  <2>1. DOMAIN pc = Writers
    BY DEF TypeOK, PCs, Writers
  <2>2. held \in [Writers -> Nat]
    BY Bounds DEF TypeOK, Batch, NoBatch
  <2>3. id \in Nat /\ \A q \in Queues : queue[q] \in Seq(Batch)
    BY Bounds DEF TypeOK
  <2> QED BY <2>1, <2>2, <2>3
<1>2. \A t \in Writers : Full(t)
  BY DEF HandsFull
<1>3. CASE UNCHANGED <<pc, held>>
  BY <1>3 DEF HandsFull
<1>4. ASSUME NEW t \in Writers, NEW where, where \notin {"detect", "put", "evict"}, Goto(t, where),
             \A u \in Writers \ {t} : held'[u] = held[u]
      PROVE  HandsFull'
  BY <1>1, <1>2, <1>4 DEF Goto, HandsFull
<1>5. ASSUME NEW t \in Writers, NEW where, Goto(t, where), held'[t] # NoBatch,
             \A u \in Writers \ {t} : held'[u] = held[u]
      PROVE  HandsFull'
  BY <1>1, <1>2, <1>5 DEF Goto, HandsFull
<1>6. ASSUME NEW t \in Writers, NEW q \in Queues, NEW where,
             where \notin {"detect", "put", "evict"}, BoundedPut(t, q, where)
      PROVE  HandsFull'
  <2>1. CASE LetGo(t, where)
    BY <1>1, <1>4, <1>6, <2>1 DEF LetGo
  <2>2. CASE Goto(t, "evict") /\ UNCHANGED held /\ pc[t] = "put"
    BY <1>2, <1>5, <2>2
  <2> QED BY <1>6, <2>1, <2>2 DEF BoundedPut, PutNowait, Evict
<1>7. Writers = {"frames", "ingestor", "output"} /\ Queues = {"frames", "output", "worker"}
  BY DEF Writers, Queues
<1>8. CASE Collect
  <2>1. held'["frames"] # NoBatch /\ \A u \in Writers \ {"frames"} : held'[u] = held[u]
    BY <1>1, <1>7, <1>8 DEF Collect, NoBatch
  <2> QED BY <1>5, <1>7, <1>8, <2>1 DEF Collect
<1>9. CASE Fetch
  <2>1. CASE Quit /\ UNCHANGED held
    BY <1>4, <1>7, <2>1 DEF Quit
  <2>2. CASE /\ held' = [held EXCEPT !.ingestor = Head(queue.frames)]
             /\ Goto("ingestor", "detect")
    <3>1. Head(queue.frames) \in Batch
      BY <1>1, <1>7, <1>9 DEF Fetch
    <3>2. held'["ingestor"] # NoBatch /\ \A u \in Writers \ {"ingestor"} : held'[u] = held[u]
      BY <1>1, <1>7, <2>2, <3>1 DEF Batch, NoBatch
    <3> QED BY <1>5, <1>7, <2>2, <3>2
  <2> QED BY <1>9, <2>1, <2>2 DEF Fetch
<1>10. CASE Forward
  <2>1. Head(queue.output) \in Batch
    BY <1>1, <1>7, <1>10 DEF Forward
  <2>2. held'["output"] # NoBatch /\ \A u \in Writers \ {"output"} : held'[u] = held[u]
    BY <1>1, <1>7, <1>10, <2>1 DEF Forward, Batch, NoBatch
  <2> QED BY <1>5, <1>7, <1>10, <2>2 DEF Forward
<1>11. CASE Detect
  <2>1. held'["ingestor"] # NoBatch /\ \A u \in Writers : held'[u] = held[u]
    BY <1>2, <1>7, <1>11 DEF Detect, Ingestor
  <2> QED BY <1>5, <1>7, <1>11, <2>1 DEF Detect
<1>12. CASE Check \/ FindEmpty \/ Empty \/ Wait \/ StopAll
  <2>1. UNCHANGED held
    BY <1>12 DEF Check, FindEmpty, Empty, Wait, StopAll
  <2>2. \E where \in {"check", "get", "empty", "stop", "join"} : Goto("ingestor", where)
    BY <1>12 DEF Check, FindEmpty, Empty, Wait, StopAll, Quit
  <2> QED BY <1>4, <1>7, <2>1, <2>2
<1>13. CASE StopWorkers
  BY <1>4, <1>7, <1>13 DEF StopWorkers
<1>14. CASE BoundedPut("frames", "frames", "look") \/ BoundedPut("ingestor", "output", "wait")
            \/ BoundedPut("output", "worker", "get")
  BY <1>6, <1>7, <1>14
<1>15. CASE \/ \E t \in Threads : Begin(t) \/ Die(t)
            \/ StopIngestor \/ CaptureStep \/ FramesEnds \/ JoinAll \/ JoinWorkers \/ WorkerStep
  BY <1>3, <1>15 DEF Begin, Die, StopIngestor, CaptureStep, SourcesChange, FilesEnd, CaptureEnds,
       Capture, FramesEnds, Frames, JoinAll, JoinWorkers, WorkerStep, Track, WorkerEnds, flowVars
<1> QED BY <1>8, <1>9, <1>10, <1>11, <1>12, <1>13, <1>14, <1>15
    DEF Next, FramesStep, IngestorStep, OutputStep

-----------------------------------------------------------------------------
\* The places one by one, before a step and after it.
LEMMA PlaceIs ==
    /\ Place[0] = {tracked} /\ Place[1] = Waiting("worker") /\ Place[2] = Carried("output")
    /\ Place[3] = Waiting("output") /\ Place[4] = Carried("ingestor")
    /\ Place[5] = Waiting("frames") /\ Place[6] = Carried("frames")
    /\ Place'[0] = {tracked'} /\ Place'[1] = Waiting("worker")' /\ Place'[2] = Carried("output")'
    /\ Place'[3] = Waiting("output")' /\ Place'[4] = Carried("ingestor")'
    /\ Place'[5] = Waiting("frames")' /\ Place'[6] = Carried("frames")'
BY DEF Place, Places

\* The places hold numbers.
LEMMA PlaceNat ==
    ASSUME TypeOK, NEW n \in Places, NEW a \in Place[n]
    PROVE  a \in Nat
<1>1. /\ queue \in [Queues -> Seq(Batch)] /\ held \in [Writers -> Batch \cup {NoBatch}]
      /\ tracked \in Nat /\ Batch \cup {NoBatch} \subseteq Nat
  BY Bounds DEF TypeOK, Batch, NoBatch
<1>2. Carried("frames") \cup Carried("ingestor") \cup Carried("output") \subseteq Nat
  BY <1>1 DEF Carried, Writers
<1>3. \A q \in Queues : Waiting(q) \subseteq Nat
  <2> SUFFICES ASSUME NEW q \in Queues, NEW i \in DOMAIN queue[q] PROVE queue[q][i] \in Nat
    BY DEF Waiting
  <2> QED BY <1>1
<1> QED BY <1>1, <1>2, <1>3, PlaceIs DEF Places, Queues

\* A step that moves no batch.
LEMMA Still ==
    ASSUME Ordered, UNCHANGED <<queue, held, id, tracked>>
    PROVE  Ordered'
<1>1. Place' = Place
  BY DEF Place, Waiting, Carried
<1> QED BY <1>1 DEF Ordered

\* A thread takes the oldest batch of a queue.
LEMMA Took ==
    ASSUME TypeOK, Ordered, NEW q \in Queues, queue[q] # <<>>,
           queue' = [queue EXCEPT ![q] = Tail(@)]
    PROVE  /\ \A r \in Queues : Rising(queue'[r])
           /\ Head(queue[q]) \in Nat /\ Head(queue[q]) \in Waiting(q)
           /\ Waiting(q)' \subseteq Waiting(q)
           /\ \A b \in Waiting(q)' : Head(queue[q]) < b
           /\ \A r \in Queues \ {q} : Waiting(r)' = Waiting(r)
<1>1. queue \in [Queues -> Seq(Batch)] /\ \A r \in Queues : Rising(queue[r])
  BY DEF TypeOK, Ordered
<1>2. queue[q] \in Seq(Nat)
  BY <1>1, Bounds DEF Batch
<1>3. /\ Rising(Tail(queue[q])) /\ Head(queue[q]) \in Nat
      /\ Head(queue[q]) \in {queue[q][i] : i \in DOMAIN queue[q]}
      /\ {Tail(queue[q])[i] : i \in DOMAIN Tail(queue[q])} \subseteq {queue[q][i] : i \in DOMAIN queue[q]}
      /\ \A i \in DOMAIN Tail(queue[q]) : Head(queue[q]) < Tail(queue[q])[i]
  BY <1>1, <1>2, Shortened
<1>4. queue'[q] = Tail(queue[q]) /\ \A r \in Queues \ {q} : queue'[r] = queue[r]
  BY <1>1
<1> QED BY <1>1, <1>3, <1>4 DEF Waiting

\* A thread puts its batch, newer than what waits, or finds the queue full.
LEMMA Gave ==
    ASSUME TypeOK, HandsFull, Ordered, NEW t \in Writers, NEW q \in Queues, NEW where,
           BoundedPut(t, q, where), \A b \in Waiting(q) : b < held[t]
    PROVE  \/ UNCHANGED <<queue, held>>
           \/ /\ \A r \in Queues : Rising(queue'[r])
              /\ held[t] \in Carried(t) /\ Carried(t)' = {}
              /\ Waiting(q)' \subseteq Waiting(q) \cup {held[t]}
              /\ \A r \in Queues \ {q} : Waiting(r)' = Waiting(r)
              /\ \A u \in Writers \ {t} : Carried(u)' = Carried(u)
<1> DEFINE Kept == {queue[q][i] : i \in DOMAIN queue[q]}
           Left == {queue'[q][i] : i \in DOMAIN queue'[q]}
<1>1. /\ queue \in [Queues -> Seq(Batch)] /\ held \in [Writers -> Batch \cup {NoBatch}]
      /\ \A r \in Queues : Rising(queue[r])
  BY DEF TypeOK, Ordered
<1>2. held[t] \in Batch /\ held[t] # NoBatch /\ held[t] \in Nat /\ queue[q] \in Seq(Nat)
  BY <1>1, Bounds DEF BoundedPut, PutNowait, Evict, HandsFull, Hand, Batch, NoBatch
<1>3. \A i \in DOMAIN queue[q] : queue[q][i] < held[t]
  BY DEF Waiting
<1>4. CASE UNCHANGED <<queue, held>>
  BY <1>4
<1>5. ASSUME LetGo(t, where), Rising(queue'[q]), Left \subseteq Kept \cup {held[t]},
             \A r \in Queues \ {q} : queue'[r] = queue[r]
      PROVE  /\ \A r \in Queues : Rising(queue'[r])
             /\ held[t] \in Carried(t) /\ Carried(t)' = {}
             /\ Waiting(q)' \subseteq Waiting(q) \cup {held[t]}
             /\ \A r \in Queues \ {q} : Waiting(r)' = Waiting(r)
             /\ \A u \in Writers \ {t} : Carried(u)' = Carried(u)
  <2>1. held'[t] = NoBatch /\ \A u \in Writers \ {t} : held'[u] = held[u]
    BY <1>1, <1>5 DEF LetGo
  <2>2. held[t] \in Carried(t) /\ Carried(t)' = {} /\ \A u \in Writers \ {t} : Carried(u)' = Carried(u)
    BY <1>2, <2>1 DEF Carried
  <2>3. Waiting(q)' \subseteq Waiting(q) \cup {held[t]}
        /\ \A r \in Queues \ {q} : Waiting(r)' = Waiting(r)
    BY <1>5 DEF Waiting
  <2> QED BY <1>1, <1>5, <2>2, <2>3
<1>6. CASE LetGo(t, where) /\ queue' = [queue EXCEPT ![q] = Append(@, held[t])]
  <2>1. queue'[q] = Append(queue[q], held[t]) /\ \A r \in Queues \ {q} : queue'[r] = queue[r]
    BY <1>1, <1>6
  <2>2. Rising(Append(queue[q], held[t]))
        /\ {Append(queue[q], held[t])[i] : i \in DOMAIN Append(queue[q], held[t])} = Kept \cup {held[t]}
    BY <1>1, <1>2, <1>3, Appended
  <2> QED BY <1>5, <1>6, <2>1, <2>2
<1>7. CASE LetGo(t, where) /\ queue[q] = <<>> /\ queue' = [queue EXCEPT ![q] = queue[q]]
  <2>1. \A r \in Queues : queue'[r] = queue[r]
    BY <1>1, <1>7
  <2> QED BY <1>1, <1>5, <1>7, <2>1
<1>8. CASE LetGo(t, where) /\ queue[q] # <<>> /\ queue' = [queue EXCEPT ![q] = Append(Tail(@), held[t])]
  <2> DEFINE s == Tail(queue[q])
  <2>1. queue'[q] = Append(s, held[t]) /\ \A r \in Queues \ {q} : queue'[r] = queue[r]
    BY <1>1, <1>8
  <2>2. /\ s \in Seq(Nat) /\ Rising(s)
        /\ {s[i] : i \in DOMAIN s} \subseteq Kept
    BY <1>1, <1>2, <1>8, Shortened
  <2>3. \A i \in DOMAIN s : s[i] < held[t]
    BY <1>3, <2>2
  <2> HIDE DEF s
  <2>4. Rising(Append(s, held[t]))
        /\ {Append(s, held[t])[i] : i \in DOMAIN Append(s,
           held[t])} = {s[i] : i \in DOMAIN s} \cup {held[t]}
    BY <1>2, <2>2, <2>3, Appended
  <2> QED BY <1>5, <1>8, <2>1, <2>2, <2>4
<1> QED
  <2>1. CASE PutNowait(t, q, where)
    BY <1>4, <1>6, <2>1 DEF PutNowait
  <2>2. CASE Evict(t, q, where)
    BY <1>7, <1>8, <2>2 DEF Evict
  <2> QED BY <2>1, <2>2 DEF BoundedPut

\* A step that brings a batch one place further keeps the order.
LEMMA Further ==
    ASSUME Ordered, NEW n \in 0..5, NEW m \in Place[n + 1],
           id' = id, \A r \in Queues : Rising(queue'[r]),
           \A k \in Places \ {n} : Place'[k] \subseteq Place[k],
           Place'[n] \subseteq Place[n] \cup {m},
           \A b \in Place'[n + 1] : m < b
    PROVE  Ordered'
<1>1. Chain(Place) /\ UpTo(Place, id)
  BY DEF Ordered
<1>2. \A k \in Places : k # n => Place'[k] \subseteq Place[k]
  OBVIOUS
<1> HIDE DEF Place
<1>3. Chain(Place') /\ UpTo(Place', id)
  BY <1>1, <1>2, Moved
<1>4. Chain(Place)' /\ UpTo(Place, id)'
  BY <1>3 DEF Chain, UpTo
<1> QED BY <1>4 DEF Ordered

\* Every step of the pipeline keeps the batches in order.
LEMMA OrderedStep ==
    ASSUME TypeOK, HandsFull, Ordered, Next
    PROVE  Ordered'
<1>1. Writers = {"frames", "ingestor", "output"} /\ Queues = {"frames", "output", "worker"}
      /\ Places = {0, 1, 2, 3, 4, 5, 6}
  BY DEF Writers, Queues, Places
<1>2. /\ held \in [Writers -> Batch \cup {NoBatch}] /\ id \in Nat
  BY Bounds DEF TypeOK
<1>3. CASE UNCHANGED <<queue, held, id, tracked>>
  BY <1>3, Still
<1>4. CASE Collect
  <2>1. id' = id + 1 /\ held'["frames"] = id + 1 /\ UNCHANGED <<queue, tracked>>
        /\ held'["ingestor"] = held["ingestor"] /\ held'["output"] = held["output"]
    BY <1>1, <1>2, <1>4 DEF Collect, Frames
  <2>2. \A k \in Places \ {6} : Place'[k] = Place[k]
    <3>1. \A q \in Queues : Waiting(q)' = Waiting(q)
      BY <2>1 DEF Waiting
    <3>2. Carried("ingestor")' = Carried("ingestor") /\ Carried("output")' = Carried("output")
      BY <2>1 DEF Carried
    <3> QED BY <1>1, <2>1, <3>1, <3>2, PlaceIs
  <2>3. Place'[6] = {id + 1}
    BY <1>2, <2>1, PlaceIs DEF Carried, NoBatch
  <2>4. Chain(Place) /\ UpTo(Place, id) /\ \A q \in Queues : Rising(queue[q])
    BY DEF Ordered
  <2> HIDE DEF Place
  <2>5. ASSUME NEW m \in Places, NEW n \in Places, m < n, NEW a \in Place'[m], NEW b \in Place'[n]
        PROVE  a < b
    <3>1. CASE n = 6
      <4>1. a \in Place[m] /\ a <= id /\ b = id + 1
        BY <2>2, <2>3, <2>4, <2>5, <3>1 DEF UpTo
      <4>2. a \in Nat
        BY <4>1, <2>5, PlaceNat
      <4> QED BY <1>2, <4>1, <4>2
    <3>2. CASE n # 6
      <4>1. m # 6 /\ Place'[m] = Place[m] /\ Place'[n] = Place[n]
        BY <1>1, <2>2, <2>5, <3>2
      <4> QED BY <2>4, <2>5, <4>1 DEF Chain
    <3> QED BY <3>1, <3>2
  <2>6. ASSUME NEW n \in Places, NEW a \in Place'[n] PROVE a <= id'
    <3>1. CASE n = 6
      BY <1>2, <2>1, <2>3, <2>6, <3>1
    <3>2. CASE n # 6
      <4>1. a \in Place[n] /\ a <= id
        BY <2>2, <2>4, <2>6, <3>2 DEF UpTo
      <4>2. a \in Nat
        BY <4>1, <2>6, PlaceNat
      <4> QED BY <1>2, <2>1, <4>1, <4>2
    <3> QED BY <3>1, <3>2
  <2>7. Chain(Place)' /\ UpTo(Place, id)'
    BY <2>5, <2>6 DEF Chain, UpTo
  <2> QED BY <2>1, <2>4, <2>7 DEF Ordered
<1>5. CASE BoundedPut("frames", "frames", "look")
  <2>1. UNCHANGED <<id, tracked>> /\ held["frames"] \in Place[6]
    BY <1>1, <1>5, PlaceIs DEF BoundedPut, PutNowait, Evict, Hand, HandsFull, Carried
  <2>2. \A b \in Waiting("frames") : b < held["frames"]
    BY <1>1, <2>1, PlaceIs DEF Ordered, Chain
  <2>3. CASE UNCHANGED <<queue, held>>
    BY <1>3, <2>1, <2>3
  <2>4. CASE ~UNCHANGED <<queue, held>>
    <3>1. /\ \A r \in Queues : Rising(queue'[r])
          /\ Place'[6] = {} /\ Place'[5] \subseteq Place[5] \cup {held["frames"]}
          /\ \A k \in Places \ {5} : Place'[k] \subseteq Place[k]
      BY <1>1, <1>5, <2>1, <2>2, <2>4, Gave, PlaceIs
    <3> QED BY <2>1, <3>1, Further
  <2> QED BY <2>3, <2>4
<1>6. CASE Fetch
  <2>1. queue["frames"] # <<>> /\ queue' = [queue EXCEPT !["frames"] = Tail(@)] /\ UNCHANGED <<id,
        tracked>>
    BY <1>6 DEF Fetch, Ingestor
  <2>2. held' = held \/ held' = [held EXCEPT !.ingestor = Head(queue.frames)]
    BY <1>6 DEF Fetch
  <2>3. /\ Carried("ingestor")' \subseteq Carried("ingestor") \cup {Head(queue.frames)}
        /\ Carried("frames")' = Carried("frames") /\ Carried("output")' = Carried("output")
    BY <1>1, <1>2, <2>2 DEF Carried
  <2>4. /\ \A r \in Queues : Rising(queue'[r])
        /\ Head(queue.frames) \in Place[5] /\ \A b \in Place'[5] : Head(queue.frames) < b
        /\ Place'[5] \subseteq Place[5] /\ Place'[3] = Place[3] /\ Place'[1] = Place[1]
    BY <1>1, <2>1, Took, PlaceIs
  <2>5. /\ Place'[4] \subseteq Place[4] \cup {Head(queue.frames)}
        /\ \A k \in Places \ {4} : Place'[k] \subseteq Place[k]
    BY <1>1, <2>1, <2>3, <2>4, PlaceIs
  <2> QED BY <2>1, <2>4, <2>5, Further
<1>7. CASE BoundedPut("ingestor", "output", "wait")
  <2>1. UNCHANGED <<id, tracked>> /\ held["ingestor"] \in Place[4]
    BY <1>1, <1>7, PlaceIs DEF BoundedPut, PutNowait, Evict, Hand, HandsFull, Carried
  <2>2. \A b \in Waiting("output") : b < held["ingestor"]
    BY <1>1, <2>1, PlaceIs DEF Ordered, Chain
  <2>3. CASE UNCHANGED <<queue, held>>
    BY <1>3, <2>1, <2>3
  <2>4. CASE ~UNCHANGED <<queue, held>>
    <3>1. /\ \A r \in Queues : Rising(queue'[r])
          /\ Place'[4] = {} /\ Place'[3] \subseteq Place[3] \cup {held["ingestor"]}
          /\ \A k \in Places \ {3} : Place'[k] \subseteq Place[k]
      BY <1>1, <1>7, <2>1, <2>2, <2>4, Gave, PlaceIs
    <3> QED BY <2>1, <3>1, Further
  <2> QED BY <2>3, <2>4
<1>8. CASE Forward
  <2>1. queue["output"] # <<>> /\ queue' = [queue EXCEPT !["output"] = Tail(@)] /\ UNCHANGED <<id,
        tracked>>
    BY <1>8 DEF Forward, Output
  <2>2. held' = [held EXCEPT !.output = Head(queue.output)]
    BY <1>8 DEF Forward
  <2>3. /\ Carried("output")' \subseteq {Head(queue.output)}
        /\ Carried("frames")' = Carried("frames") /\ Carried("ingestor")' = Carried("ingestor")
    BY <1>1, <1>2, <2>2 DEF Carried
  <2>4. /\ \A r \in Queues : Rising(queue'[r])
        /\ Head(queue.output) \in Place[3] /\ \A b \in Place'[3] : Head(queue.output) < b
        /\ Place'[3] \subseteq Place[3] /\ Place'[5] = Place[5] /\ Place'[1] = Place[1]
    BY <1>1, <2>1, Took, PlaceIs
  <2>5. /\ Place'[2] \subseteq Place[2] \cup {Head(queue.output)}
        /\ \A k \in Places \ {2} : Place'[k] \subseteq Place[k]
    BY <1>1, <2>1, <2>3, <2>4, PlaceIs
  <2> QED BY <2>1, <2>4, <2>5, Further
<1>9. CASE BoundedPut("output", "worker", "get")
  <2>1. UNCHANGED <<id, tracked>> /\ held["output"] \in Place[2]
    BY <1>1, <1>9, PlaceIs DEF BoundedPut, PutNowait, Evict, Hand, HandsFull, Carried
  <2>2. \A b \in Waiting("worker") : b < held["output"]
    BY <1>1, <2>1, PlaceIs DEF Ordered, Chain
  <2>3. CASE UNCHANGED <<queue, held>>
    BY <1>3, <2>1, <2>3
  <2>4. CASE ~UNCHANGED <<queue, held>>
    <3>1. /\ \A r \in Queues : Rising(queue'[r])
          /\ Place'[2] = {} /\ Place'[1] \subseteq Place[1] \cup {held["output"]}
          /\ \A k \in Places \ {1} : Place'[k] \subseteq Place[k]
      BY <1>1, <1>9, <2>1, <2>2, <2>4, Gave, PlaceIs
    <3> QED BY <2>1, <3>1, Further
  <2> QED BY <2>3, <2>4
<1>10. CASE Track
  <2>1. /\ queue["worker"] # <<>> /\ queue' = [queue EXCEPT !["worker"] = Tail(@)] /\ UNCHANGED <<id,
           held>>
        /\ tracked' = Head(queue.worker)
    BY <1>10 DEF Track
  <2>2. /\ \A r \in Queues : Rising(queue'[r])
        /\ Head(queue.worker) \in Place[1] /\ \A b \in Place'[1] : Head(queue.worker) < b
        /\ Place'[1] \subseteq Place[1] /\ Place'[3] = Place[3] /\ Place'[5] = Place[5]
    BY <1>1, <2>1, Took, PlaceIs
  <2>3. \A t \in Writers : Carried(t)' = Carried(t)
    BY <2>1 DEF Carried
  <2>4. /\ Place'[0] \subseteq Place[0] \cup {Head(queue.worker)}
        /\ \A k \in Places \ {0} : Place'[k] \subseteq Place[k]
    BY <1>1, <2>1, <2>2, <2>3, PlaceIs
  <2> QED BY <2>1, <2>2, <2>4, Further
<1>11. CASE \/ \E t \in Threads : Begin(t) \/ Die(t)
            \/ StopIngestor \/ CaptureStep \/ FramesEnds \/ JoinWorkers \/ StopWorkers \/ WorkerEnds
            \/ Check \/ Detect \/ FindEmpty \/ Empty \/ Wait \/ StopAll \/ JoinAll
  BY <1>3, <1>11 DEF Begin, Die, StopIngestor, CaptureStep, SourcesChange, FilesEnd, CaptureEnds,
     Capture, FramesEnds, Frames, JoinWorkers, StopWorkers, Output, WorkerEnds, flowVars,
     Check, Detect, FindEmpty, Empty, Wait, StopAll, JoinAll, Ingestor
<1> QED BY <1>4, <1>5, <1>6, <1>7, <1>8, <1>9, <1>10, <1>11
    DEF Next, FramesStep, IngestorStep, OutputStep, WorkerStep

-----------------------------------------------------------------------------
\* The pipeline starts in the invariant.
LEMMA Starting == Init => Invariant
<1> SUFFICES ASSUME Init PROVE Invariant
  OBVIOUS
<1>1. /\ queue = [q \in Queues |-> <<>>] /\ held = [t \in Writers |-> NoBatch]
      /\ id = 0 /\ tracked = 0
  BY DEF Init
<1>2. TypeOK
  <2>1. /\ sources \in {"connected", "silent", "finished"}
        /\ process \subseteq begun /\ begun \subseteq Threads
        /\ alive \subseteq Threads /\ late \subseteq Threads /\ died \subseteq Threads
        /\ pc \in PCs
    BY DEF Init, Threads, Queues, PCs
  <2>2. queue \in [Queues -> Seq(Batch)] /\ held \in [Writers -> Batch \cup {NoBatch}]
    BY <1>1
  <2>3. \A q \in Queues : Len(queue[q]) <= Capacity[q]
    BY <1>1, Bounds
  <2>4. id \in 0..MaxBatches /\ empties \in 0..Patience /\ tracked \in 0..MaxBatches
    BY Bounds DEF Init
  <2>5. recorded \in BOOLEAN
    BY Zenon DEF Init
  <2> QED BY <2>1, <2>2, <2>3, <2>4, <2>5 DEF TypeOK
<1>3. HandsFull
  BY DEF Init, HandsFull, Writers
<1>4. \A q \in Queues : Rising(queue[q])
  BY <1>1 DEF Rising
<1>5. \A q \in Queues : Waiting(q) = {}
  BY <1>1 DEF Waiting
<1>6. \A t \in Writers : Carried(t) = {}
  BY <1>1 DEF Carried
<1>7. Place[0] = {0} /\ \A n \in Places \ {0} : Place[n] = {}
  BY <1>1, <1>5, <1>6, PlaceIs DEF Places, Queues, Writers
<1> HIDE DEF Place
<1>8. Chain(Place) /\ UpTo(Place, id)
  BY <1>1, <1>7 DEF Chain, UpTo, Places
<1> QED BY <1>2, <1>3, <1>4, <1>8 DEF Invariant, Ordered

\* Every step of the pipeline keeps the invariant.
LEMMA Keeping == Invariant /\ [Next]_vars => Invariant'
<1>1. CASE Next
  BY <1>1, TypesStep, HandsStep, OrderedStep DEF Invariant
<1>2. CASE UNCHANGED vars
  <2>1. TypeOK /\ HandsFull /\ Ordered => TypeOK' /\ HandsFull' 
    BY <1>2 DEF TypeOK, HandsFull, vars, threadVars, ingestVars, flowVars
  <2>2. Ordered => Ordered'
    BY <1>2, Still DEF vars, flowVars
  <2> QED BY <2>1, <2>2 DEF Invariant
<1> QED BY <1>1, <1>2

\* Whatever the threads do, the pipeline's state keeps its types: no queue grows past its
\* capacity, and a thread has set its flag only after it has begun.
LEMMA PipelineTypes == Spec => []TypeOK
<1>1. Spec => []Invariant
  BY Starting, Keeping, PTL DEF Spec
<1> QED BY <1>1, PTL DEF Invariant

\* bounded_put may lose batches but never turns their order round: with every capacity the
\* batches reach the worker in the order FramesThread numbered them, each at most once.
LEMMA IngestorOrder == Spec => InOrder
<1>1. Init => Fifo!Init
  BY DEF Init, Fifo!Init
<1>2. Invariant /\ [Next]_vars => [Fifo!Next]_<<id, tracked>>
  <2> SUFFICES ASSUME Invariant, [Next]_vars
               PROVE  [Fifo!Next]_<<id, tracked>>
    OBVIOUS
  <2>1. CASE Collect
    BY <2>1 DEF Collect, Frames, Fifo!Next, Fifo!Offer
  <2>2. CASE Track
    <3>1. TypeOK /\ Ordered /\ "worker" \in Queues
      BY DEF Invariant, Queues
    <3>2. Head(queue.worker) \in Nat /\ Head(queue.worker) \in Place[1] /\ tracked \in Place[0]
      BY <2>2, <3>1, Took, PlaceIs DEF Track
    <3>3. 0 \in Places /\ 1 \in Places
      BY DEF Places
    <3>4. tracked < Head(queue.worker) /\ Head(queue.worker) <= id
      BY <3>1, <3>2, <3>3 DEF Ordered, Chain, UpTo
    <3>5. tracked \in Nat /\ id \in Nat
      BY <3>1, Bounds DEF TypeOK
    <3>6. tracked' \in tracked + 1 .. id /\ UNCHANGED id
      BY <2>2, <3>2, <3>4, <3>5 DEF Track
    <3> QED BY <3>6 DEF Fifo!Next, Fifo!Receive
  <2>3. CASE UNCHANGED <<id, tracked>>
    BY <2>3
  <2>4. CASE [Next]_vars /\ ~Collect /\ ~Track
    <3>1. UNCHANGED <<id, tracked>>
      BY <2>4 DEF Next, vars, Begin, Die, StopIngestor, CaptureStep, SourcesChange, FilesEnd,
         CaptureEnds, Capture, FramesStep, FramesEnds, Frames, IngestorStep, Check, Fetch, Detect,
         FindEmpty, Empty, Wait, StopAll, JoinAll, Ingestor, OutputStep, Forward, StopWorkers,
         JoinWorkers, Output, WorkerStep, WorkerEnds, BoundedPut, PutNowait, Evict, Hand
    <3> QED BY <3>1
  <2> QED BY <2>1, <2>2, <2>4
<1>3. Spec => []Invariant
  BY Starting, Keeping, PTL DEF Spec
<1> QED BY <1>1, <1>2, <1>3, PTL DEF Spec, InOrder, Fifo!Spec

-----------------------------------------------------------------------------
(* Publisher and consumer *)

RabbitTypes ==
    /\ stored \in Seq(Nat) /\ buffer \in Seq(Nat)
    /\ run \in Nat

\* What a run leaves: nothing stored where the publisher purged its queue or the queue
\* was cleared after it, nothing in the client of a consumer that has ended.
Emptied ==
    /\ own /\ pub = "closed" => stored = <<>>
    /\ cleared => stored = <<>> /\ Rabbit!PublisherOver
    /\ owner \in {"clear", "over"} => con = "ended"
    /\ con = "ended" => buffer = <<>>

\* All there is was sent in this run.
Current(s, r) == \A i \in DOMAIN s : s[i] = r
Fresh == orderly => ~stale /\ Current(stored, run) /\ Current(buffer, run)

RabbitInvariant == RabbitTypes /\ Emptied /\ Fresh

-----------------------------------------------------------------------------
\* A message of this run is put at the end of a queue that may be full.
LEMMA SentOn ==
    ASSUME NEW s \in Seq(Nat), NEW r \in Nat
    PROVE  Rabbit!Put(s, r) \in Seq(Nat) /\ (Current(s, r) => Current(Rabbit!Put(s, r), r))
<1>1. /\ Append(s, r) \in Seq(Nat) /\ DOMAIN s = 1..Len(s) /\ Len(s) \in Nat
      /\ DOMAIN Append(s, r) = 1..Len(s) + 1
      /\ \A i \in 1..Len(s) : Append(s, r)[i] = s[i]
      /\ Append(s, r)[Len(s) + 1] = r
  OBVIOUS
<1>2. \A i \in 1..Len(s) + 1 : i \in 1..Len(s) \/ i = Len(s) + 1
  BY <1>1
<1>3. Current(s, r) => Current(Append(s, r), r)
  BY <1>1, <1>2 DEF Current
<1> QED BY <1>1, <1>3 DEF Rabbit!Put

\* The first message is taken from a queue.
LEMMA Received ==
    ASSUME NEW s \in Seq(Nat), s # <<>>, NEW r \in Nat
    PROVE  /\ Tail(s) \in Seq(Nat) /\ Head(s) \in Nat
           /\ Current(s, r) => Head(s) = r /\ Current(Tail(s), r)
<1>1. /\ Tail(s) \in Seq(Nat) /\ Head(s) \in Nat /\ Len(s) \in Nat /\ Len(s) # 0
      /\ DOMAIN s = 1..Len(s) /\ DOMAIN Tail(s) = 1..Len(s) - 1
      /\ \A i \in 1..Len(s) - 1 : Tail(s)[i] = s[i + 1]
      /\ Head(s) = s[1]
  OBVIOUS
<1>2. 1 \in 1..Len(s) /\ \A i \in 1..Len(s) - 1 : i + 1 \in 1..Len(s)
  BY <1>1
<1> QED BY <1>1, <1>2 DEF Current

\* A message is given to a client.
LEMMA Given ==
    ASSUME NEW s \in Seq(Nat), NEW m \in Nat, NEW r \in Nat
    PROVE  Append(s, m) \in Seq(Nat) /\ (Current(s, r) /\ m = r => Current(Append(s, m), r))
<1>1. /\ Append(s, m) \in Seq(Nat) /\ DOMAIN s = 1..Len(s) /\ Len(s) \in Nat
      /\ DOMAIN Append(s, m) = 1..Len(s) + 1
      /\ \A i \in 1..Len(s) : Append(s, m)[i] = s[i]
      /\ Append(s, m)[Len(s) + 1] = m
  OBVIOUS
<1>2. \A i \in 1..Len(s) + 1 : i \in 1..Len(s) \/ i = Len(s) + 1
  BY <1>1
<1> QED BY <1>1, <1>2 DEF Current

-----------------------------------------------------------------------------
\* Every step keeps the types.
LEMMA RabbitTypesStep == ASSUME RabbitTypes, Rabbit!Next PROVE RabbitTypes'
<1> USE DEF RabbitTypes, Rabbit!publisherVars, Rabbit!consumerVars, Rabbit!runVars
<1>1. ASSUME stored' \in {stored, <<>>}, buffer' \in {buffer, <<>>}, run' = run \/ run' = run + 1
      PROVE  RabbitTypes'
  <2>1. <<>> \in Seq(Nat)
    OBVIOUS
  <2>2. stored' \in Seq(Nat) /\ buffer' \in Seq(Nat)
    BY <1>1, <2>1
  <2>3. run' \in Nat
    BY <1>1
  <2> QED BY <2>2, <2>3
<1>2. CASE Rabbit!NewRun
  BY <1>1, <1>2 DEF Rabbit!NewRun
<1>3. CASE Rabbit!RunPublisher \/ Rabbit!StopPublisher \/ Rabbit!TakeItem \/ Rabbit!RunConsumer
            \/ Rabbit!Reconnect \/ Rabbit!Silence \/ Rabbit!StopConsumer \/ Rabbit!Joined \/ Rabbit!Up
  BY <1>1, <1>3 DEF Rabbit!RunPublisher, Rabbit!StopPublisher, Rabbit!TakeItem,
     Rabbit!RunConsumer, Rabbit!Reconnect, Rabbit!Silence,
     Rabbit!StopConsumer, Rabbit!Joined, Rabbit!Up
<1>4. CASE Rabbit!Close \/ Rabbit!Loop \/ Rabbit!ClearQueue \/ Rabbit!Drop \/ Rabbit!Down
  <2>1. stored' \in {stored, <<>>} /\ buffer' \in {buffer, <<>>} /\ run' = run
    BY <1>4 DEF Rabbit!Close, Rabbit!Loop, Rabbit!ClearQueue, Rabbit!Drop, Rabbit!Down
  <2> QED BY <1>1, <2>1
<1>5. CASE Rabbit!Send \/ Rabbit!SendFails
  <2>1. stored' = stored \/ stored' = Rabbit!Put(stored, run)
    BY <1>5 DEF Rabbit!Send, Rabbit!SendFails, Rabbit!Deliver
  <2>2. stored' \in Seq(Nat)
    BY <2>1, SentOn
  <2> QED BY <1>5, <2>2 DEF Rabbit!Send, Rabbit!SendFails
<1>6. CASE Rabbit!Take
  <2>1. buffer # <<>> /\ buffer' = Tail(buffer) /\ UNCHANGED <<stored, run>>
    BY <1>6 DEF Rabbit!Take
  <2> QED BY <2>1, Received
<1>7. CASE Rabbit!Push
  <2>1. /\ stored # <<>> /\ stored' = Tail(stored) /\ buffer' = Append(buffer, Head(stored))
        /\ UNCHANGED run
    BY <1>7 DEF Rabbit!Push
  <2> QED BY <2>1, Received, Given
<1> QED BY <1>2, <1>3, <1>4, <1>5, <1>6, <1>7
    DEF Rabbit!Next, Rabbit!Publisher, Rabbit!Consumer, Rabbit!Owner

\* What was emptied stays so until the next run, in which messages are sent.
LEMMA EmptiedStep == ASSUME Emptied, Rabbit!Next PROVE Emptied'
<1> USE DEF Emptied, Rabbit!PublisherOver, Rabbit!publisherVars, Rabbit!consumerVars, Rabbit!runVars
<1>1. CASE Rabbit!NewRun
  <2>1. pub' \in {"starting", "died"} /\ owner' = "running" /\ con' = "starting" /\ cleared' = FALSE
    BY <1>1 DEF Rabbit!NewRun
  <2> QED BY <2>1
<1>2. CASE Rabbit!RunPublisher \/ Rabbit!StopPublisher \/ Rabbit!TakeItem
  BY <1>2 DEF Rabbit!RunPublisher, Rabbit!StopPublisher, Rabbit!TakeItem
<1>3. CASE Rabbit!Send \/ Rabbit!SendFails
  BY <1>3 DEF Rabbit!Send, Rabbit!SendFails
<1>4. CASE Rabbit!Close
  <2>1. /\ pub = "loop" /\ UNCHANGED <<own, con, buffer, owner, cleared>>
        /\ pub' = "closed" /\ own => stored' = <<>>
    BY <1>4 DEF Rabbit!Close
  <2> QED BY <2>1
<1>5. CASE Rabbit!RunConsumer \/ Rabbit!Reconnect \/ Rabbit!Silence
  <2>1. con # "ended" /\ con' # "ended" /\ UNCHANGED <<own, pub, stored, buffer, owner, cleared>>
    BY <1>5 DEF Rabbit!RunConsumer, Rabbit!Reconnect, Rabbit!Silence
  <2> QED BY <2>1
<1>6. CASE Rabbit!Loop
  <2>1. /\ con = "loop" /\ UNCHANGED <<own, pub, stored, owner, cleared>>
        /\ con' = "ended" => buffer' = <<>>
    BY <1>6 DEF Rabbit!Loop
  <2> QED BY <2>1
<1>7. CASE Rabbit!Take \/ Rabbit!Push
  BY <1>7 DEF Rabbit!Take, Rabbit!Push
<1>8. CASE Rabbit!StopConsumer \/ Rabbit!Joined
  BY <1>8 DEF Rabbit!StopConsumer, Rabbit!Joined
<1>9. CASE Rabbit!ClearQueue
  <2>1. owner = "clear" /\ UNCHANGED <<own, pub, con, buffer>>
    BY <1>9 DEF Rabbit!ClearQueue
  <2>2. CASE UNCHANGED <<stored, cleared>>
    BY <2>1, <2>2
  <2>3. CASE stored' = <<>> /\ cleared' = Rabbit!PublisherOver
    BY <2>1, <2>3
  <2> QED BY <1>9, <2>2, <2>3 DEF Rabbit!ClearQueue
<1>10. CASE Rabbit!Drop \/ Rabbit!Down \/ Rabbit!Up
  <2>1. /\ stored' \in {stored, <<>>} /\ buffer' \in {buffer, <<>>}
        /\ UNCHANGED <<own, pub, con, owner, cleared>>
    BY <1>10 DEF Rabbit!Drop, Rabbit!Down, Rabbit!Up
  <2> QED BY <2>1
<1> QED BY <1>1, <1>2, <1>3, <1>4, <1>5, <1>6, <1>7, <1>8, <1>9, <1>10
   
    DEF Rabbit!Next, Rabbit!Publisher, Rabbit!Consumer, Rabbit!Owner

\* A run that follows an orderly end begins with nothing, and adds messages of its own.
LEMMA FreshStep == ASSUME RabbitTypes, Emptied, Fresh, Rabbit!Next PROVE Fresh'
<1> USE DEF Rabbit!publisherVars, Rabbit!consumerVars, Rabbit!runVars
<1>1. Current(<<>>, run) /\ Current(<<>>, run')
  BY DEF Current
<1>2. CASE Rabbit!NewRun
  <2>1. orderly' => stored = <<>> /\ buffer = <<>>
    BY <1>2 DEF Rabbit!NewRun, Emptied
  <2>2. UNCHANGED <<stored, buffer>> /\ stale' = FALSE
    BY <1>2 DEF Rabbit!NewRun
  <2> QED BY <1>1, <2>1, <2>2 DEF Fresh
<1>3. CASE Rabbit!RunPublisher \/ Rabbit!StopPublisher \/ Rabbit!TakeItem \/ Rabbit!RunConsumer
            \/ Rabbit!Reconnect \/ Rabbit!Silence \/ Rabbit!StopConsumer \/ Rabbit!Joined \/ Rabbit!Up
  <2>1. UNCHANGED <<stored, buffer, run, stale, orderly>>
    BY <1>3 DEF Rabbit!RunPublisher, Rabbit!StopPublisher, Rabbit!TakeItem,
       Rabbit!RunConsumer, Rabbit!Reconnect, Rabbit!Silence,
       Rabbit!StopConsumer, Rabbit!Joined, Rabbit!Up
  <2> QED BY <2>1 DEF Fresh
<1>4. CASE Rabbit!Send \/ Rabbit!SendFails
  <2>1. stored' = stored \/ stored' = Rabbit!Put(stored, run)
    BY <1>4 DEF Rabbit!Send, Rabbit!SendFails, Rabbit!Deliver
  <2>2. UNCHANGED <<buffer, run, stale, orderly>>
    BY <1>4 DEF Rabbit!Send, Rabbit!SendFails
  <2>3. Current(stored, run) => Current(stored', run)
    BY <2>1, SentOn DEF RabbitTypes
  <2> QED BY <2>2, <2>3 DEF Fresh
<1>5. CASE Rabbit!Close \/ Rabbit!Loop \/ Rabbit!ClearQueue \/ Rabbit!Drop \/ Rabbit!Down
  <2>1. stored' \in {stored, <<>>} /\ buffer' \in {buffer, <<>>} /\ UNCHANGED <<run, stale, orderly>>
    BY <1>5 DEF Rabbit!Close, Rabbit!Loop, Rabbit!ClearQueue, Rabbit!Drop, Rabbit!Down
  <2> QED BY <1>1, <2>1 DEF Fresh
<1>6. CASE Rabbit!Take
  <2>1. /\ buffer # <<>> /\ buffer' = Tail(buffer) /\ UNCHANGED <<stored, run, orderly>>
        /\ stale' <=> (stale \/ Head(buffer) # run)
    BY <1>6 DEF Rabbit!Take
  <2>2. Current(buffer, run) => Head(buffer) = run /\ Current(buffer', run)
    BY <2>1, Received DEF RabbitTypes
  <2> QED BY <2>1, <2>2 DEF Fresh
<1>7. CASE Rabbit!Push
  <2>1. /\ stored # <<>> /\ stored' = Tail(stored) /\ buffer' = Append(buffer, Head(stored))
        /\ UNCHANGED <<run, stale, orderly>>
    BY <1>7 DEF Rabbit!Push
  <2>2. Head(stored) \in Nat /\ (Current(stored, run) => Head(stored) = run /\ Current(stored', run))
    BY <2>1, Received DEF RabbitTypes
  <2>3. Current(buffer, run) /\ Head(stored) = run => Current(buffer', run)
    BY <2>1, <2>2, Given DEF RabbitTypes
  <2> QED BY <2>1, <2>2, <2>3 DEF Fresh
<1> QED BY <1>2, <1>3, <1>4, <1>5, <1>6, <1>7
    DEF Rabbit!Next, Rabbit!Publisher, Rabbit!Consumer, Rabbit!Owner

\* Before the first run all is empty.
LEMMA RabbitStarting == Rabbit!Init => RabbitInvariant
BY DEF Rabbit!Init, RabbitInvariant, RabbitTypes, Emptied, Fresh, Current, Rabbit!PublisherOver

\* The invariant is kept.
LEMMA RabbitKeeping == RabbitInvariant /\ [Rabbit!Next]_(Rabbit!brokerVars) => RabbitInvariant'
<1>1. CASE Rabbit!Next
  BY <1>1, RabbitTypesStep, EmptiedStep, FreshStep DEF RabbitInvariant
<1>2. CASE UNCHANGED Rabbit!brokerVars
  BY <1>2 DEF RabbitInvariant, RabbitTypes, Emptied, Fresh, Current, Rabbit!PublisherOver,
     Rabbit!brokerVars
<1> QED BY <1>1, <1>2

-----------------------------------------------------------------------------
\* The batches the worker takes were captured in that order, each once: RabbitMQ and the
\* annotated video, which are beside it, do not touch the pipeline.
THEOREM Order == PipelineSpec => InOrder
<1>1. PipelineInit => Init
  BY DEF PipelineInit
<1>2. [PipelineNext]_pipelineVars => [Next]_vars
  BY DEF PipelineNext, IngestorPart, VideoPart, BrokerPart, pipelineVars
<1>3. PipelineSpec => Spec
  BY <1>1, <1>2, PTL DEF PipelineSpec, Spec
<1> QED BY <1>3, IngestorOrder

\* What a consumer takes was sent in its own run, if the run before ended in an orderly
\* way.
THEOREM OnlyOwnMessages == PipelineSpec => NothingStale
<1>1. PipelineInit => RabbitInvariant
  BY RabbitStarting DEF PipelineInit
<1>2. [PipelineNext]_pipelineVars => [Rabbit!Next]_(Rabbit!brokerVars)
  BY DEF PipelineNext, IngestorPart, VideoPart, BrokerPart, pipelineVars, rabbitVars,
     Rabbit!brokerVars
<1>3. RabbitInvariant /\ [PipelineNext]_pipelineVars => RabbitInvariant'
  BY <1>2, RabbitKeeping
<1>4. RabbitInvariant' => [stale' => ~orderly']_(Rabbit!brokerVars)
  BY DEF RabbitInvariant, Fresh
<1> QED BY <1>1, <1>3, <1>4, PTL DEF PipelineSpec, NothingStale, Rabbit!NothingStale
-----------------------------------------------------------------------------
(* The annotated video of Writers, for any capacity of its queues, any frame rate and  *)
(* any length and number of segments.  First, folds over the numbers up to some n.      *)

LessThan == {pair \in Nat \X Nat : pair[1] < pair[2]}

\* A nonempty set of numbers has a least.
LEMMA LeastExists ==
    ASSUME NEW S, S \subseteq Nat, S # {}
    PROVE  \E m \in S : \A k \in S : m <= k
<1>1. IsWellFoundedOn(LessThan, Nat)
  BY NatLessThanWellFounded, Zenon DEF OpToRel, LessThan
<1>2. PICK m \in S : \A k \in S : ~(<<k, m>> \in LessThan)
  BY <1>1, WFMin
<1>3. \A k \in S : k \in Nat /\ m \in Nat /\ ~(k < m)
  BY <1>2 DEF LessThan
<1> QED BY <1>3

\* And a nonempty set of numbers up to n a greatest.
LEMMA GreatestExists ==
    ASSUME NEW n \in Nat, NEW S, S \subseteq 1..n, S # {}
    PROVE  \E m \in S : \A k \in S : m >= k
<1> DEFINE T == {n - k : k \in S}
<1>1. T \subseteq Nat /\ T # {}
  <2>1. \A k \in S : k \in Nat /\ n - k \in Nat
    OBVIOUS
  <2> QED BY <2>1
<1>2. PICK l \in T : \A x \in T : l <= x
  BY <1>1, LeastExists
<1>3. PICK m \in S : l = n - m
  BY <1>2
<1>4. \A k \in S : m >= k
  <2>1. ASSUME NEW k \in S PROVE m >= k
    <3>1. n - k \in T /\ n - m <= n - k
      BY <1>2, <1>3
    <3> QED BY <3>1
  <2> QED BY <2>1
<1> QED BY <1>4

\* What holds of the empty set, and of a set if it holds of all that lack one element, holds.
LEMMA SubsetsGood ==
    ASSUME NEW S, IsFiniteSet(S), NEW G,
           \A s \in SUBSET S : (\A x \in s : s \ {x} \in G) => s \in G
    PROVE  \A s \in SUBSET S : s \in G
<1> DEFINE Bad == {Cardinality(s) : s \in {t \in SUBSET S : t \notin G}}
<1> SUFFICES ASSUME Bad # {} PROVE FALSE
  OBVIOUS
<1>1. \A s \in SUBSET S : IsFiniteSet(s) /\ Cardinality(s) \in Nat
  BY FS_Subset, FS_CardinalityType
<1>2. Bad \subseteq Nat
  BY <1>1
<1>3. PICK m \in Bad : \A x \in Bad : m <= x
  BY <1>2, LeastExists
<1>4. PICK s \in SUBSET S : s \notin G /\ Cardinality(s) = m
  BY <1>3
<1>5. ASSUME NEW x \in s PROVE s \ {x} \in G
  <2>1. Cardinality(s \ {x}) = m - 1 /\ s \ {x} \in SUBSET S
    BY <1>1, <1>4, FS_RemoveElement
  <2>2. m \in Nat
    BY <1>1, <1>4
  <2>3. CASE s \ {x} \notin G
    <3>1. Cardinality(s \ {x}) \in Bad
      BY <2>1, <2>3
    <3> QED BY <3>1, <2>1, <2>2, <1>3
  <2> QED BY <2>3
<1> QED BY <1>4, <1>5

\* A recursion over the subsets of a finite set has a solution.
Picks(pick, S) == \A s \in SUBSET S : s # {} => pick[s] \in s
Maps(F, S, T) == \A x \in S, y \in T : F[<<x, y>>] \in T
Solves(g, S, base, pick, F) ==
    \A s \in SUBSET S : g[s] = IF s = {} THEN base ELSE F[<<pick[s], g[s \ {pick[s]}]>>]

LEMMA FoldExists ==
    ASSUME NEW S, IsFiniteSet(S), NEW T, NEW base \in T, NEW pick, NEW F,
           Picks(pick, S), Maps(F, S, T)
    PROVE  \E g \in [SUBSET S -> T] : Solves(g, S, base, pick, F)
<1> USE DEF Picks, Maps, Solves
<1> DEFINE Upto(n) == {s \in SUBSET S : Cardinality(s) <= n}
           Rec(g, D) == \A s \in D : g[s] = IF s = {} THEN base ELSE F[<<pick[s], g[s \ {pick[s]}]>>]
           Good(n) == \E g \in [Upto(n) -> T] : Rec(g, Upto(n))
           Bad == {n \in Nat : ~Good(n)}
<1>1. \A s \in SUBSET S : IsFiniteSet(s) /\ Cardinality(s) \in Nat /\ (Cardinality(s) = 0 <=> s = {})
  BY FS_Subset, FS_CardinalityType, FS_EmptySet
<1>2. ASSUME NEW n \in Nat, n \in Bad PROVE n # 0 /\ n - 1 \in Bad
  <2>1. ASSUME n = 0 PROVE FALSE
    <3> DEFINE g == [s \in Upto(n) |-> base]
    <3>1. g \in [Upto(n) -> T] /\ Rec(g, Upto(n))
      BY <1>1, <2>1
    <3>2. Good(n)
      BY <3>1
    <3> QED BY <3>2, <1>2
  <2>2. ASSUME n # 0, n - 1 \notin Bad PROVE FALSE
    <3>1. n - 1 \in Nat
      BY <2>2
    <3>2. Good(n - 1)
      BY <2>2, <3>1
    <3>3. PICK g \in [Upto(n - 1) -> T] : Rec(g, Upto(n - 1))
      BY <3>2
    <3> DEFINE h == [s \in Upto(n) |-> IF s = {} THEN base ELSE F[<<pick[s], g[s \ {pick[s]}]>>]]
    <3>4. ASSUME NEW s \in Upto(n), s # {} PROVE pick[s] \in S /\ s \ {pick[s]} \in Upto(n - 1)
      <4>1. pick[s] \in s /\ s \in SUBSET S
        BY <3>4
      <4>2. Cardinality(s \ {pick[s]}) = Cardinality(s) - 1
        BY <4>1, <1>1, FS_RemoveElement
      <4>3. Cardinality(s) \in Nat /\ Cardinality(s) <= n
        BY <4>1, <1>1
      <4> QED BY <4>1, <4>2, <4>3
    <3>5. h \in [Upto(n) -> T]
      <4>1. ASSUME NEW s \in Upto(n) PROVE h[s] \in T
        <5>1. CASE s = {}
          BY <5>1
        <5>2. CASE s # {}
          <6>1. pick[s] \in S /\ g[s \ {pick[s]}] \in T
            BY <3>4, <5>2
          <6> QED BY <5>2, <6>1
        <5> QED BY <5>1, <5>2
      <4> QED BY <4>1
    <3>6. ASSUME NEW s \in Upto(n - 1) PROVE s \in Upto(n) /\ h[s] = g[s]
      <4>1. s \in Upto(n)
        BY <1>1
      <4> QED BY <4>1, <3>3
    <3>7. Rec(h, Upto(n))
      <4>1. ASSUME NEW s \in Upto(n), s # {} PROVE h[s] = F[<<pick[s], h[s \ {pick[s]}]>>]
        BY <4>1, <3>4, <3>6
      <4> QED BY <4>1
    <3>8. Good(n)
      BY <3>5, <3>7
    <3> QED BY <3>8, <1>2
  <2>3. n # 0
    BY <2>1
  <2> QED BY <2>2, <2>3
<1>3. Bad = {}
  <2> SUFFICES ASSUME Bad # {} PROVE FALSE
    OBVIOUS
  <2> HIDE DEF Bad
  <2>1. Bad \subseteq Nat
    BY DEF Bad
  <2>2. PICK m \in Bad : \A x \in Bad : m <= x
    BY <2>1, LeastExists
  <2>3. m \in Nat /\ m # 0 /\ m - 1 \in Bad
    BY <1>2, <2>1
  <2> QED BY <2>2, <2>3
<1>4. Cardinality(S) \in Nat
  BY <1>1
<1>5. Good(Cardinality(S))
  BY <1>3, <1>4
<1>6. Upto(Cardinality(S)) = SUBSET S
  BY <1>1, <1>4, FS_Subset
<1> QED BY <1>5, <1>6

\* The greatest of some numbers up to n is one of them, none of the others is greater.
LEMMA MaxOf ==
    ASSUME NEW n \in Nat, NEW s \in SUBSET (1..n), s # {}
    PROVE  Video!Max(s) \in s /\ \A k \in s : k <= Video!Max(s)
<1>1. \E m \in s : \A k \in s : m >= k
  BY GreatestExists
<1> QED BY <1>1 DEF Video!Max

\* A recursion along the greatest elements has a solution over the sets of numbers up to n.
Along(g, n, base, F) == \A s \in SUBSET (1..n) :
    g[s] = IF s = {} THEN base ELSE F[<<Video!Max(s), g[s \ {Video!Max(s)}]>>]

LEMMA AlongExists ==
    ASSUME NEW n \in Nat, NEW T, NEW base \in T, NEW F, Maps(F, 1..n, T)
    PROVE  \E g \in [SUBSET (1..n) -> T] : Along(g, n, base, F)
<1> DEFINE pick == [s \in SUBSET (1..n) |-> Video!Max(s)]
<1>1. \A s \in SUBSET (1..n) : pick[s] = Video!Max(s)
  OBVIOUS
<1>2. Picks(pick, 1..n)
  BY MaxOf DEF Picks
<1>3. IsFiniteSet(1..n)
  BY 1 \in Int /\ n \in Int, FS_Interval
<1> HIDE DEF pick
<1>4. PICK g \in [SUBSET (1..n) -> T] : Solves(g, 1..n, base, pick, F)
  BY <1>2, <1>3, FoldExists
<1> QED BY <1>1, <1>4 DEF Solves, Along

-----------------------------------------------------------------------------
(* Sums of saves. *)

\* A sum by its partial sums.
Sums(p, s) ==
    /\ p \in [0..Len(s) -> Int] /\ p[0] = 0
    /\ \A i \in 1..Len(s) : p[i] = p[i - 1] + s[i]

FoldOf(s, g) == g = [x \in SUBSET (DOMAIN s) |->
    IF x = {} THEN 0 ELSE g[x \ {Video!Max(x)}] + s[Video!Max(x)]]

LEMMA TotalSums ==
    ASSUME NEW s \in Seq(Int)
    PROVE  \E p : Sums(p, s) /\ Video!Total(s) = p[Len(s)]
<1> DEFINE n == Len(s)
           iter == CHOOSE g : FoldOf(s, g)
<1>1. n \in Nat /\ DOMAIN s = 1..n /\ \A i \in 1..n : s[i] \in Int
  OBVIOUS
<1>2. Video!Total(s) = iter[1..n]
  BY <1>1 DEF Video!Total, Video!FoldLeft, Video!MapThenFoldSet, FoldOf
<1>3. \E g : g \in [SUBSET (1..n) -> Int] /\ FoldOf(s, g)
  <2> DEFINE F == [q \in (1..n) \X Int |-> q[2] + s[q[1]]]
  <2>1. \A i \in 1..n, v \in Int : F[<<i, v>>] = v + s[i]
    OBVIOUS
  <2> HIDE DEF F
  <2>2. Maps(F, 1..n, Int)
    <3>1. ASSUME NEW i \in 1..n, NEW v \in Int PROVE F[<<i, v>>] \in Int
      <4>1. F[<<i, v>>] = v + s[i] /\ s[i] \in Int
        BY <1>1, <2>1
      <4> QED BY <4>1
    <3> QED BY <3>1 DEF Maps
  <2>3. PICK g \in [SUBSET (1..n) -> Int] : Along(g, n, 0, F)
    BY <1>1, <2>2, 0 \in Int, AlongExists
  <2>4. FoldOf(s, g)
    <3> DEFINE body == [x \in SUBSET (1..n) |->
          IF x = {} THEN 0 ELSE g[x \ {Video!Max(x)}] + s[Video!Max(x)]]
    <3>1. ASSUME NEW x \in SUBSET (1..n) PROVE g[x] = body[x]
      <4>1. CASE x = {}
        BY <2>3, <4>1 DEF Along
      <4>2. CASE x # {}
        <5>1. Video!Max(x) \in 1..n /\ g[x \ {Video!Max(x)}] \in Int
          BY <1>1, <4>2, MaxOf
        <5>2. g[x] = F[<<Video!Max(x), g[x \ {Video!Max(x)}]>>]
          BY <2>3, <4>2 DEF Along
        <5> QED BY <5>1, <5>2, <2>1, <4>2
      <4> QED BY <4>1, <4>2
    <3> QED BY <3>1, <1>1 DEF FoldOf
  <2> QED BY <2>4
<1>4. FoldOf(s, iter)
  BY <1>3
<1>5. \A x \in SUBSET (1..n) :
        iter[x] = IF x = {} THEN 0 ELSE iter[x \ {Video!Max(x)}] + s[Video!Max(x)]
  <2> HIDE DEF iter
  <2> QED BY <1>1, <1>4 DEF FoldOf
<1> HIDE DEF iter
<1> DEFINE K == {x \in SUBSET (1..n) : iter[x] \in Int}
<1>6. ASSUME NEW x \in SUBSET (1..n), \A y \in x : x \ {y} \in K PROVE x \in K
  <2>1. CASE x = {}
    <3>1. iter[x] = 0
      BY <1>5, <2>1
    <3> QED BY <3>1
  <2>2. CASE x # {}
    <3>1. Video!Max(x) \in x /\ Video!Max(x) \in 1..n /\ iter[x \ {Video!Max(x)}] \in Int
      BY <1>1, <1>6, <2>2, MaxOf
    <3>2. iter[x] = iter[x \ {Video!Max(x)}] + s[Video!Max(x)]
      BY <1>5, <2>2
    <3>3. s[Video!Max(x)] \in Int
      BY <1>1, <3>1
    <3>4. iter[x] \in Int
      BY <3>1, <3>2, <3>3
    <3> QED BY <3>4
  <2> QED BY <2>1, <2>2
<1>7. \A x \in SUBSET (1..n) : x \in K
  <2>1. IsFiniteSet(1..n)
    BY <1>1, 1 \in Int /\ n \in Int, FS_Interval
  <2>2. \A x \in SUBSET (1..n) : (\A y \in x : x \ {y} \in K) => x \in K
    BY <1>6
  <2> HIDE DEF K
  <2> QED BY <2>1, <2>2, SubsetsGood
<1> DEFINE p == [i \in 0..n |-> iter[1..i]]
<1>8. \A i \in 0..n : 1..i \in SUBSET (1..n) /\ p[i] = iter[1..i] /\ iter[1..i] \in Int
  <2>1. ASSUME NEW i \in 0..n PROVE 1..i \in SUBSET (1..n)
    BY <1>1
  <2> QED BY <2>1, <1>7
<1>9. p[0] = 0
  <2>1. 1..0 = {} /\ 0 \in 0..n
    BY <1>1
  <2> QED BY <1>5, <1>8, <2>1
<1>10. ASSUME NEW i \in 1..n PROVE p[i] = p[i - 1] + s[i]
  <2>1. i \in 0..n /\ i - 1 \in 0..n /\ i \in 1..i /\ i \in Nat
    BY <1>1
  <2>2. 1..i \in SUBSET (1..n) /\ 1..i # {}
    BY <1>8, <2>1
  <2>3. Video!Max(1..i) = i
    <3>1. Video!Max(1..i) \in 1..i /\ i <= Video!Max(1..i)
      BY <1>1, <2>1, <2>2, MaxOf
    <3> QED BY <2>1, <3>1
  <2>4. (1..i) \ {i} = 1..(i - 1)
    BY <2>1
  <2>5. iter[1..i] = iter[1..(i - 1)] + s[i]
    BY <1>5, <2>2, <2>3, <2>4
  <2> QED BY <1>8, <2>1, <2>5
<1>11. p \in [0..n -> Int] /\ p[n] = iter[1..n]
  BY <1>1, <1>8
<1> HIDE DEF p
<1>12. Sums(p, s)
  BY <1>9, <1>10, <1>11 DEF Sums
<1> QED BY <1>2, <1>11, <1>12

\* Partial sums give the sum, whichever they are.
LEMMA SumsAre ==
    ASSUME NEW s \in Seq(Int), NEW p, Sums(p, s)
    PROVE  Video!Total(s) = p[Len(s)]
<1>1. PICK q : Sums(q, s) /\ Video!Total(s) = q[Len(s)]
  BY TotalSums
<1>2. Len(s) \in Nat /\ \A i \in 1..Len(s) : s[i] \in Int
  OBVIOUS
<1> DEFINE Bad == {i \in 0..Len(s) : p[i] # q[i]}
<1>3. ASSUME Bad # {} PROVE FALSE
  <2>1. Bad \subseteq Nat
    BY <1>2
  <2>2. PICK i \in Bad : \A k \in Bad : i <= k
    BY <1>3, <2>1, LeastExists
  <2>3. i \in 0..Len(s) /\ i # 0 /\ p[i] # q[i]
    BY <2>2, <1>1 DEF Sums
  <2>4. i \in 1..Len(s) /\ i - 1 \in 0..Len(s) /\ i - 1 < i
    BY <1>2, <2>3
  <2>5. p[i - 1] = q[i - 1]
    BY <2>2, <2>4
  <2>6. p[i] = p[i - 1] + s[i] /\ q[i] = q[i - 1] + s[i]
    BY <1>1, <2>4 DEF Sums
  <2> QED BY <2>3, <2>5, <2>6
<1> QED BY <1>1, <1>2, <1>3

LEMMA TotalInt == ASSUME NEW s \in Seq(Int) PROVE Video!Total(s) \in Int
<1>1. PICK p : Sums(p, s) /\ Video!Total(s) = p[Len(s)]
  BY TotalSums
<1>2. Len(s) \in 0..Len(s)
  OBVIOUS
<1> QED BY <1>1, <1>2 DEF Sums

LEMMA TotalEmpty == <<>> \in Seq(Int) /\ Video!Total(<<>>) = 0
<1> DEFINE p == [i \in 0..0 |-> 0]
<1>1. <<>> \in Seq(Int) /\ Len(<<>>) = 0
  OBVIOUS
<1>2. Sums(p, <<>>) /\ p[0] = 0
  BY <1>1 DEF Sums
<1> HIDE DEF p
<1> QED BY <1>1, <1>2, SumsAre

\* A number more, one taken away, and one more in the last place.
LEMMA TotalAppend ==
    ASSUME NEW s \in Seq(Int), NEW x \in Int
    PROVE  Append(s, x) \in Seq(Int) /\ Video!Total(Append(s, x)) = Video!Total(s) + x
<1>1. PICK p : Sums(p, s) /\ Video!Total(s) = p[Len(s)]
  BY TotalSums
<1> DEFINE n == Len(s)
           t == Append(s, x)
           q == [i \in 0..n + 1 |-> IF i = n + 1 THEN p[n] + x ELSE p[i]]
<1>2. /\ n \in Nat /\ t \in Seq(Int) /\ Len(t) = n + 1
      /\ \A i \in 1..n : t[i] = s[i]
      /\ t[n + 1] = x
  OBVIOUS
<1>3. p \in [0..n -> Int] /\ p[0] = 0 /\ \A i \in 1..n : p[i] = p[i - 1] + s[i]
  BY <1>1 DEF Sums
<1>4. q \in [0..n + 1 -> Int] /\ q[0] = 0 /\ q[n + 1] = p[n] + x
  BY <1>2, <1>3
<1>5. ASSUME NEW i \in 1..n + 1 PROVE q[i] = q[i - 1] + t[i]
  <2>1. CASE i = n + 1
    <3>1. i - 1 = n /\ n \in 0..n + 1 /\ n # n + 1
      BY <1>2, <2>1
    <3>2. q[n] = p[n] /\ q[i] = p[n] + x
      BY <2>1, <3>1, <1>4
    <3> QED BY <1>2, <2>1, <3>1, <3>2
  <2>2. CASE i # n + 1
    <3>1. i \in 1..n /\ i \in 0..n + 1 /\ i - 1 \in 0..n + 1 /\ i - 1 # n + 1
      BY <1>2, <2>2
    <3>2. q[i] = p[i] /\ q[i - 1] = p[i - 1]
      BY <2>2, <3>1
    <3> QED BY <1>2, <1>3, <3>1, <3>2
  <2> QED BY <2>1, <2>2
<1> HIDE DEF q
<1>6. Sums(q, t)
  <2> HIDE DEF t
  <2> QED BY <1>2, <1>4, <1>5 DEF Sums
<1>7. Video!Total(t) = q[n + 1]
  <2> HIDE DEF t
  <2> QED BY <1>2, <1>6, SumsAre
<1> QED BY <1>1, <1>2, <1>4, <1>7

LEMMA TotalTail ==
    ASSUME NEW s \in Seq(Int), s # <<>>
    PROVE  /\ Tail(s) \in Seq(Int) /\ s[1] \in Int
           /\ Video!Total(Tail(s)) = Video!Total(s) - s[1]
<1>1. PICK p : Sums(p, s) /\ Video!Total(s) = p[Len(s)]
  BY TotalSums
<1> DEFINE n == Len(s)
           t == Tail(s)
           q == [i \in 0..n - 1 |-> p[i + 1] - s[1]]
<1>2. /\ n \in Nat /\ n # 0 /\ t \in Seq(Int) /\ Len(t) = n - 1
      /\ \A i \in 1..n : s[i] \in Int
      /\ \A i \in 1..n - 1 : t[i] = s[i + 1]
  OBVIOUS
<1>3. p \in [0..n -> Int] /\ p[0] = 0 /\ \A i \in 1..n : p[i] = p[i - 1] + s[i]
  BY <1>1 DEF Sums
<1>4. 1 \in 1..n /\ p[1] = s[1]
  <2>1. 1 \in 1..n /\ 1 - 1 = 0
    BY <1>2
  <2>2. p[1] = p[1 - 1] + s[1]
    BY <1>3, <2>1
  <2> QED BY <1>2, <1>3, <2>1, <2>2
<1>5. q \in [0..n - 1 -> Int]
  <2>1. \A i \in 0..n - 1 : i + 1 \in 0..n
    BY <1>2
  <2>2. \A i \in 0..n - 1 : p[i + 1] - s[1] \in Int
    BY <2>1, <1>2, <1>3, <1>4
  <2> QED BY <2>2
<1>6. q[0] = 0 /\ q[n - 1] = p[n] - s[1]
  <2>1. 0 \in 0..n - 1 /\ n - 1 \in 0..n - 1 /\ 0 + 1 = 1 /\ n - 1 + 1 = n
    BY <1>2
  <2>2. q[0] = p[0 + 1] - s[1] /\ q[n - 1] = p[n - 1 + 1] - s[1]
    BY <2>1
  <2> QED BY <2>1, <2>2, <1>2, <1>4
<1>7. ASSUME NEW i \in 1..n - 1 PROVE q[i] = q[i - 1] + t[i]
  <2>1. i \in 0..n - 1 /\ i - 1 \in 0..n - 1 /\ i + 1 \in 1..n /\ i - 1 + 1 = i /\ i + 1 - 1 = i
        /\ i \in 0..n
    BY <1>2
  <2>2. q[i] = p[i + 1] - s[1] /\ q[i - 1] = p[i - 1 + 1] - s[1]
    BY <2>1
  <2>3. p[i + 1] = p[i + 1 - 1] + s[i + 1]
    BY <1>3, <2>1
  <2>4. p[i] \in Int /\ s[i + 1] \in Int /\ s[1] \in Int /\ t[i] = s[i + 1]
    BY <1>2, <1>3, <1>4, <2>1
  <2> QED BY <2>1, <2>2, <2>3, <2>4
<1> HIDE DEF q
<1>8. Sums(q, t)
  <2> HIDE DEF t
  <2> QED BY <1>2, <1>5, <1>6, <1>7 DEF Sums
<1>9. Video!Total(t) = q[n - 1]
  <2> HIDE DEF t
  <2> QED BY <1>2, <1>8, SumsAre
<1> QED BY <1>1, <1>2, <1>4, <1>6, <1>9

LEMMA TotalLast ==
    ASSUME NEW s \in Seq(Int), s # <<>>
    PROVE  /\ [s EXCEPT ![Len(s)] = @ + 1] \in Seq(Int) \ {<<>>}
           /\ Video!Total([s EXCEPT ![Len(s)] = @ + 1]) = Video!Total(s) + 1
<1>1. PICK p : Sums(p, s) /\ Video!Total(s) = p[Len(s)]
  BY TotalSums
<1> DEFINE n == Len(s)
           t == [s EXCEPT ![Len(s)] = @ + 1]
           q == [i \in 0..n |-> IF i = n THEN p[n] + 1 ELSE p[i]]
<1>2. /\ n \in Nat /\ n # 0 /\ t \in Seq(Int) /\ Len(t) = n /\ t # <<>>
      /\ \A i \in 1..n : s[i] \in Int
      /\ \A i \in 1..n - 1 : t[i] = s[i]
      /\ t[n] = s[n] + 1
  OBVIOUS
<1> HIDE DEF t, n
<1>3. p \in [0..n -> Int] /\ p[0] = 0 /\ \A i \in 1..n : p[i] = p[i - 1] + s[i]
  BY <1>1 DEF Sums, n
<1>4. q \in [0..n -> Int] /\ q[0] = 0 /\ q[n] = p[n] + 1
  BY <1>2, <1>3
<1>5. ASSUME NEW i \in 1..n PROVE q[i] = q[i - 1] + t[i]
  <2>1. i \in 0..n /\ i - 1 \in 0..n /\ i - 1 # n /\ p[i] = p[i - 1] + s[i]
    BY <1>2, <1>3
  <2>2. q[i - 1] = p[i - 1] /\ p[i - 1] \in Int /\ s[i] \in Int
    BY <1>2, <1>3, <2>1
  <2>3. CASE i = n
    <3>1. q[i] = p[i] + 1 /\ t[i] = s[i] + 1
      BY <1>2, <1>4, <2>3
    <3> QED BY <2>1, <2>2, <3>1
  <2>4. CASE i # n
    <3>1. i \in 1..n - 1
      BY <1>2, <2>4
    <3>2. q[i] = p[i] /\ t[i] = s[i]
      BY <1>2, <2>1, <2>4, <3>1
    <3> QED BY <2>1, <2>2, <3>2
  <2> QED BY <2>3, <2>4
<1> HIDE DEF q
<1>6. Sums(q, t)
  BY <1>2, <1>4, <1>5 DEF Sums
<1>7. Video!Total(t) = q[n]
  BY <1>2, <1>6, SumsAre
<1>8. Video!Total(t) = Video!Total(s) + 1
  BY <1>1, <1>4, <1>7 DEF n
<1> QED BY <1>2, <1>8 DEF n, t

\* A frame saved once more is one save more in the files.
Files == Seq(Int) \ {<<>>}

LEMMA SaveAdds ==
    ASSUME NEW files \in Files
    PROVE  Video!Save(files) \in Files /\ Video!Total(Video!Save(files)) = Video!Total(files) + 1
<1>1. files \in Seq(Int) /\ files # <<>>
  BY DEF Files
<1>2. CASE Video!Save(files) = Append(files, 1)
  <2>1. Append(files, 1) \in Seq(Int) /\ Video!Total(Append(files, 1)) = Video!Total(files) + 1
    BY <1>1, TotalAppend
  <2>2. Append(files, 1) # <<>>
    BY <1>1
  <2> QED BY <1>2, <2>1, <2>2 DEF Files
<1>3. CASE Video!Save(files) = [files EXCEPT ![Len(files)] = @ + 1]
  <2>1. /\ [files EXCEPT ![Len(files)] = @ + 1] \in Seq(Int) \ {<<>>}
        /\ Video!Total([files EXCEPT ![Len(files)] = @ + 1]) = Video!Total(files) + 1
    BY <1>1, TotalLast
  <2> QED BY <1>3, <2>1 DEF Files
<1> QED BY <1>2, <1>3 DEF Video!Save

\* The first file is opened for the first frame.
LEMMA OpenIs ==
    ASSUME NEW files \in Seq(Int)
    PROVE  Video!Open(files) \in Files /\ Video!Total(Video!Open(files)) = Video!Total(files)
<1>1. CASE files = <<>>
  <2>1. Append(<<>>, 0) = <<0>> /\ <<0>> \in Seq(Int) /\ <<0>> # <<>> /\ 0 + 0 = 0
    OBVIOUS
  <2>2. Video!Total(Append(<<>>, 0)) = Video!Total(<<>>) + 0
    BY TotalEmpty, TotalAppend, 0 \in Int
  <2> QED BY <1>1, <2>1, <2>2, TotalEmpty DEF Video!Open, Files
<1>2. CASE files # <<>>
  BY <1>2 DEF Video!Open, Files
<1> QED BY <1>1, <1>2

SavedOf(files, n, g) == g = [x \in SUBSET (1..n) |->
    IF x = {} THEN Video!Open(files) ELSE Video!Save(g[x \ {Video!Max(x)}])]

\* n saves of a frame are n more in the files.
LEMMA SavedTotal ==
    ASSUME NEW files \in Seq(Int), NEW n \in Nat
    PROVE  /\ Video!Saved(files, n) \in Files
           /\ Video!Total(Video!Saved(files, n)) = Video!Total(files) + n
<1> DEFINE iter == CHOOSE g : SavedOf(files, n, g)
           opened == Video!Open(files)
           sum == Video!Total(files)
<1>1. Video!Saved(files, n) = iter[1..n]
  <2>1. DOMAIN [i \in 1..n |-> i] = 1..n
    OBVIOUS
  <2> QED BY <2>1 DEF Video!Saved, Video!FoldLeft, Video!MapThenFoldSet, SavedOf
<1>2. opened \in Files /\ Video!Total(opened) = sum /\ sum \in Int
  BY OpenIs, TotalInt
<1>3. \E g : SavedOf(files, n, g)
  <2> DEFINE F == [q \in (1..n) \X Files |-> Video!Save(q[2])]
  <2>1. \A i \in 1..n, v \in Files : F[<<i, v>>] = Video!Save(v)
    OBVIOUS
  <2> HIDE DEF F
  <2>2. Maps(F, 1..n, Files)
    BY <2>1, SaveAdds DEF Maps
  <2>3. PICK g \in [SUBSET (1..n) -> Files] : Along(g, n, opened, F)
    BY <1>2, <2>2, AlongExists
  <2> DEFINE body == [x \in SUBSET (1..n) |->
        IF x = {} THEN Video!Open(files) ELSE Video!Save(g[x \ {Video!Max(x)}])]
  <2>4. ASSUME NEW x \in SUBSET (1..n) PROVE g[x] = body[x]
    <3>1. CASE x = {}
      BY <2>3, <3>1 DEF Along
    <3>2. CASE x # {}
      <4>1. Video!Max(x) \in 1..n /\ g[x \ {Video!Max(x)}] \in Files
        BY <3>2, MaxOf
      <4>2. g[x] = F[<<Video!Max(x), g[x \ {Video!Max(x)}]>>]
        BY <2>3, <3>2 DEF Along
      <4> QED BY <4>1, <4>2, <2>1, <3>2
    <3> QED BY <3>1, <3>2
  <2> QED BY <2>4 DEF SavedOf
<1>4. SavedOf(files, n, iter)
  BY <1>3
<1>5. \A x \in SUBSET (1..n) :
        iter[x] = IF x = {} THEN opened ELSE Video!Save(iter[x \ {Video!Max(x)}])
  <2> HIDE DEF iter
  <2> QED BY <1>4 DEF SavedOf
<1> HIDE DEF iter, opened, sum
<1>6. IsFiniteSet(1..n) /\ Cardinality(1..n) = n
  BY 1 \in Int /\ n \in Int, FS_Interval
<1> DEFINE K == {x \in SUBSET (1..n) :
                   iter[x] \in Files /\ Video!Total(iter[x]) = sum + Cardinality(x)}
<1>7. ASSUME NEW x \in SUBSET (1..n), \A y \in x : x \ {y} \in K PROVE x \in K
  <2>1. CASE x = {}
    <3>1. Cardinality(x) = 0
      BY <2>1, FS_EmptySet
    <3>2. iter[x] = opened
      BY <1>5, <2>1
    <3>3. iter[x] \in Files /\ Video!Total(iter[x]) = sum + Cardinality(x)
      BY <1>2, <3>1, <3>2
    <3> QED BY <3>3
  <2>2. CASE x # {}
    <3>1. Video!Max(x) \in x
      BY <2>2, MaxOf
    <3> DEFINE rest == x \ {Video!Max(x)}
    <3>2. iter[rest] \in Files /\ Video!Total(iter[rest]) = sum + Cardinality(rest)
      BY <1>7, <3>1
    <3>3. IsFiniteSet(x) /\ Cardinality(x) \in Nat /\ Cardinality(rest) = Cardinality(x) - 1
      BY <1>6, <3>1, FS_Subset, FS_CardinalityType, FS_RemoveElement
    <3>4. iter[x] = Video!Save(iter[rest])
      BY <1>5, <2>2
    <3> HIDE DEF rest
    <3>5. iter[x] \in Files /\ Video!Total(iter[x]) = sum + Cardinality(x)
      BY <1>2, <3>2, <3>3, <3>4, SaveAdds
    <3> QED BY <3>5
  <2> QED BY <2>1, <2>2
<1>8. 1..n \in K
  <2>1. \A x \in SUBSET (1..n) : (\A y \in x : x \ {y} \in K) => x \in K
    BY <1>7
  <2> HIDE DEF K
  <2>2. \A x \in SUBSET (1..n) : x \in K
    BY <1>6, <2>1, SubsetsGood
  <2> QED BY <2>2
<1> QED BY <1>1, <1>6, <1>8 DEF sum

-----------------------------------------------------------------------------
(* The writer of the video and its worker. *)

\* The frames: those that wait are later than the one in hand, which is not before the
\* last one shown.
InHand ==
    /\ writer_queue \in Seq(Nat) /\ Rising(writer_queue)
    /\ sent \in Nat /\ writer_held \in Nat /\ last \in Nat
    /\ \A i \in DOMAIN writer_queue : writer_held < writer_queue[i] /\ writer_queue[i] <= sent
    /\ last <= writer_held /\ writer_held <= sent
    /\ at \in {"message", "match"} => writer_held # 0

\* The saves: VideoKeepsTime, with what it needs of a time when no frame was shown yet.
AllSaves == Video!Total(segments) + pruned + Video!SavesOf(work) + dropped
Accounts ==
    /\ first \in Nat /\ last \in Nat /\ owed \in Nat
    /\ work \in Seq(Nat \X Nat) /\ segments \in Seq(Int)
    /\ dropped \in Int /\ pruned \in Int
    /\ first = 0 <=> last = 0
    /\ first # 0 => owed < Unit
    /\ Unit * AllSaves + owed = Unit + Fps * (last - first)

VideoInvariant == InHand /\ Accounts

LEMMA VideoNumbers ==
    /\ QueueMax \in Nat /\ QueueMax # 0 /\ WriterMax \in Nat /\ WriterMax # 0
    /\ Unit \in Nat /\ Unit # 0 /\ Fps \in Nat /\ RetainMax \in Nat /\ RetainMax # 0
BY VideoAssumption

-----------------------------------------------------------------------------
\* Two sequences of numbers that have the same are one.
LEMMA Same ==
    ASSUME NEW s \in Seq(Int), NEW t \in Seq(Int), Len(s) = Len(t), \A i \in 1..Len(s) : s[i] = t[i]
    PROVE  s = t
OBVIOUS

\* The saves of the items that wait.
Counts(w) == [i \in DOMAIN w |-> w[i][2]]

LEMMA CountsAre ==
    ASSUME NEW w \in Seq(Nat \X Nat)
    PROVE  /\ Counts(w) \in Seq(Int) /\ Len(Counts(w)) = Len(w)
           /\ \A i \in 1..Len(w) : Counts(w)[i] = w[i][2] /\ w[i][2] \in Nat
           /\ Video!SavesOf(w) = Video!Total(Counts(w)) /\ Video!SavesOf(w) \in Int
<1>1. Len(w) \in Nat /\ DOMAIN w = 1..Len(w) /\ \A i \in 1..Len(w) : w[i] \in Nat \X Nat
  OBVIOUS
<1>2. \A i \in 1..Len(w) : w[i][2] \in Nat /\ w[i][2] \in Int
  BY <1>1
<1>3. Counts(w) \in [1..Len(w) -> Int]
  BY <1>1, <1>2 DEF Counts
<1>4. Counts(w) \in Seq(Int) /\ Len(Counts(w)) = Len(w)
  BY <1>1, <1>3
<1>5. Video!SavesOf(w) = Video!Total(Counts(w))
  BY DEF Video!SavesOf, Counts
<1>6. \A i \in 1..Len(w) : Counts(w)[i] = w[i][2]
  BY <1>1 DEF Counts
<1> QED BY <1>2, <1>4, <1>5, <1>6, TotalInt

LEMMA ItemAdded ==
    ASSUME NEW w \in Seq(Nat \X Nat), NEW x \in Nat \X Nat
    PROVE  /\ Append(w, x) \in Seq(Nat \X Nat)
           /\ Video!SavesOf(Append(w, x)) = Video!SavesOf(w) + x[2]
<1> DEFINE v == Append(w, x)
           n == Len(w)
<1>1. /\ v \in Seq(Nat \X Nat) /\ n \in Nat /\ Len(v) = n + 1 /\ v[n + 1] = x
      /\ \A i \in 1..n : v[i] = w[i]
  OBVIOUS
<1>2. x[2] \in Int
  OBVIOUS
<1> HIDE DEF v
<1>3. /\ Counts(w) \in Seq(Int) /\ Len(Counts(w)) = n
      /\ \A i \in 1..n : Counts(w)[i] = w[i][2]
  BY CountsAre
<1>4. /\ Counts(v) \in Seq(Int) /\ Len(Counts(v)) = n + 1
      /\ \A i \in 1..n + 1 : Counts(v)[i] = v[i][2]
  BY <1>1, CountsAre
<1> DEFINE c == Append(Counts(w), x[2])
<1>5. /\ c \in Seq(Int) /\ Len(c) = n + 1 /\ c[n + 1] = x[2]
      /\ \A i \in 1..n : c[i] = Counts(w)[i]
  BY <1>2, <1>3
<1>6. \A i \in 1..n + 1 : Counts(v)[i] = c[i]
  <2> HIDE DEF c, n
  <2>1. ASSUME NEW i \in 1..n + 1 PROVE Counts(v)[i] = c[i]
    <3>1. Counts(v)[i] = v[i][2]
      BY <1>4
    <3>2. CASE i \in 1..n
      BY <1>1, <1>3, <1>5, <3>1, <3>2
    <3>3. CASE i = n + 1
      BY <1>1, <1>5, <3>1, <3>3
    <3>4. i \in 1..n \/ i = n + 1
      BY <1>1
    <3> QED BY <3>2, <3>3, <3>4
  <2> QED BY <2>1
<1>7. Counts(v) = c
  <2> HIDE DEF c
  <2> QED BY <1>4, <1>5, <1>6, Same
<1>8. Video!Total(c) = Video!Total(Counts(w)) + x[2]
  BY <1>2, <1>3, TotalAppend
<1>9. Video!SavesOf(v) = Video!Total(Counts(v)) /\ Video!SavesOf(w) = Video!Total(Counts(w))
  BY <1>1, CountsAre
<1> QED BY <1>1, <1>7, <1>8, <1>9 DEF v

LEMMA ItemTaken ==
    ASSUME NEW w \in Seq(Nat \X Nat), w # <<>>
    PROVE  /\ Tail(w) \in Seq(Nat \X Nat) /\ w[1] \in Nat \X Nat /\ w[1][2] \in Nat
           /\ Head(w) = w[1]
           /\ Video!SavesOf(Tail(w)) = Video!SavesOf(w) - w[1][2]
<1> DEFINE v == Tail(w)
           n == Len(w)
<1>1. /\ v \in Seq(Nat \X Nat) /\ n \in Nat /\ n # 0 /\ Len(v) = n - 1
      /\ \A i \in 1..n - 1 : v[i] = w[i + 1]
      /\ w[1] \in Nat \X Nat /\ Head(w) = w[1]
  OBVIOUS
<1> HIDE DEF v
<1>2. /\ Counts(w) \in Seq(Int) /\ Len(Counts(w)) = n
      /\ \A i \in 1..n : Counts(w)[i] = w[i][2]
  BY CountsAre
<1>3. /\ Counts(v) \in Seq(Int) /\ Len(Counts(v)) = n - 1
      /\ \A i \in 1..n - 1 : Counts(v)[i] = v[i][2]
  BY <1>1, CountsAre
<1> DEFINE c == Tail(Counts(w))
<1>4. /\ c \in Seq(Int) /\ Len(c) = n - 1 /\ Counts(w) # <<>>
      /\ \A i \in 1..n - 1 : c[i] = Counts(w)[i + 1]
  BY <1>1, <1>2
<1>5. \A i \in 1..n - 1 : Counts(v)[i] = c[i]
  <2> HIDE DEF c, n
  <2>1. ASSUME NEW i \in 1..n - 1 PROVE Counts(v)[i] = c[i]
    <3>1. i + 1 \in 1..n
      BY <1>1
    <3>2. Counts(v)[i] = v[i][2] /\ v[i] = w[i + 1]
      BY <1>1, <1>3
    <3>3. c[i] = Counts(w)[i + 1] /\ Counts(w)[i + 1] = w[i + 1][2]
      BY <1>2, <1>4, <3>1
    <3> QED BY <3>2, <3>3
  <2> QED BY <2>1
<1>6. Counts(v) = c
  <2> HIDE DEF c
  <2> QED BY <1>3, <1>4, <1>5, Same
<1>7. Video!Total(c) = Video!Total(Counts(w)) - Counts(w)[1]
  BY <1>2, <1>4, TotalTail
<1>8. Video!SavesOf(v) = Video!Total(Counts(v)) /\ Video!SavesOf(w) = Video!Total(Counts(w))
  BY <1>1, CountsAre
<1>9. Counts(w)[1] = w[1][2] /\ w[1][2] \in Nat
  <2>1. 1 \in 1..n
    BY <1>1
  <2> QED BY <2>1, <1>1, <1>2
<1> QED BY <1>1, <1>6, <1>7, <1>8, <1>9 DEF v

\* An item more in a queue that may be full, which then forgets its oldest.
LEMMA ItemPut ==
    ASSUME NEW w \in Seq(Nat \X Nat), NEW x \in Nat \X Nat
    PROVE  /\ Video!Bounded(w, x, WriterMax) \in Seq(Nat \X Nat)
           /\ (IF Len(w) < WriterMax THEN 0 ELSE w[1][2]) \in Int
           /\ Video!SavesOf(Video!Bounded(w, x, WriterMax))
                + (IF Len(w) < WriterMax THEN 0 ELSE w[1][2]) = Video!SavesOf(w) + x[2]
<1>1. x[2] \in Int /\ Video!SavesOf(w) \in Int
  BY CountsAre
<1>2. CASE Len(w) < WriterMax
  <2>1. Video!Bounded(w, x, WriterMax) = Append(w, x)
    BY <1>2 DEF Video!Bounded
  <2> QED BY <1>1, <1>2, <2>1, ItemAdded
<1>3. CASE ~(Len(w) < WriterMax)
  <2>1. Video!Bounded(w, x, WriterMax) = Append(Tail(w), x)
    BY <1>3 DEF Video!Bounded
  <2>2. w # <<>>
    BY <1>3, VideoNumbers
  <2>3. /\ Tail(w) \in Seq(Nat \X Nat) /\ w[1][2] \in Nat
        /\ Video!SavesOf(Tail(w)) = Video!SavesOf(w) - w[1][2]
    BY <2>2, ItemTaken
  <2>4. /\ Append(Tail(w), x) \in Seq(Nat \X Nat)
        /\ Video!SavesOf(Append(Tail(w), x)) = Video!SavesOf(Tail(w)) + x[2]
    BY <2>3, ItemAdded
  <2> QED BY <1>1, <1>3, <2>1, <2>3, <2>4
<1> QED BY <1>2, <1>3

-----------------------------------------------------------------------------
LEMMA Division ==
    ASSUME NEW a \in Nat, NEW u \in Nat, u # 0
    PROVE  /\ a \div u \in Nat /\ a % u \in Nat /\ a % u < u
           /\ u * (a \div u) + (a % u) = a
OBVIOUS

LEMMA Product == ASSUME NEW a \in Nat, NEW b \in Nat PROVE a * b \in Nat
OBVIOUS

\* A frame shown not before the last pays what is due since, in whole saves.
LEMMA Shown ==
    ASSUME Accounts, NEW f \in Nat, f # 0, last <= f, Video!Show(f), UNCHANGED <<segments, pruned>>
    PROVE  Accounts' /\ last' = f
<1> DEFINE due == Video!Due(f)
           d == Video!Saves(f)
           x == <<f, d>>
<1>1. /\ work' = Video!Bounded(work, x, WriterMax)
      /\ dropped' = dropped + (IF Len(work) < WriterMax THEN 0 ELSE work[1][2])
      /\ owed' = due % Unit /\ d = due \div Unit
      /\ last' = f /\ first' = IF first = 0 THEN f ELSE first
  BY DEF Video!Show, Video!OwedAfter, Video!Saves
<1>2. /\ first \in Nat /\ last \in Nat /\ owed \in Nat
      /\ work \in Seq(Nat \X Nat) /\ segments \in Seq(Int)
      /\ dropped \in Int /\ pruned \in Int
      /\ first = 0 <=> last = 0
  BY DEF Accounts
<1>3. Unit * AllSaves + owed = Unit + Fps * (last - first)
  BY DEF Accounts
<1>4. Video!Total(segments) \in Int /\ Video!SavesOf(work) \in Int /\ AllSaves \in Int
  BY <1>2, TotalInt, CountsAre DEF AllSaves
<1>5. due \in Nat
  <2>1. CASE last = 0
    BY <1>2, <2>1 DEF Video!Due
  <2>2. CASE last # 0
    <3>1. f - last \in Nat
      BY <1>2
    <3>2. Fps * (f - last) \in Nat
      BY <3>1, VideoNumbers, Product
    <3>3. due = owed + Fps * (f - last)
      BY <2>2 DEF Video!Due
    <3> QED BY <1>2, <3>2, <3>3
  <2> QED BY <2>1, <2>2
<1> HIDE DEF due, d
<1>6. d \in Nat /\ owed' \in Nat /\ owed' < Unit /\ Unit * d + owed' = due
  BY <1>1, <1>5, VideoNumbers, Division
<1>7. x \in Nat \X Nat /\ x[2] = d
  BY <1>6
<1> DEFINE loss == IF Len(work) < WriterMax THEN 0 ELSE work[1][2]
<1> HIDE DEF x
<1>8. /\ work' \in Seq(Nat \X Nat) /\ loss \in Int
      /\ Video!SavesOf(work') + loss = Video!SavesOf(work) + d
  BY <1>1, <1>2, <1>7, ItemPut
<1>9. dropped' = dropped + loss
  BY <1>1
<1> HIDE DEF loss
<1>10. Video!SavesOf(work') \in Int
  BY <1>8, CountsAre
<1>11. AllSaves' = AllSaves + d
  <2>1. AllSaves' = Video!Total(segments) + pruned + Video!SavesOf(work') + dropped'
    BY DEF AllSaves, Video!SavesOf
  <2>2. AllSaves = Video!Total(segments) + pruned + Video!SavesOf(work) + dropped
    BY DEF AllSaves
  <2> DEFINE sum == Video!Total(segments)
             waits == Video!SavesOf(work)
             waited == Video!SavesOf(work')
  <2>3. sum \in Int /\ waits \in Int /\ waited \in Int /\ waited + loss = waits + d
    BY <1>4, <1>8, <1>10
  <2>4. AllSaves' = sum + pruned + waited + (dropped + loss)
        /\ AllSaves = sum + pruned + waits + dropped
    BY <2>1, <2>2, <1>9
  <2> HIDE DEF sum, waits, waited
  <2> QED BY <2>3, <2>4, <1>2, <1>6, <1>8
<1> DEFINE paid == Unit * AllSaves
           pays == Unit * d
<1>12. /\ paid \in Int /\ pays \in Int
       /\ Unit * (AllSaves + d) = paid + pays
       /\ paid + owed = Unit + Fps * (last - first) /\ pays + owed' = due
  BY <1>4, <1>6, <1>3, VideoNumbers
<1> HIDE DEF paid, pays
<1>13. PICK was \in Int : was = owed
  BY <1>2
<1>14. PICK is \in Int : is = owed'
  BY <1>6
<1>15. paid \in Int /\ pays \in Int /\ Unit \in Int
  BY <1>12, VideoNumbers
<1>16. paid + pays + owed' = Unit + Fps * (last' - first')
  <2>1. CASE last = 0
    <3>1. first' = f /\ due = owed /\ last' = f
      BY <1>1, <1>2, <2>1 DEF Video!Due, due
    <3>2. last - first = 0 /\ last' - first' = 0
      <4>1. first = 0
        BY <1>2, <2>1
      <4>2. last - first = 0
        BY <2>1, <4>1
      <4> QED BY <3>1, <4>2
    <3>3. Fps * 0 = 0
      BY VideoNumbers
    <3>4. paid + was = Unit /\ pays + is = was
      <4>1. Fps * (last - first) = 0
        BY <3>2, <3>3
      <4>2. paid + was = Unit + Fps * (last - first) /\ pays + is = was
        BY <1>12, <1>13, <1>14, <3>1
      <4> QED BY <1>15, <4>1, <4>2
    <3>5. paid + pays + is = Unit
      BY <1>15, <3>4
    <3> QED BY <1>14, <3>2, <3>3, <3>5, VideoNumbers
  <2>2. CASE last # 0
    <3>1. first' = first /\ due = owed + Fps * (f - last) /\ last' = f
      BY <1>1, <1>2, <2>2 DEF Video!Due, due
    <3> DEFINE old == Fps * (last - first)
               new == Fps * (f - last)
    <3>2. /\ Fps * (f - first) = new + old
          /\ new \in Int /\ old \in Int
      BY <1>2, VideoNumbers
    <3>3. paid + was = Unit + old /\ pays + is = was + new
      BY <1>12, <1>13, <1>14, <3>1
    <3> HIDE DEF old, new
    <3>4. paid + pays + is = Unit + (new + old)
      BY <1>15, <3>2, <3>3
    <3> QED BY <1>14, <3>1, <3>2, <3>4
  <2> QED BY <2>1, <2>2
<1>17. Unit * AllSaves' + owed' = Unit + Fps * (last' - first')
  BY <1>11, <1>12, <1>16
<1>18. first' \in Nat /\ last' \in Nat /\ (first' = 0 <=> last' = 0) /\ dropped' \in Int
  BY <1>1, <1>2, <1>8, <1>9
<1> QED BY <1>1, <1>2, <1>6, <1>8, <1>17, <1>18 DEF Accounts

\* What WriterWorker writes goes from its queue to the files, and some of the files go.
LEMMA KeptIs ==
    ASSUME NEW files \in Seq(Int)
    PROVE  Video!Kept(files) \in Seq(Int)
<1>1. CASE Len(files) > RetainMax
  <2> DEFINE low == Len(files) - RetainMax + 1
  <2>1. low \in 1..Len(files) + 1 /\ Len(files) \in Nat
    BY <1>1, VideoNumbers
  <2>2. SubSeq(files, low, Len(files)) \in Seq(Int)
    BY <2>1
  <2> QED BY <1>1, <2>2 DEF Video!Kept
<1>2. CASE ~(Len(files) > RetainMax)
  BY <1>2 DEF Video!Kept
<1> QED BY <1>1, <1>2

LEMMA Written == ASSUME Accounts, Video!Write PROVE Accounts'
<1> DEFINE n == Head(work)[2]
           files == Video!Saved(segments, n)
           kept == Video!Kept(files)
<1>1. /\ work # <<>> /\ work' = Tail(work)
      /\ segments' = kept /\ pruned' = pruned + Video!Total(files) - Video!Total(kept)
      /\ UNCHANGED <<first, last, owed, dropped>>
  BY DEF Video!Write
<1>2. /\ work \in Seq(Nat \X Nat) /\ segments \in Seq(Int) /\ dropped \in Int /\ pruned \in Int
      /\ first \in Nat /\ last \in Nat /\ owed \in Nat
  BY DEF Accounts
<1>3. /\ work' \in Seq(Nat \X Nat) /\ n \in Nat
      /\ Video!SavesOf(work') = Video!SavesOf(work) - n
  BY <1>1, <1>2, ItemTaken
<1> HIDE DEF n
<1>4. files \in Seq(Int) /\ Video!Total(files) = Video!Total(segments) + n
  BY <1>2, <1>3, SavedTotal DEF Files
<1> HIDE DEF files
<1>5. kept \in Seq(Int) /\ Video!Total(kept) \in Int
  BY <1>4, KeptIs, TotalInt
<1> HIDE DEF kept
<1>6. Video!Total(segments) \in Int /\ Video!Total(files) \in Int /\ Video!SavesOf(work) \in Int
  BY <1>2, <1>4, TotalInt, CountsAre
<1>7. AllSaves' = AllSaves
  <2>1. AllSaves' = Video!Total(kept) + pruned' + Video!SavesOf(work') + dropped
    BY <1>1 DEF AllSaves, Video!SavesOf
  <2>2. AllSaves = Video!Total(segments) + pruned + Video!SavesOf(work) + dropped
    BY DEF AllSaves
  <2> DEFINE waits == Video!SavesOf(work)
             sum == Video!Total(segments)
             left == Video!Total(kept)
  <2>3. /\ sum \in Int /\ left \in Int /\ waits \in Int
        /\ AllSaves' = left + (pruned + (sum + n) - left) + (waits - n) + dropped
    BY <2>1, <1>1, <1>3, <1>4, <1>5, <1>6
  <2>4. AllSaves = sum + pruned + waits + dropped
    BY <2>2
  <2> HIDE DEF sum, waits, left
  <2> QED BY <2>3, <2>4, <1>2, <1>3
<1>8. pruned' \in Int
  BY <1>1, <1>2, <1>5, <1>6
<1> QED BY <1>1, <1>3, <1>5, <1>7, <1>8 DEF Accounts

\* What does not touch them.
LEMMA AccountsStay ==
    ASSUME Accounts, UNCHANGED <<last, first, owed, work, dropped, segments, pruned>>
    PROVE  Accounts'
BY DEF Accounts, AllSaves, Video!SavesOf

-----------------------------------------------------------------------------
\* A new frame waits, in a queue that may be full.
LEMMA FrameWaits ==
    ASSUME InHand, Video!Frame
    PROVE  InHand'
<1>1. PICK f \in sent + 1 .. MaxFrame :
        sent' = f /\ writer_queue' = Video!Bounded(writer_queue, f, QueueMax)
  BY DEF Video!Frame
<1>2. UNCHANGED <<writer_held, last, at>>
  BY DEF Video!Frame, Video!videoVars
<1>3. /\ writer_queue \in Seq(Nat) /\ Rising(writer_queue)
      /\ sent \in Nat /\ writer_held \in Nat /\ last \in Nat
      /\ \A i \in DOMAIN writer_queue : writer_held < writer_queue[i] /\ writer_queue[i] <= sent
      /\ last <= writer_held /\ writer_held <= sent
  BY DEF InHand
<1>4. f \in Nat /\ sent < f
  BY <1>1, <1>3, VideoAssumption
<1>5. ASSUME NEW q \in Seq(Nat), Rising(q),
             \A i \in DOMAIN q : writer_held < q[i] /\ q[i] <= sent
      PROVE  /\ Append(q, f) \in Seq(Nat) /\ Rising(Append(q, f))
             /\ \A i \in DOMAIN Append(q, f) : writer_held < Append(q, f)[i] /\ Append(q, f)[i] <= f
  <2>1. \A i \in DOMAIN q : q[i] \in Nat /\ q[i] < f
    BY <1>3, <1>4, <1>5
  <2>2. /\ Append(q, f) \in Seq(Nat) /\ Rising(Append(q, f))
        /\ {Append(q, f)[i] : i \in DOMAIN Append(q, f)} = {q[i] : i \in DOMAIN q} \cup {f}
    BY <1>4, <1>5, <2>1, Appended
  <2>3. \A k \in {q[i] : i \in DOMAIN q} \cup {f} : writer_held < k /\ k <= f
    BY <1>3, <1>4, <1>5, <2>1
  <2> QED BY <2>2, <2>3
<1>6. CASE Len(writer_queue) < QueueMax
  <2>1. writer_queue' = Append(writer_queue, f)
    BY <1>1, <1>6 DEF Video!Bounded
  <2>2. /\ writer_queue' \in Seq(Nat) /\ Rising(writer_queue')
        /\ \A i \in DOMAIN writer_queue' : writer_held < writer_queue'[i] /\ writer_queue'[i] <= f
    BY <2>1, <1>3, <1>5
  <2> QED BY <2>2, <1>1, <1>2, <1>3, <1>4 DEF InHand, Rising
<1>7. CASE ~(Len(writer_queue) < QueueMax)
  <2> DEFINE rest == Tail(writer_queue)
  <2>1. writer_queue' = Append(rest, f)
    BY <1>1, <1>7 DEF Video!Bounded
  <2>2. writer_queue # <<>>
    BY <1>7, VideoNumbers
  <2>3. /\ rest \in Seq(Nat) /\ Rising(rest)
        /\ {rest[i] : i \in DOMAIN rest} \subseteq {writer_queue[i] : i \in DOMAIN writer_queue}
    BY <2>2, <1>3, Shortened
  <2> HIDE DEF rest
  <2>4. \A i \in DOMAIN rest : writer_held < rest[i] /\ rest[i] <= sent
    BY <1>3, <2>3
  <2>5. /\ writer_queue' \in Seq(Nat) /\ Rising(writer_queue')
        /\ \A i \in DOMAIN writer_queue' : writer_held < writer_queue'[i] /\ writer_queue'[i] <= f
    BY <2>1, <2>3, <2>4, <1>5
  <2> QED BY <2>5, <1>1, <1>2, <1>3, <1>4 DEF InHand, Rising
<1> QED BY <1>6, <1>7

\* The next frame is taken, and shown or not.
LEMMA NextTaken ==
    ASSUME InHand, writer_queue # <<>>,
           writer_held' = Head(writer_queue), writer_queue' = Tail(writer_queue),
           last' \in {last, writer_held'}, UNCHANGED sent
    PROVE  InHand' /\ writer_held' \in Nat /\ writer_held' # 0 /\ last <= writer_held'
<1>1. /\ writer_queue \in Seq(Nat) /\ Rising(writer_queue)
      /\ sent \in Nat /\ writer_held \in Nat /\ last \in Nat
      /\ \A i \in DOMAIN writer_queue : writer_held < writer_queue[i] /\ writer_queue[i] <= sent
      /\ last <= writer_held /\ writer_held <= sent
  BY DEF InHand
<1>2. /\ writer_queue' \in Seq(Nat) /\ Rising(writer_queue')
      /\ writer_held' \in Nat /\ writer_held' \in {writer_queue[i] : i \in DOMAIN writer_queue}
      /\ {writer_queue'[i] : i \in DOMAIN writer_queue'}
           \subseteq {writer_queue[i] : i \in DOMAIN writer_queue}
      /\ \A i \in DOMAIN writer_queue' : writer_held' < writer_queue'[i]
  BY <1>1, Shortened
<1>3. writer_held < writer_held' /\ writer_held' <= sent
  BY <1>1, <1>2
<1>4. \A i \in DOMAIN writer_queue' : writer_queue'[i] <= sent
  BY <1>1, <1>2
<1>5. writer_held' # 0 /\ last <= writer_held'
  BY <1>1, <1>2, <1>3
<1>6. last' \in Nat /\ last' <= writer_held'
  BY <1>1, <1>2, <1>5
<1> QED BY <1>1, <1>2, <1>3, <1>4, <1>5, <1>6 DEF InHand, Rising

\* The frame in hand is shown or not.
LEMMA StillInHand ==
    ASSUME InHand, UNCHANGED <<writer_queue, sent, writer_held>>, last' \in {last, writer_held},
           at' \in {"message", "match"} => writer_held # 0
    PROVE  InHand'
BY DEF InHand, Rising

-----------------------------------------------------------------------------
LEMMA VideoStarting == Video!Init => VideoInvariant
<1> SUFFICES ASSUME Video!Init PROVE VideoInvariant
  OBVIOUS
<1>1. /\ sent = 0 /\ writer_queue = <<>> /\ at = "top" /\ writer_held = 0
      /\ last = 0 /\ first = 0 /\ owed = Unit /\ work = <<>> /\ dropped = 0
      /\ segments = <<>> /\ pruned = 0
  BY DEF Video!Init
<1>2. InHand
  BY <1>1 DEF InHand, Rising
<1>3. Video!SavesOf(<<>>) = 0 /\ <<>> \in Seq(Nat \X Nat)
  <2>1. <<>> \in Seq(Nat \X Nat)
    OBVIOUS
  <2>2. Counts(<<>>) = <<>>
    <3>1. Counts(<<>>) \in Seq(Int) /\ Len(Counts(<<>>)) = Len(<<>>)
      BY <2>1, CountsAre
    <3> QED BY <3>1
  <2> QED BY <2>1, <2>2, CountsAre, TotalEmpty
<1>4. AllSaves = 0
  BY <1>1, <1>3, TotalEmpty DEF AllSaves
<1>5. Unit * 0 = 0 /\ Fps * (0 - 0) = 0
  BY VideoNumbers
<1>6. Accounts
  BY <1>1, <1>3, <1>4, <1>5, VideoNumbers, TotalEmpty DEF Accounts
<1> QED BY <1>2, <1>6 DEF VideoInvariant

LEMMA VideoKeeping == VideoInvariant /\ [Video!Next]_(Video!vars) => VideoInvariant'
<1> SUFFICES ASSUME InHand, Accounts, [Video!Next]_(Video!vars) PROVE InHand' /\ Accounts'
  BY DEF VideoInvariant
<1> USE DEF Video!videoVars, Video!fileVars, Video!feedVars
<1>1. CASE Video!Frame
  <2>1. Accounts'
    BY <1>1, AccountsStay DEF Video!Frame
  <2> QED BY <1>1, <2>1, FrameWaits
<1>2. CASE Video!Stop \/ Video!Reid \/ Video!Silence \/ Video!StopWorker \/ Video!JoinWorker
  <2>1. /\ UNCHANGED <<writer_queue, sent, writer_held, last>>
        /\ UNCHANGED <<last, first, owed, work, dropped, segments, pruned>>
        /\ at' \in {at, "early", "top", "end"}
    BY <1>2 DEF Video!Stop, Video!Reid, Video!Silence, Video!StopWorker, Video!JoinWorker,
       Video!ShowNothing
  <2>2. at' \in {"message", "match"} => writer_held # 0
    BY <2>1 DEF InHand
  <2> QED BY <2>1, <2>2, StillInHand, AccountsStay
<1>3. CASE Video!Top
  <2>1. /\ UNCHANGED <<writer_queue, sent, writer_held, last>>
        /\ UNCHANGED <<last, first, owed, work, dropped, segments, pruned>>
        /\ at' = IF stopped THEN "stop" ELSE IF writer_held = 0 THEN "first" ELSE "message"
    BY <1>3 DEF Video!Top, Video!ShowNothing
  <2>2. at' \in {"message", "match"} => writer_held # 0
    BY <2>1
  <2> QED BY <2>1, <2>2, StillInHand, AccountsStay
<1>4. CASE Video!TakeFirst \/ Video!SkipFrame
  <2>1. /\ writer_queue # <<>>
        /\ writer_held' = Head(writer_queue) /\ writer_queue' = Tail(writer_queue)
        /\ UNCHANGED <<sent, last, first, owed, work, dropped, segments, pruned>>
    BY <1>4 DEF Video!TakeFirst, Video!SkipFrame, Video!ShowNothing
  <2> QED BY <2>1, NextTaken, AccountsStay
<1>5. CASE Video!ShowEarly
  <2>1. UNCHANGED <<sent, segments, pruned>>
    BY <1>5 DEF Video!ShowEarly
  <2>2. CASE Len(writer_queue) > BufferLength
    <3>1. /\ writer_held' = Head(writer_queue) /\ writer_queue' = Tail(writer_queue)
          /\ Video!Show(writer_held')
      BY <1>5, <2>2 DEF Video!ShowEarly
    <3>2. writer_queue # <<>>
      BY <2>2, VideoAssumption
    <3>3. last' = writer_held'
      BY <3>1 DEF Video!Show
    <3>4. InHand' /\ writer_held' \in Nat /\ writer_held' # 0 /\ last <= writer_held'
      BY <2>1, <3>1, <3>2, <3>3, NextTaken
    <3>5. PICK f \in Nat : f = writer_held'
      BY <3>4
    <3>6. f # 0 /\ last <= f /\ Video!Show(f)
      BY <3>1, <3>4, <3>5
    <3>7. Accounts'
      BY <2>1, <3>6, Shown
    <3> QED BY <3>4, <3>7
  <2>3. CASE ~(Len(writer_queue) > BufferLength)
    <3>1. /\ UNCHANGED <<writer_held, writer_queue, last, first, owed, work, dropped>>
          /\ at' = "top"
      BY <1>5, <2>3 DEF Video!ShowEarly, Video!ShowNothing
    <3> QED BY <2>1, <3>1, StillInHand, AccountsStay
  <2> QED BY <2>2, <2>3
<1>6. ASSUME at \in {"message", "match"}, Video!Show(writer_held), at' = "top",
             UNCHANGED <<sent, writer_queue, writer_held, segments, pruned>>
      PROVE  InHand' /\ Accounts'
  <2>1. writer_held \in Nat /\ writer_held # 0 /\ last <= writer_held
    BY <1>6 DEF InHand
  <2>2. Accounts' /\ last' = writer_held
    BY <1>6, <2>1, Shown
  <2> QED BY <1>6, <2>2, StillInHand
<1>7. CASE Video!TakeMessage
  <2> DEFINE old == {i \in DOMAIN messages : messages[i] < writer_held}
             later == SubSeq(messages, Video!Cardinality(old) + 1, Len(messages))
  <2>1. /\ at = "message" /\ UNCHANGED <<sent, writer_queue, writer_held, segments, pruned>>
        /\ IF later = <<>> THEN at' = "top" /\ Video!Show(writer_held)
           ELSE at' = "match" /\ UNCHANGED <<last, first, owed, work, dropped>>
    BY <1>7 DEF Video!TakeMessage, Video!ShowNothing
  <2> HIDE DEF later
  <2>2. writer_held # 0
    BY <2>1 DEF InHand
  <2> QED BY <1>6, <2>1, <2>2, StillInHand, AccountsStay
<1>8. CASE Video!ShowMatch
  BY <1>6, <1>8 DEF Video!ShowMatch
<1>9. CASE Video!Write
  <2>1. UNCHANGED <<writer_queue, sent, writer_held, last, at>>
    BY <1>9 DEF Video!Write
  <2>2. at' \in {"message", "match"} => writer_held # 0
    BY <2>1 DEF InHand
  <2> QED BY <1>9, <2>1, <2>2, StillInHand, Written
<1>10. CASE Video!EndWorker \/ UNCHANGED Video!vars
  <2>1. /\ UNCHANGED <<writer_queue, sent, writer_held, last, at>>
        /\ UNCHANGED <<last, first, owed, work, dropped, segments, pruned>>
    BY <1>10 DEF Video!EndWorker, Video!vars
  <2>2. at' \in {"message", "match"} => writer_held # 0
    BY <2>1 DEF InHand
  <2> QED BY <2>1, <2>2, StillInHand, AccountsStay
<1> QED BY <1>1, <1>2, <1>3, <1>4, <1>5, <1>7, <1>8, <1>9, <1>10
    DEF Video!Next, Video!Writer, Video!Worker

\* The video runs as fast as the camera, whichever frames were lost or shown twice, and
\* however the segments were cut and pruned.
THEOREM VideoAlwaysKeepsTime == PipelineSpec => []VideoKeepsTime
<1>1. PipelineInit => VideoInvariant
  BY VideoStarting DEF PipelineInit
<1>2. [PipelineNext]_pipelineVars => [Video!Next]_(Video!vars)
  BY DEF PipelineNext, IngestorPart, VideoPart, BrokerPart, pipelineVars, writerVars,
     Video!vars
<1>3. VideoInvariant /\ [PipelineNext]_pipelineVars => VideoInvariant'
  BY <1>2, VideoKeeping
<1>4. VideoInvariant => VideoKeepsTime
  <2> SUFFICES ASSUME VideoInvariant, first # 0
               PROVE  Unit * AllSaves + owed = Unit + Fps * (last - first) /\ owed \in 0..Unit - 1
    BY DEF VideoKeepsTime, Video!VideoKeepsTime, AllSaves
  <2>1. /\ Unit * AllSaves + owed = Unit + Fps * (last - first)
        /\ owed \in Nat /\ owed < Unit
    BY DEF VideoInvariant, Accounts
  <2> QED BY <2>1, VideoNumbers
<1> QED BY <1>1, <1>3, <1>4, PTL DEF PipelineSpec
=============================================================================
