---------------------------- MODULE FramePipeline ----------------------------
(***************************************************************************)
(* The threads of the ingestor and the bounded queues between them:        *)
(* FramesThread numbers batches, Ingestor.run has their frames analysed,   *)
(* OutputThread hands them to its workers, of which FeatureExtractorThread *)
(* is modelled.  The threads of the sources (see Capture) are one thread   *)
(* here, capture.                                                          *)
(*                                                                         *)
(* A queue is named by the thread that reads it.  A thread is alive from   *)
(* start() on; it has begun when run() has set its process flag, which     *)
(* stop() clears.                                                          *)
(***************************************************************************)
EXTENDS Naturals, FiniteSets, SequencesExt

CONSTANTS FramesMax,        \* capacities of the three queues
          OutputMax,
          WorkerMax,
          BackpressureMax,  \* the worker's queue length above which the ingestor waits
          Patience,         \* empty gets in silence after which no_frame_timeout has passed
          MaxBatches,       \* bound: batches captured
          MaxFaults         \* bound: threads that die of an exception

Queues == {"frames", "output", "worker"}
Writers == {"frames", "ingestor", "output"}
Threads == Queues \cup {"ingestor", "capture"}

ASSUME PipelineAssumption ==
    /\ {FramesMax, OutputMax, WorkerMax, BackpressureMax} \subseteq Nat \ {0}
    /\ {Patience, MaxBatches, MaxFaults} \subseteq Nat

VARIABLES sources,    \* whether a source is connected, none is, or all files ended
          alive,      \* threads that are alive
          begun,      \* threads whose run() has set the process flag
          process,    \* threads with the flag set
          late,       \* threads told to stop before they had begun
          died,       \* threads ended by an exception
          pc,         \* where frames, ingestor and output are
          held,       \* the batch in the hands of each of them
          queue,      \* the bounded queues
          id,         \* number of the last batch
          recorded,   \* whether the Run row was written
          empties,    \* empty gets since the last batch
          tracked     \* number of the last batch the worker took

threadVars == <<alive, begun, process, late, died>>
ingestVars == <<recorded, empties>>
flowVars == <<pc, held, queue>>
vars == <<sources, threadVars, ingestVars, flowVars, id, tracked>>

Batch == 1..MaxBatches
NoBatch == 0
PCs == [frames : {"look", "put", "evict"},
        ingestor : {"check", "get", "empty", "detect", "put", "evict", "wait", "stop", "join"},
        output : {"get", "put", "evict", "join"}]
Capacity == [frames |-> FramesMax, output |-> OutputMax, worker |-> WorkerMax]

TypeOK ==
    /\ sources \in {"connected", "silent", "finished"}
    /\ process \subseteq begun /\ begun \subseteq Threads
    /\ alive \subseteq Threads /\ late \subseteq Threads /\ died \subseteq Threads
    /\ pc \in PCs
    /\ held \in [Writers -> Batch \cup {NoBatch}]
    /\ queue \in [Queues -> Seq(Batch)]
    /\ \A q \in Queues : Len(queue[q]) <= Capacity[q]
    /\ id \in 0..MaxBatches
    /\ recorded \in BOOLEAN /\ empties \in 0..Patience
    /\ tracked \in 0..MaxBatches

\* The listener has started the ingestor; its constructor has started the sources.
Init ==
    /\ sources = "connected"
    /\ alive = {"ingestor", "capture"}
    /\ begun = {"capture"} /\ process = {"capture"} /\ late = {} /\ died = {}
    /\ pc = [frames |-> "look", ingestor |-> "check", output |-> "get"]
    /\ held = [t \in Writers |-> NoBatch]
    /\ queue = [q \in Queues |-> <<>>]
    /\ id = 0
    /\ recorded = FALSE /\ empties = 0
    /\ tracked = 0

Goto(t, where) == pc' = [pc EXCEPT ![t] = where]

-----------------------------------------------------------------------------
\* Thread life.  run() sets the flag with its first statement, so that a stop()
\* which came before is forgotten; the ingestor and the output thread start others.
Starts(t) ==
    CASE t = "ingestor" -> {"output", "frames"} [] t = "output" -> {"worker"} [] OTHER -> {}

Begin(t) ==
    /\ t \in alive \ begun
    /\ begun' = begun \cup {t}
    /\ process' = process \cup {t}
    /\ alive' = alive \cup Starts(t)
    /\ UNCHANGED <<sources, late, died, ingestVars, flowVars, id, tracked>>

Stop(T) ==
    /\ process' = process \ T
    /\ late' = late \cup (T \ begun)
    /\ UNCHANGED <<alive, begun, died>>

End(t) ==
    /\ alive' = alive \ {t}
    /\ process' = process \ {t}
    /\ UNCHANGED <<begun, late, died>>

\* An exception that a thread's loop does not catch.
Die(t) ==
    /\ t \in process \cap Queues
    /\ Cardinality(died) < MaxFaults
    /\ alive' = alive \ {t}
    /\ process' = process \ {t}
    /\ died' = died \cup {t}
    /\ UNCHANGED <<sources, begun, late, ingestVars, flowVars, id, tracked>>

-----------------------------------------------------------------------------
\* The sources are lost and found again, or are files that come to their end.
Capture ==
    /\ "capture" \in alive
    /\ UNCHANGED <<ingestVars, flowVars, id, tracked>>

SourcesChange ==
    /\ Capture
    /\ sources' \in {"connected", "silent"} \ {sources}
    /\ UNCHANGED threadVars

FilesEnd ==
    /\ Capture
    /\ sources = "silent" /\ sources' = "finished"
    /\ End("capture")

CaptureEnds ==
    /\ Capture
    /\ "capture" \notin process
    /\ End("capture")
    /\ UNCHANGED sources

-----------------------------------------------------------------------------
\* bounded_put of the batch t holds: put_nowait; when the queue is full, one
\* get_nowait and the put again.  In between the reader may have taken batches; if
\* it took them all the new one is dropped.  No queue has a second writer.
Hand(t) ==
    /\ t \in alive
    /\ UNCHANGED <<sources, threadVars, ingestVars, id, tracked>>

LetGo(t, where) ==
    /\ held' = [held EXCEPT ![t] = NoBatch]
    /\ Goto(t, where)

PutNowait(t, q, where) ==
    /\ Hand(t) /\ pc[t] = "put"
    /\ IF Len(queue[q]) < Capacity[q]
       THEN /\ queue' = [queue EXCEPT ![q] = Append(@, held[t])]
            /\ LetGo(t, where)
       ELSE Goto(t, "evict") /\ UNCHANGED <<queue, held>>

\* Slip: the new batch takes the place of the one evicted.
EvictInPlace(t, q, where) ==
    /\ Hand(t) /\ pc[t] = "evict"
    /\ queue' = [queue EXCEPT ![q] = IF @ = <<>> THEN @ ELSE <<held[t]>> \o Tail(@)]
    /\ LetGo(t, where)

Evict(t, q, where) ==
    /\ Hand(t) /\ pc[t] = "evict"
    /\ queue' = [queue EXCEPT ![q] = IF @ = <<>> THEN @ ELSE Append(Tail(@), held[t])]
    /\ LetGo(t, where)

BoundedPut(t, q, where) == PutNowait(t, q, where) \/ Evict(t, q, where)

-----------------------------------------------------------------------------
\* FramesThread: a batch whenever a source is connected.
Frames ==
    /\ "frames" \in alive \cap begun /\ pc.frames = "look"
    /\ UNCHANGED <<sources, ingestVars, queue, tracked>>

Collect ==
    /\ Frames
    /\ "frames" \in process
    /\ sources = "connected"
    /\ id < MaxBatches
    /\ id' = id + 1
    /\ held' = [held EXCEPT !.frames = id']
    /\ Goto("frames", "put")
    /\ UNCHANGED threadVars

FramesEnds ==
    /\ Frames
    /\ "frames" \notin process
    /\ End("frames")
    /\ UNCHANGED <<id, pc, held>>

-----------------------------------------------------------------------------
\* Ingestor.run.  The loop ends when stop() clears the flag, or by itself; what it
\* reports then is WorkerFails and WorkerCompletes of CommandListener.
Ingestor(at) ==
    /\ "ingestor" \in alive \cap begun /\ pc.ingestor = at
    /\ UNCHANGED <<sources, id, tracked>>

Quit ==
    /\ process' = process \ {"ingestor"}
    /\ Goto("ingestor", "check")
    /\ UNCHANGED <<alive, begun, late, died>>

\* The listener's module.stop().
StopIngestor ==
    /\ "ingestor" \in alive
    /\ "ingestor" \in process \cup (Threads \ begun)
    /\ Stop({"ingestor"})
    /\ UNCHANGED <<sources, ingestVars, flowVars, id, tracked>>

\* The top of the loop, with get_dead_thread_names of the two critical threads.
Check ==
    /\ Ingestor("check")
    /\ IF "ingestor" \notin process
       THEN Goto("ingestor", "stop") /\ UNCHANGED threadVars
       ELSE IF {"frames", "output"} \subseteq alive
       THEN Goto("ingestor", "get") /\ UNCHANGED threadVars
       ELSE Quit
    /\ UNCHANGED <<ingestVars, held, queue>>

\* A batch arrives.  The Run row of the first one may fail to be written, and the
\* ingestor ends.
Fetch ==
    /\ Ingestor("get")
    /\ queue.frames # <<>>
    /\ queue' = [queue EXCEPT !.frames = Tail(@)]
    /\ empties' = 0
    /\ \/ ~recorded /\ Quit /\ UNCHANGED <<recorded, held>>
       \/ /\ recorded' = TRUE
          /\ held' = [held EXCEPT !.ingestor = Head(queue.frames)]
          /\ Goto("ingestor", "detect")
          /\ UNCHANGED threadVars

\* _infer_with_timeout: the detector, in a thread of its own, answers, fails or lets its
\* time pass (and is not asked again): the batch goes on, with detections or without.
Detect ==
    /\ Ingestor("detect")
    /\ Goto("ingestor", "put")
    /\ UNCHANGED <<threadVars, ingestVars, held, queue>>

FindEmpty ==
    /\ Ingestor("get")
    /\ queue.frames = <<>>
    /\ Goto("ingestor", "empty")
    /\ UNCHANGED <<threadVars, ingestVars, held, queue>>

\* The get timed out: the files are finished; or nothing came for no_frame_timeout
\* (which other steps of the loop may have used up); or the loop goes on.  Connected
\* sources would give more frames than MaxBatches: they do not use up the patience.
Empty ==
    /\ Ingestor("empty")
    /\ \/ sources = "finished" /\ Quit /\ UNCHANGED empties
       \/ sources # "finished" /\ Quit /\ UNCHANGED empties
       \/ /\ \/ sources = "connected" /\ UNCHANGED empties
             \/ sources = "silent" /\ empties < Patience /\ empties' = empties + 1
          /\ Goto("ingestor", "check")
          /\ UNCHANGED threadVars
    /\ UNCHANGED <<recorded, held, queue>>

\* _wait_for_backpressure looks at the workers' queues.
Wait ==
    /\ Ingestor("wait")
    /\ Len(queue.worker) <= BackpressureMax \/ "ingestor" \notin process
    /\ Goto("ingestor", "check")
    /\ UNCHANGED <<threadVars, ingestVars, held, queue>>

\* Slip: the output thread is not told.
StopSourcesOnly ==
    /\ Ingestor("stop")
    /\ Stop({"frames", "capture"})
    /\ Goto("ingestor", "join")
    /\ UNCHANGED <<ingestVars, held, queue>>

StopAll ==
    /\ Ingestor("stop")
    /\ Stop({"frames", "capture", "output"})
    /\ Goto("ingestor", "join")
    /\ UNCHANGED <<ingestVars, held, queue>>

JoinAll ==
    /\ Ingestor("join")
    /\ alive \cap {"frames", "capture", "output"} = {}
    /\ End("ingestor")
    /\ UNCHANGED <<ingestVars, flowVars>>

-----------------------------------------------------------------------------
\* OutputThread hands on every batch; its workers end after it has left its loop.
Output(at) ==
    /\ "output" \in alive \cap begun /\ pc.output = at
    /\ UNCHANGED <<sources, ingestVars, id, tracked>>

Forward ==
    /\ Output("get")
    /\ "output" \in process
    /\ queue.output # <<>>
    /\ held' = [held EXCEPT !.output = Head(queue.output)]
    /\ queue' = [queue EXCEPT !.output = Tail(@)]
    /\ Goto("output", "put")
    /\ UNCHANGED threadVars

StopWorkers ==
    /\ Output("get")
    /\ "output" \notin process
    /\ Stop({"worker"})
    /\ Goto("output", "join")
    /\ UNCHANGED <<held, queue>>

JoinWorkers ==
    /\ Output("join")
    /\ "worker" \notin alive
    /\ End("output")
    /\ UNCHANGED flowVars

\* FeatureExtractorThread gives the tracks of the batch on.
Track ==
    /\ "worker" \in process
    /\ queue.worker # <<>>
    /\ tracked' = Head(queue.worker)
    /\ queue' = [queue EXCEPT !.worker = Tail(@)]
    /\ UNCHANGED <<sources, threadVars, ingestVars, pc, held, id>>

WorkerEnds ==
    /\ "worker" \in alive \cap begun
    /\ "worker" \notin process
    /\ End("worker")
    /\ UNCHANGED <<sources, ingestVars, flowVars, id, tracked>>

-----------------------------------------------------------------------------
CaptureStep == SourcesChange \/ FilesEnd \/ CaptureEnds
FramesStep == Collect \/ BoundedPut("frames", "frames", "look") \/ FramesEnds
IngestorStep ==
    \/ Check \/ Fetch \/ Detect \/ FindEmpty \/ Empty \/ Wait \/ StopAll \/ JoinAll
    \/ BoundedPut("ingestor", "output", "wait")
OutputStep ==
    Forward \/ StopWorkers \/ JoinWorkers \/ BoundedPut("output", "worker", "get")
WorkerStep == Track \/ WorkerEnds

Next ==
    \/ \E t \in Threads : Begin(t) \/ Die(t)
    \/ StopIngestor
    \/ CaptureStep \/ FramesStep \/ IngestorStep \/ OutputStep \/ WorkerStep

\* Every thread that is started runs and goes on stepping: each wait in its loop
\* has a timeout.  The sources are not forced to change.
Fairness ==
    /\ \A t \in Threads : WF_vars(Begin(t))
    /\ WF_vars(CaptureEnds) /\ WF_vars(FramesStep) /\ WF_vars(IngestorStep)
    /\ WF_vars(OutputStep) /\ WF_vars(WorkerStep)

Spec == Init /\ [][Next]_vars
FairSpec == Spec /\ Fairness

-----------------------------------------------------------------------------
\* Batches reach the worker in the order they were captured, each at most once,
\* whatever was evicted on the way: the trackers behind it are fed in time order.
Fifo == INSTANCE LossyFifo WITH newest <- id, received <- tracked
InOrder == Fifo!Spec

\* The ingestor does not run on over a failure.  docs/security.md:198-201: the death
\* of a critical thread ends it; docs/security.md:232-234: so do sources that stay
\* silent, and files that are finished.  (A dead worker can hold the loop in its wait.)
FailureEndsTheRun ==
    /\ (died \cap {"frames", "output"} # {}) ~> ("ingestor" \notin process)
    /\ <>[](sources # "connected") =>
           <>("ingestor" \in begun \ process \/ "worker" \in died)

\* Once the ingestor's loop is told to stop, or stops by itself, all its threads
\* end, whatever the queues hold: unless one died before it could pass the stop
\* on, or was told to stop before it had begun.
StopEndsEveryThread ==
    ("ingestor" \in begun \ process) ~> (alive = {} \/ died # {} \/ late # {})

\* A run that fails or is stopped ends, and leaves no thread.
RunEnds == FailureEndsTheRun /\ StopEndsEveryThread
=============================================================================
