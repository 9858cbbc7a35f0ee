----------------------------- MODULE MCPipeline -----------------------------
(***************************************************************************)
(* The threads through which frames pass: the ingestor's, the writer of    *)
(* the annotated video, and a publisher and a consumer with RabbitMQ       *)
(* between them.  The three touch no variable of each other: a behaviour   *)
(* is one of one part, and the variables of the others stay as they are.   *)
(***************************************************************************)
EXTENDS FramePipeline

CONSTANTS RabbitTries, RabbitCapacity, MaxRuns,              \* of Broker
          QueueMax, WriterMax, BufferLength, Fps, Unit,      \* of Writers
          SegmentMax, RetainMax, MaxFrame

ASSUME VideoAssumption ==
    /\ {QueueMax, WriterMax, Unit, SegmentMax, RetainMax} \subseteq Nat \ {0}
    /\ {BufferLength, Fps, MaxFrame} \subseteq Nat

VARIABLES part,
          sent, reidSent, running, writer_queue, messages, at, writer_held, message, last, first,
          owed, stopped, work, dropped, segments, pruned, writing,
          own, clears, up, bound, stored, open, pub, told, tries, con, con_process, buffer, owner,
          run, stale, cleared, orderly, too_late

\* The writer of one camera's video.
Video == INSTANCE Writers WITH queue <- writer_queue, held <- writer_held

\* A few runs of a publisher and a consumer.
Rabbit == INSTANCE Broker WITH
    Tries <- RabbitTries, Capacity <- RabbitCapacity,
    process <- con_process, late <- too_late

writerVars == <<sent, reidSent, running, writer_queue, messages, at, writer_held, message, last,
                first, owed, stopped, work, dropped, segments, pruned, writing>>
rabbitVars == <<own, clears, up, bound, stored, open, pub, told, tries, con, con_process, buffer,
                owner, run, stale, cleared, orderly, too_late>>
pipelineVars == <<part, vars, writerVars, rabbitVars>>

PipelineInit ==
    /\ part \in {"ingestor", "video", "broker"}
    /\ Init /\ Video!Init /\ Rabbit!Init
    /\ part # "broker" => own /\ clears

IngestorPart ==
    part = "ingestor" /\ Next /\ UNCHANGED <<part, writerVars, rabbitVars>>
VideoPart ==
    part = "video" /\ Video!Next /\ UNCHANGED <<part, vars, rabbitVars>>
BrokerPart ==
    part = "broker" /\ Rabbit!Next /\ UNCHANGED <<part, vars, writerVars>>

\* The fairness of FramePipeline, Writers and Broker, for the part whose turn it is.
PipelineFairness ==
    /\ \A t \in Threads : WF_vars(part = "ingestor" /\ Begin(t))
    /\ WF_vars(part = "ingestor" /\ CaptureEnds)
    /\ WF_vars(part = "ingestor" /\ FramesStep)
    /\ WF_vars(part = "ingestor" /\ IngestorStep)
    /\ WF_vars(part = "ingestor" /\ OutputStep)
    /\ WF_vars(part = "ingestor" /\ WorkerStep)
    /\ WF_writerVars(part = "video" /\ Video!Writer)
    /\ WF_writerVars(part = "video" /\ Video!Worker)
    /\ WF_rabbitVars(part = "broker" /\ Rabbit!Publisher)
    /\ WF_rabbitVars(part = "broker" /\ Rabbit!Consumer)
    /\ WF_rabbitVars(part = "broker" /\ Rabbit!Owner)

PipelineNext == IngestorPart \/ VideoPart \/ BrokerPart
PipelineSpec == PipelineInit /\ [][PipelineNext]_pipelineVars /\ PipelineFairness

-----------------------------------------------------------------------------
(* The length of the annotated video; see Writers. *)
VideoKeepsTime == Video!VideoKeepsTime

(* Messages of another run; see Broker. *)
NothingStale == Rabbit!NothingStale

(* The ends of a run, of the writers of the video, and of publisher and consumer. *)
ThreadsEnd == RunEnds /\ Video!WriterEnds /\ Rabbit!StopEnds
=============================================================================
