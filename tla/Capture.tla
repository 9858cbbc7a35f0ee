------------------------------- MODULE Capture -------------------------------
(***************************************************************************)
(* The capturing half of the ingestor (ingestor/input_media.py): a thread  *)
(* for each source, a live Camera or a VideoFile that holds out one frame; *)
(* FramesThread, which collects the frames of all of them into numbered    *)
(* batches; and the end of Ingestor.run that reads its queue and decides   *)
(* that the files are finished.                                            *)
(*                                                                         *)
(* None of these threads is stopped here; see FramePipeline.               *)
(***************************************************************************)
EXTENDS Naturals, Sequences

CONSTANTS Sources,      \* the sources, a sequence in the order of MultiCapture
          Length,       \* frames of a file
          QueueMax,     \* capacity of FramesThread's queue
          MaxBatches    \* bound: batches captured

SourceSet == {Sources[i] : i \in DOMAIN Sources}

ASSUME CaptureAssumption ==
    /\ Sources \in Seq(SourceSet) /\ Sources # <<>>
    /\ \A i, j \in DOMAIN Sources : Sources[i] = Sources[j] => i = j
    /\ {Length, QueueMax} \subseteq Nat \ {0}
    /\ MaxBatches \in Nat

VARIABLES kind,       \* of each source: a live camera or a video file
          connected,  \* connection_status of its capture
          slot,       \* the frame its thread holds out, 0 for the empty placeholder
          pos,        \* frames read from a file
          alive,      \* sources whose thread is alive
          turn,       \* get_frames: index of the source; past the last: the batch is put
          half,       \* get_frames: whether the source's first reading is made
          status,     \* get_frames: whether a source is connected
          got,        \* get_frames: the frames collected
          full,       \* bounded_put: whether the queue was found full
          id,         \* number of the last batch
          offered,    \* last frame of a file that was put in a batch (history)
          depth,      \* batches in FramesThread's queue
          pc,         \* where the ingestor is in its loop
          recorded,   \* whether the Run row was written
          reported    \* what the ingestor reported of itself

sourceVars == <<kind, connected, slot, pos, alive>>
gatherVars == <<turn, half, status, got, id, offered>>
ingestVars == <<pc, recorded, reported>>
vars == <<sourceVars, gatherVars, full, depth, ingestVars>>

Nothing == [s \in SourceSet |-> 0]

TypeOK ==
    /\ kind \in [SourceSet -> {"camera", "file"}]
    /\ connected \in [SourceSet -> BOOLEAN]
    /\ slot \in [SourceSet -> 0..Length] /\ pos \in [SourceSet -> 0..Length]
    /\ alive \subseteq SourceSet
    /\ turn \in 1..Len(Sources) + 1 /\ {half, status, full} \subseteq BOOLEAN
    /\ got \in [SourceSet -> 0..Length] /\ offered \in [SourceSet -> 0..Length]
    /\ id \in 0..MaxBatches
    /\ depth \in 0..QueueMax
    /\ pc \in {"get", "empty", "over"}
    /\ recorded \in BOOLEAN
    /\ reported \in {"nothing", "error", "stopped"}

\* MultiCapture has opened its sources, one of them at least, and started their
\* threads; the ingestor has started FramesThread.
Init ==
    /\ kind \in [SourceSet -> {"camera", "file"}]
    /\ connected \in [SourceSet -> BOOLEAN] /\ (\E s \in SourceSet : connected[s])
    /\ slot = Nothing /\ pos = Nothing
    /\ alive = SourceSet
    /\ turn = 1 /\ half = FALSE /\ status = FALSE /\ full = FALSE
    /\ got = Nothing /\ offered = Nothing
    /\ id = 0
    /\ depth = 0
    /\ pc = "get" /\ recorded = FALSE /\ reported = "nothing"

-----------------------------------------------------------------------------
\* VideoFile: a frame is read when the last one was taken.  A read that fails
\* (thirty times over) disconnects the capture; then the thread ends.
File(s) ==
    /\ s \in alive /\ kind[s] = "file"
    /\ slot[s] = 0
    /\ UNCHANGED <<kind, gatherVars, full, depth, ingestVars>>

\* Slip: a frame that is still pending is not waited for.
ReadFrameAnyway(s) ==
    /\ s \in alive /\ kind[s] = "file" /\ connected[s]
    /\ pos[s] < Length
    /\ pos' = [pos EXCEPT ![s] = @ + 1]
    /\ slot' = [slot EXCEPT ![s] = pos'[s]]
    /\ UNCHANGED <<kind, connected, alive, gatherVars, full, depth, ingestVars>>

ReadFrame(s) ==
    /\ File(s) /\ connected[s]
    /\ pos[s] < Length
    /\ pos' = [pos EXCEPT ![s] = @ + 1]
    /\ slot' = [slot EXCEPT ![s] = pos'[s]]
    /\ UNCHANGED <<connected, alive>>

ReadPastEnd(s) ==
    /\ File(s) /\ connected[s]
    /\ pos[s] = Length
    /\ connected' = [connected EXCEPT ![s] = FALSE]
    /\ UNCHANGED <<slot, pos, alive>>

FileOver(s) ==
    /\ File(s) /\ ~connected[s]
    /\ alive' = alive \ {s}
    /\ UNCHANGED <<connected, slot, pos>>

\* Camera: each read replaces the frame held out, which is kept when it is taken;
\* a read that fails leaves the placeholder and disconnects, until a reconnect.
Camera(s) ==
    /\ s \in alive /\ kind[s] = "camera"
    /\ UNCHANGED <<kind, pos, alive, gatherVars, full, depth, ingestVars>>

CameraReads(s) ==
    /\ Camera(s) /\ connected[s]
    /\ slot' = [slot EXCEPT ![s] = 1]
    /\ UNCHANGED connected

CameraFails(s) ==
    /\ Camera(s) /\ connected[s]
    /\ slot' = [slot EXCEPT ![s] = 0]
    /\ connected' = [connected EXCEPT ![s] = FALSE]

CameraReconnects(s) ==
    /\ Camera(s) /\ ~connected[s]
    /\ connected' = [connected EXCEPT ![s] = TRUE]
    /\ UNCHANGED slot

-----------------------------------------------------------------------------
\* get_frames asks every source for its frame and for its connection, a file in
\* this order and a camera in the other.  A file's frame gives way to the
\* placeholder as it is taken.
TakeFrame(s) ==
    /\ got' = [got EXCEPT ![s] = slot[s]]
    /\ slot' = IF kind[s] = "file" THEN [slot EXCEPT ![s] = 0] ELSE slot
    /\ UNCHANGED status

LookStatus(s) ==
    /\ status' = (status \/ connected[s])
    /\ UNCHANGED <<got, slot>>

GetFrame ==
    /\ id < MaxBatches
    /\ turn \in DOMAIN Sources
    /\ LET s == Sources[turn]
       IN  IF half = (kind[s] = "file") THEN LookStatus(s) ELSE TakeFrame(s)
    /\ half' = ~half
    /\ turn' = IF half THEN turn + 1 ELSE turn
    /\ UNCHANGED <<kind, connected, pos, alive, id, offered, full, depth, ingestVars>>

Collected == turn = Len(Sources) + 1
NextRound ==
    /\ turn' = 1 /\ half' = FALSE /\ status' = FALSE /\ got' = Nothing
    /\ full' = FALSE
    /\ UNCHANGED <<sourceVars, ingestVars>>

\* The frames are numbered as a batch if a source was connected, and thrown away
\* otherwise.
Number ==
    /\ id' = id + 1
    /\ offered' = [s \in SourceSet |->
           IF kind[s] = "file" /\ got[s] # 0 THEN got[s] ELSE offered[s]]

\* bounded_put: put_nowait; when the queue is full, one get_nowait and the put
\* again, unless the ingestor emptied the queue in between.
PutNowait ==
    /\ Collected /\ status /\ ~full
    /\ IF depth < QueueMax
       THEN depth' = depth + 1 /\ Number /\ NextRound
       ELSE full' = TRUE /\ UNCHANGED <<sourceVars, gatherVars, depth, ingestVars>>

Evict ==
    /\ full
    /\ UNCHANGED depth
    /\ Number /\ NextRound

ThrowAway ==
    /\ Collected /\ ~status
    /\ NextRound
    /\ UNCHANGED <<id, offered, depth>>

-----------------------------------------------------------------------------
\* Ingestor.run: the first batch writes the Run row, which may fail.
Ingestor == UNCHANGED <<sourceVars, gatherVars, full>>

Fetch ==
    /\ Ingestor /\ pc = "get"
    /\ depth > 0
    /\ depth' = depth - 1
    /\ \/ recorded' = TRUE /\ UNCHANGED <<pc, reported>>
       \/ ~recorded /\ pc' = "over" /\ reported' = "error" /\ UNCHANGED recorded

FindEmpty ==
    /\ Ingestor /\ pc = "get"
    /\ depth = 0
    /\ pc' = "empty"
    /\ UNCHANGED <<depth, recorded, reported>>

\* Slip: the files that are left are not waited for.
AnyFileFinished == \E s \in SourceSet : kind[s] = "file" /\ s \notin alive

AllFileSourcesFinished == \A s \in SourceSet : kind[s] = "file" /\ s \notin alive

\* Some time after the get found nothing: the run is complete; or nothing came for
\* no_frame_timeout; or the loop goes on.
Empty ==
    /\ Ingestor /\ pc = "empty"
    /\ IF AllFileSourcesFinished THEN pc' = "over" /\ reported' = "stopped"
       ELSE \/ pc' = "over" /\ reported' = "error"
            \/ pc' = "get" /\ UNCHANGED reported
    /\ UNCHANGED <<depth, recorded>>

-----------------------------------------------------------------------------
SourceStep(s) ==
    \/ ReadFrame(s) \/ ReadPastEnd(s) \/ FileOver(s)
    \/ CameraReads(s) \/ CameraFails(s) \/ CameraReconnects(s)

Next ==
    \/ \E s \in SourceSet : SourceStep(s)
    \/ GetFrame \/ PutNowait \/ Evict \/ ThrowAway
    \/ Fetch \/ FindEmpty \/ Empty

Spec == Init /\ [][Next]_vars

-----------------------------------------------------------------------------
\* No frame of a file is skipped or taken twice on its way into a batch, but for
\* the last one: the capture may reach its end after that was taken and before
\* the source is asked for its connection, and then the frame is thrown away.
NoFrameSkipped ==
    \A s \in SourceSet : kind[s] = "file" =>
        /\ \A n \in {slot[s], got[s]} \ {0} : n > offered[s]
        /\ slot[s] # 0 => slot[s] # got[s]
        /\ \A n \in offered[s] + 1 .. pos[s] :
               n \in {slot[s], got[s]} \/ (n = Length /\ ~connected[s])

\* "All file sources finished" is reported only when every file that could be
\* opened was read to its end and all but its last frame were put in a batch,
\* even if frames came in between the empty queue and the look at the threads.
CompletedAfterFiles ==
    reported = "stopped" =>
        \A s \in SourceSet :
            kind[s] = "file" /\ pos[s] \in {0, Length} /\ offered[s] + 1 >= pos[s]

\* What is put in batches of a file is what it holds, in its order and to its end.
FilesTakenWhole == NoFrameSkipped /\ CompletedAfterFiles
=============================================================================
