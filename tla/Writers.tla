------------------------------- MODULE Writers -------------------------------
(***************************************************************************)
(* The annotated video of one camera: AnnotationWriter pairs the frames of *)
(* OutputThread with what reid says of them, its WriterWorker writes them  *)
(* in segments, and both end when OutputThread tells them to.              *)
(*                                                                         *)
(* A frame is its number, and so is its time; a message of reid is the     *)
(* number of its frame.  Frames are lost on the way, messages too.         *)
(***************************************************************************)
EXTENDS Integers, SequencesExt

CONSTANTS QueueMax,      \* WORKER_QUEUE_MAX
          WriterMax,     \* WRITER_WORKER_MAX_QUEUE
          BufferLength,  \* record_buf_len
          Fps, Unit,     \* Fps / Unit frames of video in one unit of time
          SegmentMax,    \* segment_frames
          RetainMax,     \* ANNOTATED_SEGMENT_RETAIN_MAX
          MaxFrame       \* bound: frames

VARIABLES sent,      \* the last frame OutputThread got
          reidSent,  \* the last message of reid
          running,   \* OutputThread's process
          queue,     \* AnnotationWriter's frames
          messages,  \* its messages
          at,        \* where it is
          held,      \* its frames; 0 for None
          message,   \* its message; 0 for none
          last,      \* last_timestamps: the frame shown last, or 0
          first,     \* the frame shown first, or 0
          owed,      \* num_frames, in parts of Unit
          stopped,   \* AnnotationWriter was told to stop
          work,      \* the queue of WriterWorker: frames and how often to save them
          dropped,   \* saves in the items its queue dropped
          segments,  \* the files, each with the saves in it, oldest first
          pruned,    \* saves in files that are gone
          writing    \* WriterWorker: "run", "stop" or "end"

vars == <<sent, reidSent, running, queue, messages, at, held, message, last, first, owed,
          stopped, work, dropped, segments, pruned, writing>>
feedVars == <<sent, reidSent, running>>
videoVars == <<last, first, owed, work, dropped>>
fileVars == <<segments, pruned, writing>>

Init ==
    /\ sent = 0 /\ reidSent = 0 /\ running = TRUE
    /\ queue = <<>> /\ messages = <<>>
    /\ at = "top" /\ held = 0 /\ message = 0 /\ stopped = FALSE
    /\ last = 0 /\ first = 0 /\ owed = Unit
    /\ work = <<>> /\ dropped = 0
    /\ segments = <<>> /\ pruned = 0 /\ writing = "run"

\* bounded_put with DROP_OLDEST.
Bounded(q, x, max) == IF Len(q) < max THEN Append(q, x) ELSE Append(Tail(q), x)

-----------------------------------------------------------------------------
\* OutputThread hands on the frames it gets, each later than the one before, until it
\* is told to stop; then it stops its workers and joins them.
Frame ==
    /\ running
    /\ \E f \in sent + 1 .. MaxFrame : sent' = f /\ queue' = Bounded(queue, f, QueueMax)
    /\ UNCHANGED <<reidSent, running, messages, at, held, message, stopped, videoVars, fileVars>>

Stop ==
    /\ running
    /\ running' = FALSE /\ stopped' = TRUE
    /\ UNCHANGED <<sent, reidSent, queue, messages, at, held, message, videoVars, fileVars>>

\* Reid answers to some of the frames, in their order; the consumer keeps its answers.
Reid ==
    /\ at \notin {"stop", "end"}
    /\ \E f \in reidSent + 1 .. sent : reidSent' = f /\ messages' = Append(messages, f)
    /\ UNCHANGED <<sent, running, queue, at, held, message, stopped, videoVars, fileVars>>

-----------------------------------------------------------------------------
\* show_and_write: what is due since the frame shown before is saved in whole frames,
\* the rest is owed.
Due(f) == owed + (IF last = 0 THEN 0 ELSE Fps * (f - last))
Saves(f) == Due(f) \div Unit
\* (slip: a part of a frame is forgotten)
OwedForgotten(f) == 0
OwedAfter(f) == Due(f) % Unit

Show(f) ==
    /\ work' = Bounded(work, <<f, Saves(f)>>, WriterMax)
    /\ dropped' = dropped + (IF Len(work) < WriterMax THEN 0 ELSE work[1][2])
    /\ owed' = OwedAfter(f)
    /\ last' = f
    /\ first' = IF first = 0 THEN f ELSE first

ShowNothing == UNCHANGED videoVars

\* The flag is looked at here only: once it is in one of the inner loops the thread
\* waits for a frame, however long.
Top ==
    /\ at = "top"
    /\ at' = IF stopped THEN "stop" ELSE IF held = 0 THEN "first" ELSE "message"
    /\ ShowNothing
    /\ UNCHANGED <<feedVars, queue, messages, held, message, stopped, fileVars>>

TakeFirst ==
    /\ at = "first" /\ queue # <<>>
    /\ held' = Head(queue) /\ queue' = Tail(queue)
    /\ at' = "message"
    /\ ShowNothing
    /\ UNCHANGED <<feedVars, messages, message, stopped, fileVars>>

\* No message: of a queue longer than the buffer the frames are shown as they are.
Silence ==
    /\ at = "message" /\ messages = <<>>
    /\ at' = IF Len(queue) > BufferLength THEN "early" ELSE "top"
    /\ ShowNothing
    /\ UNCHANGED <<feedVars, queue, messages, held, message, stopped, fileVars>>

ShowEarly ==
    /\ at = "early"
    /\ IF Len(queue) > BufferLength
       THEN held' = Head(queue) /\ queue' = Tail(queue) /\ Show(held') /\ UNCHANGED at
       ELSE at' = "top" /\ ShowNothing /\ UNCHANGED <<held, queue>>
    /\ UNCHANGED <<feedVars, messages, message, stopped, fileVars>>

\* Messages of earlier frames are skipped; when they run out the frames are shown
\* without one, and kept.
TakeMessage ==
    /\ at = "message" /\ messages # <<>>
    /\ LET old == {i \in DOMAIN messages : messages[i] < held}
           later == SubSeq(messages, Cardinality(old) + 1, Len(messages))
       IN  IF later = <<>>
           THEN messages' = <<>> /\ at' = "top" /\ Show(held) /\ UNCHANGED message
           ELSE messages' = Tail(later) /\ message' = Head(later) /\ at' = "match" /\ ShowNothing
    /\ UNCHANGED <<feedVars, queue, held, stopped, fileVars>>

\* Frames before the message are skipped; the first that is not is shown with it.
SkipFrame ==
    /\ at = "match" /\ held < message /\ queue # <<>>
    /\ held' = Head(queue) /\ queue' = Tail(queue)
    /\ ShowNothing
    /\ UNCHANGED <<feedVars, messages, at, message, stopped, fileVars>>

ShowMatch ==
    /\ at = "match" /\ held >= message
    /\ Show(held)
    /\ at' = "top" /\ message' = 0
    /\ UNCHANGED <<feedVars, queue, messages, held, stopped, fileVars>>

\* Once it has left its loop it stops its worker and joins it.
StopWorker ==
    /\ at = "stop" /\ writing = "run"
    /\ writing' = "stop"
    /\ ShowNothing
    /\ UNCHANGED <<feedVars, queue, messages, at, held, message, stopped, segments, pruned>>

JoinWorker ==
    /\ at = "stop" /\ writing = "end"
    /\ at' = "end"
    /\ ShowNothing
    /\ UNCHANGED <<feedVars, queue, messages, held, message, stopped, fileVars>>

-----------------------------------------------------------------------------
\* WriterWorker writes the frame as often as it is told; a full segment is followed by
\* another, and prune_directory_files then removes the oldest files beyond the limit.
Open(files) == IF files = <<>> THEN <<0>> ELSE files

Save(files) ==
    IF Last(files) >= SegmentMax THEN Append(files, 1) ELSE [files EXCEPT ![Len(files)] = @ + 1]

Saved(files, n) == FoldLeft(LAMBDA s, i : Save(s), Open(files), [i \in 1 .. n |-> i])

\* All saves in some files, or of some items.
Total(saves) == FoldLeft(+, 0, saves)

Kept(files) ==
    IF Len(files) > RetainMax THEN SubSeq(files, Len(files) - RetainMax + 1, Len(files)) ELSE files

Write ==
    /\ writing \in {"run", "stop"} /\ work # <<>>
    /\ LET files == Saved(segments, Head(work)[2])
       IN  /\ segments' = Kept(files)
           /\ pruned' = pruned + Total(files) - Total(Kept(files))
    /\ work' = Tail(work)
    /\ UNCHANGED <<feedVars, queue, messages, at, held, message, last, first, owed, stopped,
                   dropped, writing>>

\* Its loop looks at its flag between two items: those left are not written.
EndWorker ==
    /\ writing = "stop"
    /\ writing' = "end"
    /\ UNCHANGED <<feedVars, queue, messages, at, held, message, stopped, videoVars, segments,
                   pruned>>

Writer == Top \/ TakeFirst \/ Silence \/ ShowEarly \/ TakeMessage \/ SkipFrame \/ ShowMatch
              \/ StopWorker \/ JoinWorker
Worker == Write \/ EndWorker
Next == Frame \/ Stop \/ Reid \/ Writer \/ Worker
Spec == Init /\ [][Next]_vars /\ WF_vars(Writer) /\ WF_vars(Worker)

-----------------------------------------------------------------------------
SavesOf(items) == Total([i \in DOMAIN items |-> items[i][2]])

(* The video runs as fast as the camera: what is in the files, was pruned with them,    *)
(* waits for WriterWorker or fell out of its queue is one frame and Fps for every unit  *)
(* of time between the first frame shown and the last, less a part of a frame that is   *)
(* owed.  It holds whichever frames were lost on the way or shown twice, and however    *)
(* the segments were cut and pruned.                                                    *)
VideoKeepsTime ==
    LET saves == Total(segments) + pruned + SavesOf(work) + dropped
    IN  first # 0 => /\ Unit * saves + owed = Unit + Fps * (last - first)
                     /\ owed \in 0 .. Unit - 1

(* A writer that is told to stop ends, together with its worker, unless it waits in one *)
(* of the inner loops for a frame: OutputThread sends no more, so it waits for ever, and *)
(* whoever joins it too.                                                                *)
WriterEnds ==
    stopped ~> \/ at = "end" /\ writing = "end"
               \/ queue = <<>> /\ (at = "first" \/ (at = "match" /\ held < message))
=============================================================================
