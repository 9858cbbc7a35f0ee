------------------------------- MODULE Anomaly -------------------------------
(***************************************************************************)
(* The gate before the anomaly models: of the frames of every camera some  *)
(* are evaluated, and stage 1 (HeuristicPresenceStageOneAdapter, and       *)
(* SigLIP which inherits it) makes candidates of activity that resumes and *)
(* of activity that persists.  What stage 2 makes of them is its own.      *)
(*                                                                         *)
(* Stage 1 keeps what it knows per source, not per camera: cameras without *)
(* a source template share one state.  Each frame carries the time at      *)
(* which its own camera took it, so that the times of a source can go back *)
(* from one camera to the next.                                            *)
(***************************************************************************)
EXTENDS Integers

CONSTANTS Cameras,         \* the cameras that have models
          SourceOf,        \* the source template of each camera
          FrameInterval,   \* frame_update_interval
          EvalInterval,    \* eval_interval
          QuietPeriod,     \* quiet_period_seconds
          Cooldown,        \* cooldown_seconds
          MinTracks,       \* min_track_count
          MaxTime          \* bound: time

VARIABLES track_time,  \* of each camera, when it was last looked at
          last_eval,   \*                 when it was last evaluated
          state,       \* state_by_source of stage 1
          behind       \* history: by how much, at most, a frame was older than the last
                       \* candidate of its source

anomalyVars == <<track_time, last_eval, state, behind>>

Templates == {SourceOf[c] : c \in Cameras}
Never == 0 - (QuietPeriod + Cooldown + EvalInterval + FrameInterval)

Init ==
    /\ track_time = [c \in Cameras |-> Never] /\ last_eval = [c \in Cameras |-> Never]
    /\ state = [s \in Templates |->
           [last_empty_at |-> Never, last_event_at |-> Never, last_activity_at |-> Never]]
    /\ behind = [s \in Templates |-> 0]

-----------------------------------------------------------------------------
\* Activity is worth a candidate when it is the first, resumed after a quiet period,
\* or has gone on for the cooldown: then it must also be enough.
Resumed(st, t) == st.last_empty_at # Never /\ t - st.last_empty_at >= QuietPeriod
Sustained(st, t) == st.last_event_at # Never /\ t - st.last_event_at >= Cooldown
First(st) == st.last_activity_at = Never
Fires(st, tracks, t) ==
    tracks >= MinTracks /\ (First(st) \/ Resumed(st, t) \/ Sustained(st, t))

\* (slip: the last empty frame is not forgotten when activity comes back)
EvaluateKeepsEmpty(st, tracks, t) ==
    IF tracks = 0 THEN [st EXCEPT !.last_empty_at = t]
    ELSE [st EXCEPT !.last_activity_at = t,
                    !.last_event_at = IF Fires(st, tracks, t) THEN t ELSE @]

\* evaluate: a frame without tracks is remembered as the last empty one; activity
\* is remembered and the empty frame forgotten, even when it is not enough.
Evaluate(st, tracks, t) ==
    IF tracks = 0 THEN [st EXCEPT !.last_empty_at = t]
    ELSE [last_activity_at |-> t, last_empty_at |-> Never,
          last_event_at |-> IF Fires(st, tracks, t) THEN t ELSE st.last_event_at]

\* What is evaluated is neither too soon after the frame looked at last nor after the last
\* evaluation.
Looked(c, t) == t - track_time[c] >= FrameInterval
Due(c, t) == last_eval[c] = Never \/ t - last_eval[c] >= EvalInterval

Skip(c) ==
    /\ \E t \in 1..MaxTime :
           Looked(c, t) /\ ~Due(c, t) /\ track_time' = [track_time EXCEPT ![c] = t]
    /\ UNCHANGED <<last_eval, state, behind>>

\* Anomaly.run comes to the next frame of a batch, whatever its time: a camera's own clock
\* made it, and a batch may come twice.  It shows no track, too few or enough.
Frame(c) ==
    \E t \in 1..MaxTime, tracks \in {0, 1, MinTracks} :
        LET s == SourceOf[c]  late == state[s].last_event_at - t
        IN  /\ Looked(c, t) /\ Due(c, t)
            /\ track_time' = [track_time EXCEPT ![c] = t]
            /\ last_eval' = [last_eval EXCEPT ![c] = t]
            /\ state' = [state EXCEPT ![s] = Evaluate(@, tracks, t)]
            /\ behind' = [behind EXCEPT ![s] = IF late > @ THEN late ELSE @]

Next == \E c \in Cameras : Skip(c) \/ Frame(c)
Spec == Init /\ [][Next]_anomalyVars

-----------------------------------------------------------------------------
Alone(s) == \A c, d \in Cameras : SourceOf[c] = s /\ SourceOf[d] = s => c = d
Least == IF QuietPeriod < Cooldown THEN QuietPeriod ELSE Cooldown

\* A source that one camera shows does not flood stage 2 and the operators: its candidates
\* are at least the quiet period or the cooldown apart, whatever comes and goes between
\* them, and however often or late a frame comes.  One that several cameras show keeps
\* that distance less what their frames were behind.
CandidatesApart ==
    [][\A s \in DOMAIN state :
          LET last == state[s].last_event_at  next == state'[s].last_event_at
          IN  next # last /\ last # Never
                  => next - last >= Least - IF Alone(s) THEN 0 ELSE behind'[s]
      ]_anomalyVars
=============================================================================
