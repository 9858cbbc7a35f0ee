----------------------------- MODULE PartsProofs -----------------------------
(***************************************************************************)
(* Proofs about the parts of MCParts that a run cannot settle by its small *)
(* instance: the readings of the sources, onboarding, the model logs, the  *)
(* mirror of the plugins, the secrets of the providers, the searches for a *)
(* person and the two stages of the anomaly detection, for every value of  *)
(* their constants.  Each is proved of its own specification; at the end   *)
(* the composition is shown to be one of each.                             *)
(***************************************************************************)
EXTENDS MCParts, FiniteSetTheorems, TLAPS

-----------------------------------------------------------------------------
(* Capture: the readings of get_frames, for any sources, length of the files,       *)
(* capacity of the queue and number of batches.                                      *)

\* What a file holds out, and what get_frames took of it, are the last frames read:
\* nothing else is missing from the batches, but for the last frame of a file that
\* is over.
FileInOrder(s) ==
    /\ slot[s] # 0 => slot[s] = pos[s] /\ offered[s] < slot[s]
    /\ got[s] # 0 => offered[s] < got[s] /\ got[s] = IF slot[s] = 0 THEN pos[s] ELSE pos[s] - 1
    /\ offered[s] <= pos[s]
    /\ \A n \in offered[s] + 1 .. pos[s] :
           n \in {slot[s], got[s]} \/ (n = Length /\ ~connected[s])
    /\ ~connected[s] => slot[s] = 0 /\ pos[s] \in {0, Length}
    /\ s \notin alive => ~connected[s]

\* Nothing was taken yet of the sources whose turn is to come, and those whose turn
\* is past were connected only if the batch is to be put.
TurnOf(i) ==
    /\ i > turn \/ (i = turn /\ ~half) => got[Sources[i]] = 0
    /\ i < turn /\ ~status => ~connected[Sources[i]]

Invariant ==
    /\ TypeOK
    /\ turn # 1 => id < MaxBatches
    /\ full => turn # 1
    /\ \A s \in SourceSet : kind[s] = "file" => FileInOrder(s)
    /\ \A i \in DOMAIN Sources : kind[Sources[i]] = "file" => TurnOf(i)
    /\ reported = "stopped" => \A s \in SourceSet : kind[s] = "file" /\ s \notin alive

-----------------------------------------------------------------------------
\* The elements of the sequence of sources are the sources.
LEMMA SourceAt ==
    /\ Len(Sources) \in Nat \ {0} /\ DOMAIN Sources = 1..Len(Sources)
    /\ \A i \in DOMAIN Sources : Sources[i] \in SourceSet
  BY CaptureAssumption DEF SourceSet

\* No source is asked twice.
LEMMA Distinct ==
    \A i, j \in DOMAIN Sources : Sources[i] = Sources[j] => i = j
  BY CaptureAssumption

\* The numbers the types speak of.
LEMMA Bounds ==
    Length \in Nat \ {0} /\ QueueMax \in Nat \ {0} /\ MaxBatches \in Nat
  BY CaptureAssumption

\* The first states satisfy the invariant: nothing was read.
THEOREM Initialization == Init => Invariant
<1> SUFFICES ASSUME Init PROVE Invariant
  OBVIOUS
<1> USE Bounds, SourceAt DEF Init
<1>1. TypeOK
  <2>1. {half, status, full} \subseteq BOOLEAN
    OBVIOUS
  <2>2. slot \in [SourceSet -> 0..Length] /\ slot = pos /\ slot = got /\ slot = offered
    BY DEF Nothing
  <2>3. id \in 0..MaxBatches /\ depth \in 0..QueueMax /\ turn \in 1..Len(Sources) + 1
    OBVIOUS
  <2>4. /\ kind \in [SourceSet -> {"camera", "file"}] /\ connected \in [SourceSet -> BOOLEAN]
        /\ alive \subseteq SourceSet /\ pc = "get" /\ recorded = FALSE /\ reported = "nothing"
    OBVIOUS
  <2> HIDE DEF Init
  <2> QED BY <2>1, <2>2, <2>3, <2>4 DEF TypeOK
<1>2. ASSUME NEW s \in SourceSet PROVE FileInOrder(s)
  BY <1>2 DEF FileInOrder, Nothing
<1>3. ASSUME NEW i \in DOMAIN Sources PROVE TurnOf(i)
  BY <1>3 DEF TurnOf, Nothing
<1> QED BY <1>1, <1>2, <1>3 DEF Invariant

\* A step of a source: it is only a file that the invariant speaks of, and that
\* reads on only when its frame was taken.
LEMMA SourceStepKeeps ==
    ASSUME Invariant, NEW s \in SourceSet, SourceStep(s)
    PROVE  Invariant'
<1>1. UNCHANGED <<kind, gatherVars, full, depth, ingestVars>>
  BY DEF SourceStep, ReadFrame, ReadPastEnd, FileOver, File,
         CameraReads, CameraFails, CameraReconnects, Camera
<1>2. /\ connected' \in [SourceSet -> BOOLEAN] /\ alive' \subseteq alive
      /\ slot' \in [SourceSet -> 0..Length] /\ pos' \in [SourceSet -> 0..Length]
  <2>0. /\ connected \in [SourceSet -> BOOLEAN]
        /\ slot \in [SourceSet -> 0..Length] /\ pos \in [SourceSet -> 0..Length]
    BY DEF Invariant, TypeOK
  <2>1. CASE ReadFrame(s)
    <3>1. pos[s] + 1 \in 0..Length
      BY <2>0, <2>1, Bounds DEF ReadFrame
    <3> QED BY <2>0, <2>1, <3>1 DEF ReadFrame
  <2>2. CASE ReadPastEnd(s) \/ FileOver(s)
    BY <2>0, <2>2 DEF ReadPastEnd, FileOver
  <2>3. CASE CameraReads(s)
    BY <2>0, <2>3, Bounds DEF CameraReads, Camera
  <2>4. CASE CameraFails(s)
    BY <2>0, <2>4, Bounds DEF CameraFails, Camera
  <2>5. CASE CameraReconnects(s)
    BY <2>0, <2>5 DEF CameraReconnects, Camera
  <2> QED BY <2>1, <2>2, <2>3, <2>4, <2>5 DEF SourceStep
<1> USE Bounds, SourceAt DEF Invariant, TypeOK
<1>3. ASSUME NEW t \in SourceSet, kind[t] = "file"
      PROVE  FileInOrder(t)' /\ (~connected[t] => ~connected'[t])
  <2>1. FileInOrder(t) /\ UNCHANGED <<got, offered>>
    BY <1>1, <1>3 DEF gatherVars
  <2>2. CASE ReadFrame(s)
    BY <2>1, <2>2 DEF ReadFrame, File, FileInOrder
  <2>3. CASE ReadPastEnd(s)
    BY <2>1, <2>3 DEF ReadPastEnd, File, FileInOrder
  <2>4. CASE FileOver(s)
    BY <2>1, <2>4 DEF FileOver, File, FileInOrder
  <2>5. CASE CameraReads(s) \/ CameraFails(s) \/ CameraReconnects(s)
    BY <1>3, <2>1, <2>5
    DEF CameraReads, CameraFails, CameraReconnects, Camera, FileInOrder
  <2> QED BY <2>2, <2>3, <2>4, <2>5 DEF SourceStep
<1>4. \A i \in DOMAIN Sources : kind'[Sources[i]] = "file" => TurnOf(i)'
  BY <1>1, <1>3 DEF TurnOf, gatherVars
<1>5. TypeOK'
  BY <1>1, <1>2 DEF gatherVars, ingestVars
<1>6. reported' = "stopped" => \A t \in SourceSet : kind'[t] = "file" /\ t \notin alive'
  BY <1>1, <1>2 DEF ingestVars
<1> QED BY <1>1, <1>3, <1>4, <1>5, <1>6 DEF gatherVars, ingestVars

\* One of the two readings of a source: its frame is taken when none is in hand.
LEMMA GetFrameKeeps ==
    ASSUME Invariant, GetFrame
    PROVE  Invariant'
<1> USE Bounds, SourceAt DEF Invariant, TypeOK
<1> DEFINE s == Sources[turn]
<1>1. /\ s \in SourceSet /\ turn \in 1..Len(Sources) /\ id < MaxBatches
      /\ UNCHANGED <<kind, connected, pos, alive, id, offered, full, depth, ingestVars>>
      /\ half' = ~half /\ turn' = IF half THEN turn + 1 ELSE turn
  BY DEF GetFrame
<1>2. \/ LookStatus(s) /\ (kind[s] = "file" => half)
      \/ TakeFrame(s) /\ (kind[s] = "file" => ~half)
  BY DEF GetFrame
<1>3. TypeOK'
  <2>1. {half', status', full'} \subseteq BOOLEAN /\ turn' \in 1..Len(Sources) + 1
    BY <1>1, <1>2 DEF LookStatus, TakeFrame
  <2>2. got' \in [SourceSet -> 0..Length] /\ slot' \in [SourceSet -> 0..Length]
    BY <1>1, <1>2 DEF LookStatus, TakeFrame
  <2> QED BY <1>1, <2>1, <2>2 DEF ingestVars
<1>4. (turn' # 1 => id' < MaxBatches) /\ (full' => turn' # 1)
  BY <1>1
<1>5. ASSUME NEW t \in SourceSet, kind[t] = "file"
      PROVE  FileInOrder(t)'
  <2>1. CASE LookStatus(s)
    BY <1>1, <1>5, <2>1 DEF LookStatus, FileInOrder
  <2>2. CASE TakeFrame(s) /\ t # s
    BY <1>1, <1>5, <2>2 DEF TakeFrame, FileInOrder
  <2>3. CASE TakeFrame(s) /\ t = s
    <3>1. got[s] = 0
      BY <1>1, <1>2, <1>5, <2>3 DEF TurnOf, LookStatus, TakeFrame
    <3> QED BY <1>1, <1>5, <2>3, <3>1 DEF TakeFrame, FileInOrder
  <2> QED BY <1>2, <2>1, <2>2, <2>3
<1>6. ASSUME NEW i \in DOMAIN Sources, kind[Sources[i]] = "file"
      PROVE  TurnOf(i)'
  <2>1. CASE i # turn
    <3>1. Sources[i] # s /\ Sources[i] \in SourceSet
      BY <1>1, <2>1, Distinct
    <3>2. got'[Sources[i]] = got[Sources[i]] /\ (status => status')
      BY <1>2, <3>1 DEF LookStatus, TakeFrame
    <3>3. i \in Nat /\ turn \in Nat /\ TurnOf(i)
      BY <1>1, <1>6
    <3> HIDE DEF Invariant, TypeOK, s
    <3> QED BY <1>1, <2>1, <3>2, <3>3 DEF TurnOf
  <2>2. CASE i = turn
    <3>1. TurnOf(i) /\ kind[s] = "file" /\ turn \in Nat
      BY <1>1, <1>6, <2>2
    <3>2. CASE LookStatus(s) /\ half
      <4>1. turn' = turn + 1 /\ connected' = connected
        BY <1>1, <3>2
      <4>2. ~status' => ~connected[s]
        BY <3>2 DEF LookStatus
      <4> QED BY <2>2, <3>1, <4>1, <4>2 DEF TurnOf
    <3>3. CASE TakeFrame(s) /\ ~half
      <4>1. turn' = turn /\ half'
        BY <1>1, <3>3
      <4> QED BY <2>2, <3>1, <4>1 DEF TurnOf
    <3> QED BY <1>2, <3>1, <3>2, <3>3
  <2> QED BY <2>1, <2>2
<1> QED BY <1>1, <1>3, <1>4, <1>5, <1>6 DEF ingestVars

\* A batch is put, or thrown away because no source was connected: then the frame
\* of a file in it is the last of a file that is over.
LEMMA RoundKeeps ==
    ASSUME Invariant, PutNowait \/ Evict \/ ThrowAway
    PROVE  Invariant'
<1> USE Bounds, SourceAt DEF Invariant, TypeOK
<1>1. CASE ~NextRound
  <2>1. full' = TRUE /\ Collected /\ UNCHANGED <<sourceVars, gatherVars, depth, ingestVars>>
    BY <1>1 DEF PutNowait, Evict, ThrowAway
  <2>2. TypeOK' /\ turn' # 1 /\ id' = id
    BY <2>1 DEF Collected, sourceVars, gatherVars, ingestVars
  <2> QED BY <2>1, <2>2 DEF FileInOrder, TurnOf, sourceVars, gatherVars, ingestVars
<1>2. CASE NextRound
  <2>1. /\ turn' = 1 /\ half' = FALSE /\ status' = FALSE /\ full' = FALSE /\ got' = Nothing
        /\ UNCHANGED <<kind, connected, slot, pos, alive, pc, recorded, reported>>
    BY <1>2 DEF NextRound, sourceVars, ingestVars
  <2>2. \/ Number /\ id < MaxBatches
        \/ UNCHANGED <<id, offered>> /\ Collected /\ ~status
    <3>1. CASE PutNowait
      <4>1. Collected /\ ~full' /\ (Number \/ full' = TRUE)
        BY <1>2, <3>1 DEF PutNowait, NextRound
      <4> QED BY <4>1 DEF Collected
    <3>2. CASE Evict
      BY <3>2 DEF Evict
    <3>3. CASE ThrowAway
      BY <3>3 DEF ThrowAway
    <3> QED BY <3>1, <3>2, <3>3
  <2>3. depth' \in 0..QueueMax
    BY <1>2 DEF PutNowait, Evict, ThrowAway
  <2>4. TypeOK'
    <3>1. id' \in 0..MaxBatches
      BY <2>2 DEF Number
    <3>2. got' \in [SourceSet -> 0..Length] /\ turn' \in 1..Len(Sources) + 1
      BY <2>1 DEF Nothing
    <3>3. offered' \in [SourceSet -> 0..Length]
      BY <2>2 DEF Number
    <3>4. {half', status', full'} \subseteq BOOLEAN
      BY <2>1
    <3> QED BY <2>1, <2>3, <3>1, <3>2, <3>3, <3>4
  <2>5. ASSUME NEW t \in SourceSet, kind[t] = "file"
        PROVE  FileInOrder(t)'
    <3>1. CASE Number
      BY <2>1, <2>5, <3>1 DEF Number, Nothing, FileInOrder
    <3>2. CASE UNCHANGED offered /\ Collected /\ ~status
      <4>1. PICK i \in DOMAIN Sources : Sources[i] = t
        BY DEF SourceSet
      <4>2. ~connected[t]
        BY <2>5, <3>2, <4>1 DEF TurnOf, Collected
      <4> QED BY <2>1, <2>5, <3>2, <4>2 DEF Nothing, FileInOrder
    <3> QED BY <2>2, <3>1, <3>2
  <2>6. \A i \in DOMAIN Sources : TurnOf(i)'
    BY <2>1 DEF TurnOf, Nothing
  <2> QED BY <2>1, <2>2, <2>4, <2>5, <2>6
<1> QED BY <1>1, <1>2

\* A step of the ingestor's loop.
LEMMA IngestorKeeps ==
    ASSUME Invariant, Fetch \/ FindEmpty \/ Empty
    PROVE  Invariant'
<1> USE Bounds DEF Invariant, TypeOK
<1>1. UNCHANGED <<sourceVars, gatherVars, full>>
  BY DEF Fetch, FindEmpty, Empty, Ingestor
<1>2. depth' \in 0..QueueMax /\ recorded' \in BOOLEAN
  <2>1. depth' = depth \/ (depth > 0 /\ depth' = depth - 1)
    BY DEF Fetch, FindEmpty, Empty
  <2>2. recorded' = recorded \/ recorded' = TRUE
    BY DEF Fetch, FindEmpty, Empty
  <2>3. recorded \in BOOLEAN => recorded' \in BOOLEAN
    BY <2>2, Zenon
  <2>4. depth' \in 0..QueueMax
    BY <2>1
  <2> QED BY <2>3, <2>4
<1>3. pc' \in {"get", "empty", "over"} /\ reported' \in {reported, "error", "stopped"}
  BY DEF Fetch, FindEmpty, Empty
<1>4. TypeOK'
  BY <1>1, <1>2, <1>3 DEF sourceVars, gatherVars
<1>5. reported' = "stopped" => \A s \in SourceSet : kind[s] = "file" /\ s \notin alive
  BY DEF Fetch, FindEmpty, Empty, AllFileSourcesFinished
<1>6. ASSUME NEW s \in SourceSet, FileInOrder(s) PROVE FileInOrder(s)'
  BY <1>1, <1>6 DEF FileInOrder, sourceVars, gatherVars
<1>7. ASSUME NEW i \in DOMAIN Sources, TurnOf(i) PROVE TurnOf(i)'
  BY <1>1, <1>7 DEF TurnOf, sourceVars, gatherVars
<1>8. UNCHANGED <<kind, alive, turn, id, full>>
  BY <1>1 DEF sourceVars, gatherVars
<1>9. \A s \in SourceSet : kind'[s] = "file" => FileInOrder(s)'
  BY <1>6, <1>8
<1>10. \A i \in DOMAIN Sources : kind'[Sources[i]] = "file" => TurnOf(i)'
  BY <1>7, <1>8
<1>11. (turn' # 1 => id' < MaxBatches) /\ (full' => turn' # 1)
  BY <1>8
<1>12. reported' = "stopped" => \A s \in SourceSet : kind'[s] = "file" /\ s \notin alive'
  BY <1>5, <1>8
<1> HIDE DEF TypeOK
<1> QED BY <1>4, <1>9, <1>10, <1>11, <1>12

\* Every step of the sources, of FramesThread and of the ingestor preserves the
\* invariant.
THEOREM Consecution == Invariant /\ [Next]_vars => Invariant'
<1> SUFFICES ASSUME Invariant, [Next]_vars PROVE Invariant'
  OBVIOUS
<1>1. CASE UNCHANGED vars
  BY <1>1 DEF vars, sourceVars, gatherVars, ingestVars, Invariant, TypeOK, FileInOrder, TurnOf
<1>2. CASE Next
  BY <1>2, SourceStepKeeps, GetFrameKeeps, RoundKeeps, IngestorKeeps DEF Next
<1> QED BY <1>1, <1>2

\* The inductive invariant holds in every reachable state.
THEOREM Safety == Spec => []Invariant
  BY Initialization, Consecution, PTL DEF Spec

\* The types are those declared, and the queue keeps to its capacity.
THEOREM Types == Spec => []TypeOK
<1>1. Invariant => TypeOK
  BY DEF Invariant
<1> QED BY <1>1, Safety, PTL

\* get_frames skips no frame of a file but perhaps the last, and takes none twice.
THEOREM EveryFrameTaken == Spec => []NoFrameSkipped
<1>1. Invariant => NoFrameSkipped
  BY Bounds DEF Invariant, TypeOK, NoFrameSkipped, FileInOrder
<1> QED BY <1>1, Safety, PTL

\* When the ingestor reports that its files are finished, they are.
THEOREM HonestCompletion == Spec => []CompletedAfterFiles
<1>1. ASSUME Invariant, reported = "stopped", NEW s \in SourceSet
      PROVE  kind[s] = "file" /\ pos[s] \in {0, Length} /\ offered[s] + 1 >= pos[s]
  <2>1. kind[s] = "file" /\ FileInOrder(s) /\ ~connected[s]
    BY <1>1 DEF Invariant, FileInOrder
  <2>2. pos[s] \in Nat /\ offered[s] \in Nat /\ got[s] \in Nat
    BY <1>1, Bounds DEF Invariant, TypeOK
  <2>3. ASSUME offered[s] + 1 < pos[s] PROVE FALSE
    <3>1. offered[s] + 1 \in {slot[s], got[s]} \/ offered[s] + 1 = Length
      <4>1. \A n \in offered[s] + 1 .. pos[s] :
                n \in {slot[s], got[s]} \/ (n = Length /\ ~connected[s])
        BY <2>1 DEF FileInOrder
      <4>2. offered[s] + 1 \in offered[s] + 1 .. pos[s]
        BY <2>2, <2>3
      <4> QED BY <4>1, <4>2
    <3> QED BY <2>1, <2>2, <2>3, <3>1 DEF FileInOrder
  <2> QED BY <2>1, <2>2, <2>3 DEF FileInOrder
<1>2. Invariant => CompletedAfterFiles
  BY <1>1 DEF CompletedAfterFiles
<1> QED BY <1>2, Safety, PTL

\* Both: get_frames and the end of the run take the files as they are.
THEOREM FilesTaken == Spec => []FilesTakenWhole
<1>1. NoFrameSkipped /\ CompletedAfterFiles => FilesTakenWhole
  BY DEF FilesTakenWhole
<1> QED BY <1>1, EveryFrameTaken, HonestCompletion, PTL

-----------------------------------------------------------------------------
(* Onboarding: what it leaves behind, for every number of runs and edits and whatever *)
(* may be entered.  The invariant says, of a run under way, what each step that was   *)
(* passed has established.                                                            *)

\* The steps from each one on.
FromReset == {"reset", "seed", "save"}
FromInfra == FromReset \cup {"infra"}
FromDetect == FromInfra \cup {"detect", "profile"}
FromConfig == FromDetect \cup {"config", "requirements", "mount"}
FromModels == FromConfig \cup {"models"}
FromDefaults == FromModels \cup {"defaults", "notifications"}
FromVenv == FromDefaults \cup {"venv", "env"}

Passwords == {"none", "root", "own"}
Devices == {"none", "cpu", "cuda"}
Disk == [workspace : {"none", "other", "checkout"}, venv : {"none", "half", "whole"},
         installed : BOOLEAN, config : Devices \cup {"example"},
         mounted : SUBSET {"plain", "remote"}, volume : Passwords, row : Tokens \cup {0, -1},
         default : BOOLEAN]
Dotenv == [there : BOOLEAN, token : Tokens \cup {0}, credential : BOOLEAN, password : Passwords,
           device : Devices]
Runs == [asked : SUBSET {"requirements", "detection", "infra"}, token : Tokens \cup {0},
        models : {Onboard!NoChoice, {"plain"}, {"remote"}}, device : Devices]
OnboardTypes ==
    /\ step \in FromVenv \cup {"idle", "clone"}
    /\ workspace \in Disk /\ dotenv \in Dotenv /\ run \in Runs
    /\ rewritten \in BOOLEAN

\* The workspace and its file, as far as the run has come.
Workspace ==
    /\ step \in FromVenv => workspace.workspace = "checkout"
    /\ step \in FromVenv \ {"venv"} => workspace.venv # "none"
    /\ step \in FromDefaults => dotenv.there
    /\ step \in FromModels => dotenv.token = run.token

\* The devices of the file and of the configuration.
DevicesAgree ==
    /\ step \notin FromInfra \cup {"profile", "idle"} => "detection" \notin run.asked
    /\ step \in FromInfra /\ "detection" \in run.asked => dotenv.device = run.device
    /\ step # "idle" /\ "detection" \in run.asked => workspace.config \in {"none", run.device}

\* The requirements, and the database that needs them.
Database ==
    /\ "requirements" \in run.asked => workspace.installed
    /\ step \notin FromReset \cup {"idle"} => "infra" \notin run.asked
    /\ step \in {"seed", "save"} /\ "infra" \in run.asked =>
           workspace.installed /\ workspace.volume = dotenv.password
    /\ step = "seed" => workspace.row = 0
    /\ step = "save" /\ "infra" \in run.asked => workspace.row = run.token

\* The models, and the credential of those that need one.
Mounted ==
    /\ step \in FromDetect /\ run.models # Onboard!NoChoice => workspace.mounted = run.models
    /\ step \in {"config", "requirements", "mount"} /\ "remote" \in run.models => dotenv.credential
    /\ "remote" \in workspace.mounted => dotenv.there

\* What a run that was begun has established.
Established == Workspace /\ DevicesAgree /\ Database /\ Mounted

OnboardInvariant == OnboardTypes /\ Established /\ Onboard!CredentialsThere /\ Onboard!Complete

-----------------------------------------------------------------------------
\* What is read of the records.
LEMMA OnboardFields ==
    ASSUME workspace \in Disk, dotenv \in Dotenv, run \in Runs
    PROVE  /\ run.device \in Devices /\ run.models \in {Onboard!NoChoice, {"plain"}, {"remote"}}
           /\ dotenv.token \in Tokens \cup {0} /\ dotenv.password \in Passwords
           /\ workspace.venv \in {"none", "half", "whole"}
                  /\ workspace.config \in Devices \cup {"example"}
           /\ workspace.row \in Tokens \cup {0, -1} /\ workspace.volume \in Passwords
BY DEF Disk, Dotenv, Runs

\* What may be written into the records.
LEMMA DiskFields ==
    ASSUME workspace \in Disk
    PROVE  /\ \A v \in {"none", "other", "checkout"} : [workspace EXCEPT !.workspace = v] \in Disk
           /\ \A v \in {"none", "half", "whole"} : [workspace EXCEPT !.venv = v] \in Disk
           /\ \A v \in BOOLEAN : [workspace EXCEPT !.installed = v] \in Disk
           /\ \A v \in Devices \cup {"example"} : [workspace EXCEPT !.config = v] \in Disk
           /\ \A v \in SUBSET {"plain", "remote"} : [workspace EXCEPT !.mounted = v] \in Disk
           /\ \A v \in Passwords : [workspace EXCEPT !.volume = v] \in Disk
           /\ \A v \in Tokens \cup {0, -1} : [workspace EXCEPT !.row = v] \in Disk
           /\ \A v \in BOOLEAN : [workspace EXCEPT !.default = v] \in Disk
BY DEF Disk

\* The same of the file .env.
LEMMA DotenvFields ==
    ASSUME dotenv \in Dotenv
    PROVE  /\ \A v \in Tokens \cup {0} : [dotenv EXCEPT !.token = v] \in Dotenv
           /\ \A v \in BOOLEAN : [dotenv EXCEPT !.credential = v] \in Dotenv
           /\ \A v \in Tokens \cup {0}, w \in BOOLEAN, x \in Passwords :
                  [dotenv EXCEPT !.token = v, !.credential = w, !.password = x] \in Dotenv
           /\ \A v \in Devices, x \in Passwords :
                  [dotenv EXCEPT !.device = v, !.password = x] \in Dotenv
BY DEF Dotenv

\* The same of what was asked of a run.
LEMMA RunFields ==
    ASSUME run \in Runs
    PROVE  /\ \A v \in {"requirements", "detection", "infra"} : Onboard!Asked(v) \in Runs
           /\ \A v \in {"requirements", "detection", "infra"}, x \in Devices :
                  [Onboard!Asked(v) EXCEPT !.device = x] \in Runs
           /\ \A v \in Tokens \cup {0} : [run EXCEPT !.token = v] \in Runs
           /\ \A v \in {Onboard!NoChoice, {"plain"}, {"remote"}} :
                  [run EXCEPT !.models = v] \in Runs
BY DEF Runs, Onboard!Asked

\* A stack that is started.
LEMMA StartedIsDisk ==
    ASSUME workspace \in Disk, dotenv \in Dotenv, run \in Runs
    PROVE  Onboard!Started \in Disk
<1>1. Onboard!Started = [workspace EXCEPT !.volume =
          IF workspace.volume = "none" THEN dotenv.password ELSE workspace.volume]
  BY DEF Onboard!Started
<1> QED BY <1>1, OnboardFields, DiskFields

\* Every step keeps the types of the state.
LEMMA OnboardTypesStep == ASSUME OnboardTypes, Onboard!Next PROVE OnboardTypes'
<1> USE DEF OnboardTypes, Devices, Passwords
<1> DEFINE Rest ==
      (step \in FromVenv \cup {"idle", "clone"} /\ rewritten \in BOOLEAN)'
<1>1. CASE Onboard!Begin
  <2>1. workspace' \in Disk
    BY <1>1 DEF Onboard!Begin, Onboard!NewRun
  <2>2. dotenv' \in Dotenv
    BY <1>1 DEF Onboard!Begin, Onboard!NewRun
  <2>3. run' \in Runs
    BY <1>1 DEF Onboard!Begin, Onboard!NewRun, Runs
  <2>4. step' \in FromVenv \cup {"idle", "clone"}
    BY <1>1 DEF Onboard!Begin, Onboard!NewRun, FromVenv, FromDefaults, FromModels, FromConfig,
       FromDetect, FromInfra, FromReset
  <2>5. rewritten' \in BOOLEAN
    BY <1>1 DEF Onboard!Begin, Onboard!NewRun
  <2> QED BY <2>1, <2>2, <2>3, <2>4, <2>5
<1>2. CASE Onboard!Clone
  <2>1. workspace' \in Disk
    BY <1>2, DiskFields DEF Onboard!Clone, Onboard!GoOn, Onboard!Fails
  <2>2. dotenv' \in Dotenv
    BY <1>2 DEF Onboard!Clone, Onboard!GoOn, Onboard!Fails
  <2>3. run' \in Runs
    BY <1>2 DEF Onboard!Clone, Onboard!GoOn, Onboard!Fails
  <2>4. step' \in FromVenv \cup {"idle", "clone"}
    BY <1>2 DEF Onboard!Clone, Onboard!GoOn, Onboard!Fails, FromVenv, FromDefaults, FromModels,
       FromConfig, FromDetect, FromInfra, FromReset
  <2>5. rewritten' \in BOOLEAN
    BY <1>2 DEF Onboard!Clone, Onboard!GoOn, Onboard!Fails
  <2> QED BY <2>1, <2>2, <2>3, <2>4, <2>5
<1>3. CASE Onboard!Virtualenv
  <2>1. workspace' \in Disk
    <3>1. \E v \in {"none", "half", "whole"} : workspace' = [workspace EXCEPT !.venv = v]
      <4>1. CASE workspace' = [workspace EXCEPT !.venv = IF @ = "none" THEN "whole" ELSE @]
        <5>1. workspace' = [workspace EXCEPT !.venv = IF workspace.venv = "none"
                  THEN "whole" ELSE workspace.venv]
          BY <4>1
        <5> QED BY <5>1, OnboardFields
      <4>2. CASE \E left \in {"none", "half"} : workspace' = [workspace EXCEPT !.venv = left]
        BY <4>2
      <4> QED BY <1>3, <4>1, <4>2 DEF Onboard!Virtualenv
    <3> QED BY <3>1, DiskFields
  <2>2. dotenv' \in Dotenv
    BY <1>3 DEF Onboard!Virtualenv, Onboard!GoOn, Onboard!Fails
  <2>3. run' \in Runs
    BY <1>3 DEF Onboard!Virtualenv, Onboard!GoOn, Onboard!Fails
  <2>4. step' \in FromVenv \cup {"idle", "clone"}
    BY <1>3 DEF Onboard!Virtualenv, Onboard!GoOn, Onboard!Fails, FromVenv, FromDefaults,
       FromModels, FromConfig, FromDetect, FromInfra, FromReset
  <2>5. rewritten' \in BOOLEAN
    BY <1>3 DEF Onboard!Virtualenv, Onboard!GoOn, Onboard!Fails
  <2> QED BY <2>1, <2>2, <2>3, <2>4, <2>5
<1>4. CASE Onboard!CopyEnv
  <2>1. workspace' \in Disk
    BY <1>4 DEF Onboard!CopyEnv, Onboard!GoOn, Onboard!Example, Onboard!NoFile
  <2>2. dotenv' \in Dotenv
    <3>1. Onboard!Example \in Dotenv
      BY DEF Onboard!Example, Onboard!NoFile, Dotenv
    <3> QED BY <1>4, <3>1 DEF Onboard!CopyEnv
  <2>3. run' \in Runs
    BY <1>4 DEF Onboard!CopyEnv, Onboard!GoOn, Onboard!Example, Onboard!NoFile
  <2>4. step' \in FromVenv \cup {"idle", "clone"}
    BY <1>4 DEF Onboard!CopyEnv, Onboard!GoOn, Onboard!Example, Onboard!NoFile, FromVenv,
       FromDefaults, FromModels, FromConfig, FromDetect, FromInfra, FromReset
  <2>5. rewritten' \in BOOLEAN
    BY <1>4 DEF Onboard!CopyEnv, Onboard!GoOn, Onboard!Example, Onboard!NoFile
  <2> QED BY <2>1, <2>2, <2>3, <2>4, <2>5
<1>5. CASE Onboard!NotificationDefaults
  <2>1. workspace' \in Disk
    BY <1>5 DEF Onboard!NotificationDefaults, Onboard!GoOn
  <2>2. dotenv' \in Dotenv
    BY <1>5, DotenvFields DEF Onboard!NotificationDefaults, Onboard!GoOn
  <2>3. run' \in Runs
    BY <1>5 DEF Onboard!NotificationDefaults, Onboard!GoOn
  <2>4. step' \in FromVenv \cup {"idle", "clone"}
    BY <1>5 DEF Onboard!NotificationDefaults, Onboard!GoOn, FromVenv, FromDefaults, FromModels,
       FromConfig, FromDetect, FromInfra, FromReset
  <2>5. rewritten' \in BOOLEAN
    BY <1>5 DEF Onboard!NotificationDefaults, Onboard!GoOn
  <2> QED BY <2>1, <2>2, <2>3, <2>4, <2>5
<1>6. CASE Onboard!Notifications
  <2>1. workspace' \in Disk
    BY <1>6 DEF Onboard!Notifications, Onboard!GoOn
  <2>2. dotenv' \in Dotenv
    BY <1>6, DotenvFields DEF Onboard!Notifications, Onboard!GoOn
  <2>3. run' \in Runs
    BY <1>6, RunFields DEF Onboard!Notifications, Onboard!GoOn
  <2>4. step' \in FromVenv \cup {"idle", "clone"}
    BY <1>6 DEF Onboard!Notifications, Onboard!GoOn, FromVenv, FromDefaults, FromModels, FromConfig,
       FromDetect, FromInfra, FromReset
  <2>5. rewritten' \in BOOLEAN
    BY <1>6 DEF Onboard!Notifications, Onboard!GoOn
  <2> QED BY <2>1, <2>2, <2>3, <2>4, <2>5
<1>7. CASE Onboard!Models
  <2>1. workspace' \in Disk
    BY <1>7 DEF Onboard!Models, Onboard!GoOn, Onboard!Fails
  <2>2. dotenv' \in Dotenv
    BY <1>7, DotenvFields DEF Onboard!Models, Onboard!GoOn, Onboard!Fails
  <2>3. run' \in Runs
    BY <1>7, RunFields DEF Onboard!Models, Onboard!GoOn, Onboard!Fails
  <2>4. step' \in FromVenv \cup {"idle", "clone"}
    BY <1>7 DEF Onboard!Models, Onboard!GoOn, Onboard!Fails, FromVenv, FromDefaults, FromModels,
       FromConfig, FromDetect, FromInfra, FromReset
  <2>5. rewritten' \in BOOLEAN
    BY <1>7 DEF Onboard!Models, Onboard!GoOn, Onboard!Fails
  <2> QED BY <2>1, <2>2, <2>3, <2>4, <2>5
<1>8. CASE Onboard!CopyConfig
  <2>1. workspace' \in Disk
    BY <1>8, DiskFields DEF Onboard!CopyConfig, Onboard!GoOn
  <2>2. dotenv' \in Dotenv
    BY <1>8 DEF Onboard!CopyConfig, Onboard!GoOn
  <2>3. run' \in Runs
    BY <1>8 DEF Onboard!CopyConfig, Onboard!GoOn
  <2>4. step' \in FromVenv \cup {"idle", "clone"}
    BY <1>8 DEF Onboard!CopyConfig, Onboard!GoOn, FromVenv, FromDefaults, FromModels, FromConfig,
       FromDetect, FromInfra, FromReset
  <2>5. rewritten' \in BOOLEAN
    BY <1>8 DEF Onboard!CopyConfig, Onboard!GoOn
  <2> QED BY <2>1, <2>2, <2>3, <2>4, <2>5
<1>9. CASE Onboard!Requirements
  <2>1. workspace' \in Disk
    BY <1>9, DiskFields DEF Onboard!Requirements, Onboard!GoOn, Onboard!Fails, Onboard!Asked
  <2>2. dotenv' \in Dotenv
    BY <1>9 DEF Onboard!Requirements, Onboard!GoOn, Onboard!Fails, Onboard!Asked
  <2>3. run' \in Runs
    BY <1>9, RunFields DEF Onboard!Requirements, Onboard!GoOn, Onboard!Fails, Onboard!Asked
  <2>4. step' \in FromVenv \cup {"idle", "clone"}
    BY <1>9 DEF Onboard!Requirements, Onboard!GoOn, Onboard!Fails, Onboard!Asked, FromVenv,
       FromDefaults, FromModels, FromConfig, FromDetect, FromInfra, FromReset
  <2>5. rewritten' \in BOOLEAN
    BY <1>9 DEF Onboard!Requirements, Onboard!GoOn, Onboard!Fails, Onboard!Asked
  <2> QED BY <2>1, <2>2, <2>3, <2>4, <2>5
<1>10. CASE Onboard!Mount
  <2>1. workspace' \in Disk
    <3>1. Onboard!NoChoice # {"plain"} /\ Onboard!NoChoice # {"remote"}
      BY DEF Onboard!NoChoice
    <3> QED BY <1>10, <3>1, OnboardFields, DiskFields DEF Onboard!Mount
  <2>2. dotenv' \in Dotenv
    BY <1>10 DEF Onboard!Mount, Onboard!GoOn
  <2>3. run' \in Runs
    BY <1>10 DEF Onboard!Mount, Onboard!GoOn
  <2>4. step' \in FromVenv \cup {"idle", "clone"}
    BY <1>10 DEF Onboard!Mount, Onboard!GoOn, FromVenv, FromDefaults, FromModels, FromConfig,
       FromDetect, FromInfra, FromReset
  <2>5. rewritten' \in BOOLEAN
    BY <1>10 DEF Onboard!Mount, Onboard!GoOn
  <2> QED BY <2>1, <2>2, <2>3, <2>4, <2>5
<1>11. CASE Onboard!Detect
  <2>1. workspace' \in Disk
    BY <1>11, DiskFields DEF Onboard!Detect, Onboard!GoOn, Onboard!Asked
  <2>2. dotenv' \in Dotenv
    BY <1>11 DEF Onboard!Detect, Onboard!GoOn, Onboard!Asked
  <2>3. run' \in Runs
    BY <1>11, RunFields DEF Onboard!Detect, Onboard!GoOn, Onboard!Asked
  <2>4. step' \in FromVenv \cup {"idle", "clone"}
    BY <1>11 DEF Onboard!Detect, Onboard!GoOn, Onboard!Asked, FromVenv, FromDefaults, FromModels,
       FromConfig, FromDetect, FromInfra, FromReset
  <2>5. rewritten' \in BOOLEAN
    BY <1>11 DEF Onboard!Detect, Onboard!GoOn, Onboard!Asked
  <2> QED BY <2>1, <2>2, <2>3, <2>4, <2>5
<1>12. CASE Onboard!Profile
  <2>1. workspace' \in Disk
    BY <1>12 DEF Onboard!Profile, Onboard!GoOn, Onboard!Fails
  <2>2. dotenv' \in Dotenv
    <3>1. dotenv' = dotenv \/ dotenv' = [dotenv EXCEPT !.device = run.device, !.password = "root"]
      BY <1>12 DEF Onboard!Profile, Onboard!GoOn, Onboard!Fails
    <3> QED BY <3>1, OnboardFields, DotenvFields
  <2>3. run' \in Runs
    BY <1>12 DEF Onboard!Profile, Onboard!GoOn, Onboard!Fails
  <2>4. step' \in FromVenv \cup {"idle", "clone"}
    BY <1>12 DEF Onboard!Profile, Onboard!GoOn, Onboard!Fails, FromVenv, FromDefaults, FromModels,
       FromConfig, FromDetect, FromInfra, FromReset
  <2>5. rewritten' \in BOOLEAN
    BY <1>12 DEF Onboard!Profile, Onboard!GoOn, Onboard!Fails
  <2> QED BY <2>1, <2>2, <2>3, <2>4, <2>5
<1>13. CASE Onboard!Infra
  <2>1. workspace' \in Disk
    <3>1. workspace' = workspace \/ workspace' = Onboard!Started
      BY <1>13 DEF Onboard!Infra
    <3> QED BY <3>1, StartedIsDisk
  <2>2. dotenv' \in Dotenv
    BY <1>13 DEF Onboard!Infra, Onboard!GoOn, Onboard!Fails, Onboard!Asked, Onboard!Started
  <2>3. run' \in Runs
    BY <1>13, RunFields DEF Onboard!Infra, Onboard!GoOn, Onboard!Fails, Onboard!Asked,
       Onboard!Started
  <2>4. step' \in FromVenv \cup {"idle", "clone"}
    BY <1>13 DEF Onboard!Infra, Onboard!GoOn, Onboard!Fails, Onboard!Asked, Onboard!Started,
       FromVenv, FromDefaults, FromModels, FromConfig, FromDetect, FromInfra, FromReset
  <2>5. rewritten' \in BOOLEAN
    BY <1>13 DEF Onboard!Infra, Onboard!GoOn, Onboard!Fails, Onboard!Asked, Onboard!Started
  <2> QED BY <2>1, <2>2, <2>3, <2>4, <2>5
<1>14. CASE Onboard!ResetDb
  <2>1. workspace' \in Disk
    BY <1>14, DiskFields DEF Onboard!ResetDb, Onboard!GoOn, Onboard!Fails
  <2>2. dotenv' \in Dotenv
    BY <1>14 DEF Onboard!ResetDb, Onboard!GoOn, Onboard!Fails
  <2>3. run' \in Runs
    BY <1>14 DEF Onboard!ResetDb, Onboard!GoOn, Onboard!Fails
  <2>4. step' \in FromVenv \cup {"idle", "clone"}
    BY <1>14 DEF Onboard!ResetDb, Onboard!GoOn, Onboard!Fails, FromVenv, FromDefaults, FromModels,
       FromConfig, FromDetect, FromInfra, FromReset
  <2>5. rewritten' \in BOOLEAN
    BY <1>14 DEF Onboard!ResetDb, Onboard!GoOn, Onboard!Fails
  <2> QED BY <2>1, <2>2, <2>3, <2>4, <2>5
<1>15. CASE Onboard!Seed
  <2>1. workspace' \in Disk
    <3>1. workspace' = workspace
              \/ \E v \in Tokens \cup {0, -1} : workspace' = [workspace EXCEPT !.row = v]
      BY <1>15, OnboardFields DEF Onboard!Seed
    <3> QED BY <3>1, DiskFields
  <2>2. dotenv' \in Dotenv
    BY <1>15 DEF Onboard!Seed, Onboard!GoOn, Onboard!Fails
  <2>3. run' \in Runs
    BY <1>15 DEF Onboard!Seed, Onboard!GoOn, Onboard!Fails
  <2>4. step' \in FromVenv \cup {"idle", "clone"}
    BY <1>15 DEF Onboard!Seed, Onboard!GoOn, Onboard!Fails, FromVenv, FromDefaults, FromModels,
       FromConfig, FromDetect, FromInfra, FromReset
  <2>5. rewritten' \in BOOLEAN
    BY <1>15 DEF Onboard!Seed, Onboard!GoOn, Onboard!Fails
  <2> QED BY <2>1, <2>2, <2>3, <2>4, <2>5
<1>16. CASE Onboard!SaveDefault
  <2>1. workspace' \in Disk
    BY <1>16, DiskFields DEF Onboard!SaveDefault, Onboard!Fails
  <2>2. dotenv' \in Dotenv
    BY <1>16 DEF Onboard!SaveDefault, Onboard!Fails
  <2>3. run' \in Runs
    BY <1>16 DEF Onboard!SaveDefault, Onboard!Fails
  <2>4. step' \in FromVenv \cup {"idle", "clone"}
    BY <1>16 DEF Onboard!SaveDefault, Onboard!Fails, FromVenv, FromDefaults, FromModels, FromConfig,
       FromDetect, FromInfra, FromReset
  <2>5. rewritten' \in BOOLEAN
    BY <1>16 DEF Onboard!SaveDefault, Onboard!Fails
  <2> QED BY <2>1, <2>2, <2>3, <2>4, <2>5
<1>17. CASE Onboard!Edit
  <2>1. workspace' \in Disk
    <3>1. workspace' = workspace \/ workspace' = Onboard!Started
      BY <1>17 DEF Onboard!Edit
    <3> QED BY <3>1, StartedIsDisk
  <2>2. dotenv' \in Dotenv
    <3>1. CASE dotenv' = dotenv
      BY <3>1
    <3>2. CASE \E token \in Tokens \cup {0}, credential \in BOOLEAN, password \in {"root", "own"} :
                 dotenv' = [dotenv EXCEPT !.token = token, !.credential = credential,
                                          !.password = password]
      <4>1. PICK token \in Tokens \cup {0}, credential \in BOOLEAN, password \in {"root", "own"} :
                 dotenv' = [dotenv EXCEPT !.token = token, !.credential = credential,
                                          !.password = password]
        BY <3>2
      <4>2. password \in Passwords
        OBVIOUS
      <4> HIDE DEF Passwords
      <4> QED BY <4>1, <4>2, DotenvFields
    <3> QED BY <1>17, <3>1, <3>2 DEF Onboard!Edit
  <2>3. run' \in Runs
    BY <1>17 DEF Onboard!Edit, Onboard!Started
  <2>4. step' \in FromVenv \cup {"idle", "clone"}
    BY <1>17 DEF Onboard!Edit, Onboard!Started, FromVenv, FromDefaults, FromModels, FromConfig,
       FromDetect, FromInfra, FromReset
  <2>5. rewritten' \in BOOLEAN
    BY <1>17 DEF Onboard!Edit, Onboard!Started
  <2> QED BY <2>1, <2>2, <2>3, <2>4, <2>5
<1> QED BY <1>1, <1>2, <1>3, <1>4, <1>5, <1>6, <1>7, <1>8, <1>9, <1>10, <1>11, <1>12, <1>13,
   <1>14, <1>15, <1>16, <1>17 DEF Onboard!Next

\* The device found is written into the file before anything looks at it.
LEMMA ProfileAgrees ==
    ASSUME OnboardTypes, Established, Onboard!Profile
    PROVE  DevicesAgree'
<1>1. CASE step' = "idle"
  BY <1>1 DEF DevicesAgree, FromInfra, FromReset
<1>2. CASE step' # "idle"
  <2>1. /\ step' = "infra" /\ UNCHANGED <<workspace, run>>
        /\ dotenv' = [dotenv EXCEPT !.device = run.device, !.password = "root"]
        /\ step = "profile"
    BY <1>2 DEF Onboard!Profile, Onboard!GoOn, Onboard!Fails
  <2>2. dotenv'.device = run.device
    BY <2>1 DEF OnboardTypes, Dotenv
  <2> QED BY <2>1, <2>2 DEF Established, DevicesAgree, FromInfra, FromReset
<1> QED BY <1>1, <1>2

\* Every step establishes what the next ones count on.
LEMMA EstablishedStep ==
    ASSUME OnboardTypes, Established, Onboard!Next
    PROVE  Established'
<1> USE DEF FromVenv, FromDefaults, FromModels, FromConfig, FromDetect, FromInfra, FromReset
<1>1. CASE Onboard!Begin
  <2>1. Workspace'
    BY <1>1 DEF OnboardTypes, Disk, Dotenv, Runs, Established, Workspace, Onboard!Begin,
       Onboard!NewRun
  <2>2. DevicesAgree'
    BY <1>1 DEF OnboardTypes, Disk, Dotenv, Runs, Established, DevicesAgree, Onboard!Begin,
       Onboard!NewRun
  <2>3. Database'
    BY <1>1 DEF OnboardTypes, Disk, Dotenv, Runs, Established, Database, Onboard!Begin,
       Onboard!NewRun
  <2>4. Mounted'
    BY <1>1 DEF OnboardTypes, Disk, Dotenv, Runs, Established, Mounted, Onboard!Begin,
       Onboard!NewRun
  <2> QED BY <2>1, <2>2, <2>3, <2>4 DEF Established
<1>2. CASE Onboard!Clone
  <2>1. Workspace'
    BY <1>2 DEF OnboardTypes, Disk, Dotenv, Runs, Established, Workspace, Onboard!Clone,
       Onboard!GoOn, Onboard!Fails
  <2>2. DevicesAgree'
    BY <1>2 DEF OnboardTypes, Disk, Dotenv, Runs, Established, DevicesAgree, Onboard!Clone,
       Onboard!GoOn, Onboard!Fails
  <2>3. Database'
    BY <1>2 DEF OnboardTypes, Disk, Dotenv, Runs, Established, Database, Onboard!Clone,
       Onboard!GoOn, Onboard!Fails
  <2>4. Mounted'
    BY <1>2 DEF OnboardTypes, Disk, Dotenv, Runs, Established, Mounted, Onboard!Clone,
       Onboard!GoOn, Onboard!Fails
  <2> QED BY <2>1, <2>2, <2>3, <2>4 DEF Established
<1>3. CASE Onboard!Virtualenv
  <2>1. Workspace'
    BY <1>3 DEF OnboardTypes, Disk, Dotenv, Runs, Established, Workspace, Onboard!Virtualenv,
       Onboard!GoOn, Onboard!Fails
  <2>2. DevicesAgree'
    BY <1>3 DEF OnboardTypes, Disk, Dotenv, Runs, Established, DevicesAgree, Onboard!Virtualenv,
       Onboard!GoOn, Onboard!Fails
  <2>3. Database'
    BY <1>3 DEF OnboardTypes, Disk, Dotenv, Runs, Established, Database, Onboard!Virtualenv,
       Onboard!GoOn, Onboard!Fails
  <2>4. Mounted'
    BY <1>3 DEF OnboardTypes, Disk, Dotenv, Runs, Established, Mounted, Onboard!Virtualenv,
       Onboard!GoOn, Onboard!Fails
  <2> QED BY <2>1, <2>2, <2>3, <2>4 DEF Established
<1>4. CASE Onboard!CopyEnv
  <2>1. Workspace'
    BY <1>4 DEF OnboardTypes, Disk, Dotenv, Runs, Established, Workspace, Onboard!CopyEnv,
       Onboard!GoOn, Onboard!Example, Onboard!NoFile
  <2>2. DevicesAgree'
    BY <1>4 DEF OnboardTypes, Disk, Dotenv, Runs, Established, DevicesAgree, Onboard!CopyEnv,
       Onboard!GoOn, Onboard!Example, Onboard!NoFile
  <2>3. Database'
    BY <1>4 DEF OnboardTypes, Disk, Dotenv, Runs, Established, Database, Onboard!CopyEnv,
       Onboard!GoOn, Onboard!Example, Onboard!NoFile
  <2>4. Mounted'
    BY <1>4 DEF OnboardTypes, Disk, Dotenv, Runs, Established, Mounted, Onboard!CopyEnv,
       Onboard!GoOn, Onboard!Example, Onboard!NoFile
  <2> QED BY <2>1, <2>2, <2>3, <2>4 DEF Established
<1>5. CASE Onboard!NotificationDefaults
  <2>1. Workspace'
    BY <1>5 DEF OnboardTypes, Disk, Dotenv, Runs, Established, Workspace,
       Onboard!NotificationDefaults, Onboard!GoOn
  <2>2. DevicesAgree'
    BY <1>5 DEF OnboardTypes, Disk, Dotenv, Runs, Established, DevicesAgree,
       Onboard!NotificationDefaults, Onboard!GoOn
  <2>3. Database'
    BY <1>5 DEF OnboardTypes, Disk, Dotenv, Runs, Established, Database,
       Onboard!NotificationDefaults, Onboard!GoOn
  <2>4. Mounted'
    BY <1>5 DEF OnboardTypes, Disk, Dotenv, Runs, Established, Mounted,
       Onboard!NotificationDefaults, Onboard!GoOn
  <2> QED BY <2>1, <2>2, <2>3, <2>4 DEF Established
<1>6. CASE Onboard!Notifications
  <2>1. Workspace'
    BY <1>6 DEF OnboardTypes, Disk, Dotenv, Runs, Established, Workspace, Onboard!Notifications,
       Onboard!GoOn
  <2>2. DevicesAgree'
    BY <1>6 DEF OnboardTypes, Disk, Dotenv, Runs, Established, DevicesAgree,
       Onboard!Notifications, Onboard!GoOn
  <2>3. Database'
    BY <1>6 DEF OnboardTypes, Disk, Dotenv, Runs, Established, Database, Onboard!Notifications,
       Onboard!GoOn
  <2>4. Mounted'
    BY <1>6 DEF OnboardTypes, Disk, Dotenv, Runs, Established, Mounted, Onboard!Notifications,
       Onboard!GoOn
  <2> QED BY <2>1, <2>2, <2>3, <2>4 DEF Established
<1>7. CASE Onboard!Models
  <2>1. Workspace'
    BY <1>7 DEF OnboardTypes, Disk, Dotenv, Runs, Established, Workspace, Onboard!Models,
       Onboard!GoOn, Onboard!Fails
  <2>2. DevicesAgree'
    BY <1>7 DEF OnboardTypes, Disk, Dotenv, Runs, Established, DevicesAgree, Onboard!Models,
       Onboard!GoOn, Onboard!Fails
  <2>3. Database'
    BY <1>7 DEF OnboardTypes, Disk, Dotenv, Runs, Established, Database, Onboard!Models,
       Onboard!GoOn, Onboard!Fails
  <2>4. Mounted'
    BY <1>7 DEF OnboardTypes, Disk, Dotenv, Runs, Established, Mounted, Onboard!Models,
       Onboard!GoOn, Onboard!Fails
  <2> QED BY <2>1, <2>2, <2>3, <2>4 DEF Established
<1>8. CASE Onboard!CopyConfig
  <2>1. Workspace'
    BY <1>8 DEF OnboardTypes, Disk, Dotenv, Runs, Established, Workspace, Onboard!CopyConfig,
       Onboard!GoOn
  <2>2. DevicesAgree'
    BY <1>8 DEF OnboardTypes, Disk, Dotenv, Runs, Established, DevicesAgree, Onboard!CopyConfig,
       Onboard!GoOn
  <2>3. Database'
    BY <1>8 DEF OnboardTypes, Disk, Dotenv, Runs, Established, Database, Onboard!CopyConfig,
       Onboard!GoOn
  <2>4. Mounted'
    BY <1>8 DEF OnboardTypes, Disk, Dotenv, Runs, Established, Mounted, Onboard!CopyConfig,
       Onboard!GoOn
  <2> QED BY <2>1, <2>2, <2>3, <2>4 DEF Established
<1>9. CASE Onboard!Requirements
  <2>1. Workspace'
    BY <1>9 DEF OnboardTypes, Disk, Dotenv, Runs, Established, Workspace, Onboard!Requirements,
       Onboard!GoOn, Onboard!Fails, Onboard!Asked
  <2>2. DevicesAgree'
    BY <1>9 DEF OnboardTypes, Disk, Dotenv, Runs, Established, DevicesAgree, Onboard!Requirements,
       Onboard!GoOn, Onboard!Fails, Onboard!Asked
  <2>3. Database'
    BY <1>9 DEF OnboardTypes, Disk, Dotenv, Runs, Established, Database, Onboard!Requirements,
       Onboard!GoOn, Onboard!Fails, Onboard!Asked
  <2>4. Mounted'
    BY <1>9 DEF OnboardTypes, Disk, Dotenv, Runs, Established, Mounted, Onboard!Requirements,
       Onboard!GoOn, Onboard!Fails, Onboard!Asked
  <2> QED BY <2>1, <2>2, <2>3, <2>4 DEF Established
<1>10. CASE Onboard!Mount
  <2>1. Workspace'
    BY <1>10 DEF OnboardTypes, Disk, Dotenv, Runs, Established, Workspace, Onboard!Mount,
       Onboard!GoOn
  <2>2. DevicesAgree'
    BY <1>10 DEF OnboardTypes, Disk, Dotenv, Runs, Established, DevicesAgree, Onboard!Mount,
       Onboard!GoOn
  <2>3. Database'
    BY <1>10 DEF OnboardTypes, Disk, Dotenv, Runs, Established, Database, Onboard!Mount,
       Onboard!GoOn
  <2>4. Mounted'
    BY <1>10 DEF OnboardTypes, Disk, Dotenv, Runs, Established, Mounted, Workspace, Onboard!Mount,
       Onboard!GoOn
  <2> QED BY <2>1, <2>2, <2>3, <2>4 DEF Established
<1>11. CASE Onboard!Detect
  <2>1. Workspace'
    BY <1>11 DEF OnboardTypes, Disk, Dotenv, Runs, Established, Workspace, Onboard!Detect,
       Onboard!GoOn, Onboard!Asked
  <2>5. ASSUME Onboard!GoOn("detect", "infra"), UNCHANGED <<workspace, dotenv, run, rewritten>>
        PROVE  DevicesAgree' /\ Database'
    BY <2>5 DEF Onboard!GoOn, OnboardTypes, Established, DevicesAgree, Database
  <2>6. ASSUME Onboard!GoOn("detect", "profile"), NEW device \in {"cpu", "cuda"},
               run' = [Onboard!Asked("detection") EXCEPT !.device = device],
               workspace' = [workspace EXCEPT !.config = IF @ = "none" THEN @ ELSE device]
        PROVE  DevicesAgree' /\ Database'
    <3>1. run'.asked = run.asked \cup {"detection"} /\ run'.device = device
      BY <2>6 DEF OnboardTypes, Runs, Onboard!Asked
    <3>2. workspace'.config \in {"none", device} /\ workspace'.installed = workspace.installed
      BY <2>6 DEF OnboardTypes, Disk
    <3>3. step = "detect" /\ step' = "profile"
      BY <2>6 DEF Onboard!GoOn
    <3>4. DevicesAgree'
      BY <3>1, <3>2, <3>3 DEF DevicesAgree
    <3>5. Database'
      BY <3>1, <3>2, <3>3 DEF Established, Database
    <3> QED BY <3>4, <3>5
  <2>2. DevicesAgree' /\ Database'
    BY <1>11, <2>5, <2>6 DEF Onboard!Detect
  <2>4. Mounted'
    BY <1>11 DEF OnboardTypes, Disk, Dotenv, Runs, Established, Mounted, Onboard!Detect,
       Onboard!GoOn, Onboard!Asked
  <2> QED BY <2>1, <2>2, <2>4 DEF Established
<1>12. CASE Onboard!Profile
  <2>1. Workspace'
    BY <1>12 DEF OnboardTypes, Disk, Dotenv, Runs, Established, Workspace, Onboard!Profile,
       Onboard!GoOn, Onboard!Fails
  <2>2. DevicesAgree'
    BY <1>12, ProfileAgrees
  <2>3. Database'
    BY <1>12 DEF OnboardTypes, Disk, Dotenv, Runs, Established, Database, Onboard!Profile,
       Onboard!GoOn, Onboard!Fails
  <2>4. Mounted'
    BY <1>12 DEF OnboardTypes, Disk, Dotenv, Runs, Established, Mounted, Onboard!Profile,
       Onboard!GoOn, Onboard!Fails
  <2> QED BY <2>1, <2>2, <2>3, <2>4 DEF Established
<1>13. CASE Onboard!Infra
  <2>1. Workspace'
    BY <1>13 DEF OnboardTypes, Disk, Dotenv, Runs, Established, Workspace, Onboard!Infra,
       Onboard!GoOn, Onboard!Fails, Onboard!Asked, Onboard!Started
  <2>2. DevicesAgree'
    BY <1>13 DEF OnboardTypes, Disk, Dotenv, Runs, Established, DevicesAgree, Onboard!Infra,
       Onboard!GoOn, Onboard!Fails, Onboard!Asked, Onboard!Started
  <2>3. Database'
    BY <1>13 DEF OnboardTypes, Disk, Dotenv, Runs, Established, Database, Onboard!Infra,
       Onboard!GoOn, Onboard!Fails, Onboard!Asked, Onboard!Started
  <2>4. Mounted'
    BY <1>13 DEF OnboardTypes, Disk, Dotenv, Runs, Established, Mounted, Onboard!Infra,
       Onboard!GoOn, Onboard!Fails, Onboard!Asked, Onboard!Started
  <2> QED BY <2>1, <2>2, <2>3, <2>4 DEF Established
<1>14. CASE Onboard!ResetDb
  <2>1. Workspace'
    BY <1>14 DEF OnboardTypes, Disk, Dotenv, Runs, Established, Workspace, Onboard!ResetDb,
       Onboard!GoOn, Onboard!Fails
  <2>2. DevicesAgree'
    BY <1>14 DEF OnboardTypes, Disk, Dotenv, Runs, Established, DevicesAgree, Onboard!ResetDb,
       Onboard!GoOn, Onboard!Fails
  <2>3. Database'
    BY <1>14 DEF OnboardTypes, Disk, Dotenv, Runs, Established, Database, Onboard!ResetDb,
       Onboard!GoOn, Onboard!Fails
  <2>4. Mounted'
    BY <1>14 DEF OnboardTypes, Disk, Dotenv, Runs, Established, Mounted, Onboard!ResetDb,
       Onboard!GoOn, Onboard!Fails
  <2> QED BY <2>1, <2>2, <2>3, <2>4 DEF Established
<1>15. CASE Onboard!Seed
  <2>1. Workspace'
    BY <1>15 DEF OnboardTypes, Disk, Dotenv, Runs, Established, Workspace, Onboard!Seed,
       Onboard!GoOn, Onboard!Fails
  <2>2. DevicesAgree'
    BY <1>15 DEF OnboardTypes, Disk, Dotenv, Runs, Established, DevicesAgree, Onboard!Seed,
       Onboard!GoOn, Onboard!Fails
  <2>3. Database'
    BY <1>15 DEF OnboardTypes, Disk, Dotenv, Runs, Established, Database, Workspace, Onboard!Seed,
       Onboard!GoOn, Onboard!Fails
  <2>4. Mounted'
    BY <1>15 DEF OnboardTypes, Disk, Dotenv, Runs, Established, Mounted, Onboard!Seed,
       Onboard!GoOn, Onboard!Fails
  <2> QED BY <2>1, <2>2, <2>3, <2>4 DEF Established
<1>16. CASE Onboard!SaveDefault
  <2>1. Workspace'
    BY <1>16 DEF OnboardTypes, Disk, Dotenv, Runs, Established, Workspace, Onboard!SaveDefault,
       Onboard!Fails
  <2>2. DevicesAgree'
    BY <1>16 DEF OnboardTypes, Disk, Dotenv, Runs, Established, DevicesAgree, Onboard!SaveDefault,
       Onboard!Fails
  <2>3. Database'
    BY <1>16 DEF OnboardTypes, Disk, Dotenv, Runs, Established, Database, Onboard!SaveDefault,
       Onboard!Fails
  <2>4. Mounted'
    BY <1>16 DEF OnboardTypes, Disk, Dotenv, Runs, Established, Mounted, Onboard!SaveDefault,
       Onboard!Fails
  <2> QED BY <2>1, <2>2, <2>3, <2>4 DEF Established
<1>17. CASE Onboard!Edit
  <2>1. Workspace'
    BY <1>17 DEF OnboardTypes, Disk, Dotenv, Runs, Established, Workspace, Onboard!Edit,
       Onboard!Started
  <2>2. DevicesAgree'
    BY <1>17 DEF OnboardTypes, Disk, Dotenv, Runs, Established, DevicesAgree, Onboard!Edit,
       Onboard!Started
  <2>3. Database'
    BY <1>17 DEF OnboardTypes, Disk, Dotenv, Runs, Established, Database, Onboard!Edit,
       Onboard!Started
  <2>4. Mounted'
    BY <1>17 DEF OnboardTypes, Disk, Dotenv, Runs, Established, Mounted, Onboard!Edit,
       Onboard!Started
  <2> QED BY <2>1, <2>2, <2>3, <2>4 DEF Established
<1> QED BY <1>1, <1>2, <1>3, <1>4, <1>5, <1>6, <1>7, <1>8, <1>9, <1>10, <1>11, <1>12, <1>13,
   <1>14, <1>15, <1>16, <1>17 DEF Onboard!Next
\* No step takes the credential of a mounted model away.
LEMMA CredentialsStep ==
    ASSUME OnboardTypes, Established, Onboard!CredentialsThere, Onboard!Next
    PROVE  Onboard!CredentialsThere'
<1> USE DEF FromVenv, FromDefaults, FromModels, FromConfig, FromDetect, FromInfra, FromReset
<1>1. CASE Onboard!Begin
  BY <1>1 DEF OnboardTypes, Disk, Dotenv, Runs, Onboard!CredentialsThere, Onboard!Begin,
     Onboard!NewRun
<1>2. CASE Onboard!Clone
  BY <1>2 DEF OnboardTypes, Disk, Dotenv, Runs, Onboard!CredentialsThere, Onboard!Clone,
     Onboard!GoOn, Onboard!Fails
<1>3. CASE Onboard!Virtualenv
  BY <1>3 DEF OnboardTypes, Disk, Dotenv, Runs, Onboard!CredentialsThere, Onboard!Virtualenv,
     Onboard!GoOn, Onboard!Fails
<1>4. CASE Onboard!CopyEnv
  BY <1>4 DEF OnboardTypes, Disk, Dotenv, Runs, Onboard!CredentialsThere, Established, Workspace,
     Mounted, Onboard!CopyEnv, Onboard!GoOn, Onboard!Example, Onboard!NoFile
<1>5. CASE Onboard!NotificationDefaults
  BY <1>5 DEF OnboardTypes, Disk, Dotenv, Runs, Onboard!CredentialsThere,
     Onboard!NotificationDefaults, Onboard!GoOn
<1>6. CASE Onboard!Notifications
  BY <1>6 DEF OnboardTypes, Disk, Dotenv, Runs, Onboard!CredentialsThere, Onboard!Notifications,
     Onboard!GoOn
<1>7. CASE Onboard!Models
  BY <1>7 DEF OnboardTypes, Disk, Dotenv, Runs, Onboard!CredentialsThere, Onboard!Models,
     Onboard!GoOn, Onboard!Fails
<1>8. CASE Onboard!CopyConfig
  BY <1>8 DEF OnboardTypes, Disk, Dotenv, Runs, Onboard!CredentialsThere, Onboard!CopyConfig,
     Onboard!GoOn
<1>9. CASE Onboard!Requirements
  BY <1>9 DEF OnboardTypes, Disk, Dotenv, Runs, Onboard!CredentialsThere, Onboard!Requirements,
     Onboard!GoOn, Onboard!Fails, Onboard!Asked
<1>10. CASE Onboard!Mount
  BY <1>10 DEF OnboardTypes, Disk, Dotenv, Runs, Onboard!CredentialsThere, Established, Mounted,
     Onboard!Mount, Onboard!GoOn
<1>11. CASE Onboard!Detect
  BY <1>11 DEF OnboardTypes, Disk, Dotenv, Runs, Onboard!CredentialsThere, Onboard!Detect,
     Onboard!GoOn, Onboard!Asked
<1>12. CASE Onboard!Profile
  BY <1>12 DEF OnboardTypes, Disk, Dotenv, Runs, Onboard!CredentialsThere, Onboard!Profile,
     Onboard!GoOn, Onboard!Fails
<1>13. CASE Onboard!Infra
  BY <1>13 DEF OnboardTypes, Disk, Dotenv, Runs, Onboard!CredentialsThere, Onboard!Infra,
     Onboard!GoOn, Onboard!Fails, Onboard!Asked, Onboard!Started
<1>14. CASE Onboard!ResetDb
  BY <1>14 DEF OnboardTypes, Disk, Dotenv, Runs, Onboard!CredentialsThere, Onboard!ResetDb,
     Onboard!GoOn, Onboard!Fails
<1>15. CASE Onboard!Seed
  BY <1>15 DEF OnboardTypes, Disk, Dotenv, Runs, Onboard!CredentialsThere, Onboard!Seed,
     Onboard!GoOn, Onboard!Fails
<1>16. CASE Onboard!SaveDefault
  BY <1>16 DEF OnboardTypes, Disk, Dotenv, Runs, Onboard!CredentialsThere, Onboard!SaveDefault,
     Onboard!Fails
<1>17. CASE Onboard!Edit
  <2>1. CASE rewritten' = TRUE
    BY <2>1 DEF Onboard!CredentialsThere
  <2>2. CASE workspace' = Onboard!Started /\ UNCHANGED <<dotenv, rewritten>>
    <3>1. workspace'.mounted = workspace.mounted
      BY <2>2 DEF OnboardTypes, Disk, Onboard!Started
    <3> QED BY <2>2, <3>1 DEF Onboard!CredentialsThere
  <2> QED BY <1>17, <2>1, <2>2 DEF Onboard!Edit
<1> QED BY <1>1, <1>2, <1>3, <1>4, <1>5, <1>6, <1>7, <1>8, <1>9, <1>10, <1>11, <1>12, <1>13,
   <1>14, <1>15, <1>16, <1>17 DEF Onboard!Next

\* A run that succeeds is complete.
LEMMA CompleteStep ==
    ASSUME OnboardTypes, Established, Onboard!Next
    PROVE  Onboard!Complete'
<1> SUFFICES ASSUME step' = "idle", result' = "done" PROVE Onboard!Complete'
  BY DEF Onboard!Complete
<1>1. Onboard!SaveDefault /\ step = "save" /\ workspace' = [workspace EXCEPT !.default = TRUE]
          /\ UNCHANGED <<dotenv, run>>
  BY DEF Onboard!Next, Onboard!Begin, Onboard!Clone, Onboard!Virtualenv, Onboard!CopyEnv,
     Onboard!NotificationDefaults, Onboard!Notifications, Onboard!Models, Onboard!CopyConfig,
     Onboard!Requirements, Onboard!Mount, Onboard!Detect, Onboard!Profile, Onboard!Infra,
     Onboard!ResetDb, Onboard!Seed, Onboard!SaveDefault, Onboard!Edit, Onboard!GoOn, Onboard!Fails
<1> QED
  BY <1>1 DEF OnboardTypes, Disk, Onboard!Complete, Established, Workspace, DevicesAgree,
     Database, Mounted, FromVenv, FromDefaults, FromModels, FromConfig, FromDetect, FromInfra,
     FromReset

\* Before the first run nothing is promised.
LEMMA OnboardStarting == Onboard!Init => OnboardInvariant
<1> SUFFICES ASSUME Onboard!Init PROVE OnboardInvariant
  OBVIOUS
<1>1. OnboardTypes
  <2>1. Onboard!Nothing("none") \in Disk /\ Onboard!Nothing("other") \in Disk
    BY DEF Onboard!Nothing, Disk, Devices, Passwords
  <2>2. Onboard!NoFile \in Dotenv
    BY DEF Onboard!NoFile, Dotenv, Devices, Passwords
  <2>3. Onboard!NewRun \in Runs
    BY DEF Onboard!NewRun, Runs, Devices
  <2> QED BY <2>1, <2>2, <2>3 DEF Onboard!Init, OnboardTypes
<1>2. Established
  BY DEF Onboard!Init, Established, Workspace, DevicesAgree, Database, Mounted, Onboard!Nothing,
     Onboard!NewRun, FromVenv, FromDefaults, FromModels, FromConfig, FromDetect, FromInfra,
     FromReset
<1>3. Onboard!CredentialsThere /\ Onboard!Complete
  BY DEF Onboard!Init, Onboard!CredentialsThere, Onboard!Complete, Onboard!Nothing
<1> QED BY <1>1, <1>2, <1>3 DEF OnboardInvariant

\* The same when nothing changes.
LEMMA OnboardKeeping == OnboardInvariant
          /\ [Onboard!Next]_(Onboard!onboardVars) => OnboardInvariant'
<1>1. CASE Onboard!Next
  BY <1>1, OnboardTypesStep, EstablishedStep, CredentialsStep, CompleteStep DEF OnboardInvariant
<1>2. CASE UNCHANGED Onboard!onboardVars
  BY <1>2 DEF OnboardInvariant, OnboardTypes, Established, Workspace, DevicesAgree, Database,
     Mounted, Onboard!CredentialsThere, Onboard!Complete, Onboard!onboardVars
<1> QED BY <1>1, <1>2

\* Onboarding may be run again until it succeeds: whatever earlier runs left behind, what
\* a run that succeeds was asked for is there and agrees, and no model is mounted without
\* the credential it needs.
THEOREM OnboardedAgain == Onboard!Spec => []Onboarded
<1>1. Onboard!Spec => []OnboardInvariant
  BY OnboardStarting, OnboardKeeping, PTL DEF Onboard!Spec
<1>2. OnboardInvariant => Onboarded
  BY DEF OnboardInvariant, Onboard!Onboarded, Onboarded
<1> QED BY <1>1, <1>2, PTL

-----------------------------------------------------------------------------
(* ModelLogs: the ranks of the rows, newest first, only grow by what is written, and *)
(* what is pruned ranks behind every row that stays.                                 *)

\* The types; rows that were there all the time still are.
LogTypes ==
    /\ last_log \in 0..MaxLogs /\ live \subseteq 1..last_log
    /\ doing \in [LogWriters -> {"nothing", "writing", "looking", "pruning"}]
    /\ created \in [LogWriters -> 0..last_log]
    /\ stale \in [LogWriters -> SUBSET (1..last_log)]
    /\ log_page \in Nat /\ total \in 0..Logs!NotCounted /\ shifted \in BOOLEAN
    /\ there \subseteq live

\* A row that is being written is nobody else's, and no prune has found it.
Fresh ==
    \A w \in LogWriters : doing[w] = "writing" =>
        /\ created[w] \in 1..last_log /\ created[w] \notin live
        /\ \A v \in LogWriters :
               /\ created[w] \notin stale[v]
               /\ v # w /\ doing[v] = "writing" => created[v] # created[w]

\* What a prune has found, and is there still, comes after the newest RetainMax rows.
FoundStale ==
    \A w \in LogWriters : \A r \in stale[w] \cap live : Logs!Rank(r, live) > RetainMax

\* The pages before the present one were shown; the count is not too low.
Paged ==
    /\ log_page = 0 => total = Logs!NotCounted /\ (~shifted => there \subseteq shown)
    /\ log_page > 0 /\ ~shifted => \A r \in there :
           Logs!Rank(r, live) <= (log_page - 1) * PageSize => r \in shown
    /\ total # Logs!NotCounted /\ ~shifted => Cardinality(live) <= total

LogInvariant == LogTypes /\ Fresh /\ FoundStale /\ Paged

-----------------------------------------------------------------------------
\* The operators that the component's module takes from the libraries are those of here.
LEMMA LogsCardinality == \A S : Logs!Cardinality(S) = Cardinality(S)
  BY DEF Logs!Cardinality, Cardinality

\* Rows are finitely many, and so are those newer than one.
LEMMA RowsAreFinite ==
    ASSUME LogTypes
    PROVE  /\ IsFiniteSet(live) /\ Cardinality(live) \in 0..MaxLogs
           /\ \A R \in SUBSET live : IsFiniteSet(R) /\ Cardinality(R) \in Nat
           /\ live \subseteq Nat /\ last_log \in Nat
<1>1. IsFiniteSet(1..last_log) /\ Cardinality(1..last_log) = last_log /\ last_log \in Nat
          /\ last_log <= MaxLogs
      /\ MaxLogs \in Nat
  <2>1. last_log \in Nat /\ last_log <= MaxLogs /\ MaxLogs \in Nat
    BY PartsAssumption DEF LogTypes
  <2>2. last_log = IF 1 > last_log THEN 0 ELSE last_log - 1 + 1
    BY <2>1
  <2> QED BY <2>1, <2>2, FS_Interval
<1>2. live \subseteq 1..last_log
  BY DEF LogTypes
<1>3. IsFiniteSet(live) /\ Cardinality(live) <= last_log
  BY <1>1, <1>2, FS_Subset
<1>4. Cardinality(live) \in Nat
  BY <1>3, FS_CardinalityType
<1>5. ASSUME NEW R \in SUBSET live PROVE IsFiniteSet(R) /\ Cardinality(R) \in Nat
  BY <1>3, FS_Subset, FS_CardinalityType
<1> QED BY <1>1, <1>2, <1>3, <1>4, <1>5

\* No row has a rank beyond the number of rows.
LEMMA RankIsBounded ==
    ASSUME NEW R, R \subseteq Nat, IsFiniteSet(R), NEW r \in R
    PROVE  Logs!Rank(r, R) \in Nat /\ Logs!Rank(r, R) <= Cardinality(R)
<1> DEFINE newer == {q \in R : q > r}
<1>1. newer \subseteq R \ {r} /\ r \notin newer
  OBVIOUS
<1>2. IsFiniteSet(newer) /\ Cardinality(newer) \in Nat
  BY <1>1, FS_Subset, FS_CardinalityType
<1>3. /\ IsFiniteSet(R \ {r}) /\ Cardinality(R \ {r}) = Cardinality(R) - 1
      /\ Cardinality(R) \in Nat
  BY FS_RemoveElement, FS_CardinalityType
<1>4. Cardinality(newer) <= Cardinality(R \ {r})
  BY <1>1, <1>3, FS_Subset
<1> QED BY LogsCardinality, <1>2, <1>3, <1>4 DEF Logs!Rank

\* An older row has a higher rank.
LEMMA OlderRanksHigher ==
    ASSUME NEW R, R \subseteq Nat, IsFiniteSet(R), NEW r \in R, NEW q \in R, q > r
    PROVE  Logs!Rank(q, R) < Logs!Rank(r, R)
<1> DEFINE newer(x) == {k \in R : k > x}
<1>1. newer(q) \subseteq newer(r) \ {q} /\ q \in newer(r)
  <2>1. ASSUME NEW k \in R, k > q PROVE k > r /\ k # q
    <3>1. k \in Nat /\ q \in Nat /\ r \in Nat
      OBVIOUS
    <3> QED BY <2>1, <3>1
  <2> QED BY <2>1
<1>2. IsFiniteSet(newer(r)) /\ IsFiniteSet(newer(q))
  BY FS_Subset
<1>3. /\ IsFiniteSet(newer(r) \ {q}) /\ Cardinality(newer(r) \ {q}) = Cardinality(newer(r)) - 1
  BY <1>1, <1>2, FS_RemoveElement
<1>4. Cardinality(newer(q)) <= Cardinality(newer(r)) - 1
  BY <1>1, <1>3, FS_Subset
<1>5. Cardinality(newer(q)) \in Nat /\ Cardinality(newer(r)) \in Nat
  BY <1>2, FS_CardinalityType
<1> QED BY LogsCardinality, <1>4, <1>5 DEF Logs!Rank

\* The order of the numbers as a set of pairs.
LessThan == {pair \in Nat \X Nat : pair[1] < pair[2]}

\* A nonempty set of numbers has a least.
LEMMA LeastExists ==
    ASSUME NEW S, S \subseteq Nat, S # {}
    PROVE  \E m \in S : \A k \in S : m <= k
<1>1. IsWellFoundedOn(LessThan, Nat)
  BY NatLessThanWellFounded, Zenon DEF OpToRel, LessThan
<1>2. PICK m \in S : \A k \in S : ~(<<k, m>> \in LessThan)
  BY <1>1, WFMin
<1>3. \A k \in S : k \in Nat /\ m \in Nat /\ ~(k < m)
  BY <1>2 DEF LessThan
<1> QED BY <1>3

\* The cameras of a batch are taken up to the greatest index: one more at a time.
LEMMA GreatestExists ==
    ASSUME NEW n \in Nat, NEW S, S \subseteq 1..n, S # {}
    PROVE  \E m \in S : \A k \in S : m >= k
<1> DEFINE T == {n - k : k \in S}
<1>1. T \subseteq Nat /\ T # {}
  <2>1. \A k \in S : k \in Nat /\ n - k \in Nat
    OBVIOUS
  <2> QED BY <2>1
<1>2. PICK l \in T : \A x \in T : l <= x
  BY <1>1, LeastExists
<1>3. PICK m \in S : l = n - m
  BY <1>2
<1>4. \A k \in S : m >= k
  <2>1. ASSUME NEW k \in S PROVE m >= k
    <3>1. n - k \in T /\ n - m <= n - k
      BY <1>2, <1>3
    <3> QED BY <3>1
  <2> QED BY <2>1
<1> QED BY <1>4

-----------------------------------------------------------------------------
\* Every step keeps the types.
LEMMA LogTypesStep == ASSUME LogTypes, Fresh, Logs!Next PROVE LogTypes'
<1> USE DEF LogTypes, Logs!workerVars, Logs!readerVars, Logs!Goes
<1>0. /\ last_log \in Nat /\ MaxLogs \in Nat /\ Cardinality(live) \in 0..MaxLogs /\ log_page \in Nat
      /\ 0..last_log \subseteq 0..(last_log + 1) /\ 1..last_log \subseteq 1..(last_log + 1)
      /\ 0 \in 0..last_log
  BY PartsAssumption, RowsAreFinite
<1>1. ASSUME NEW w \in LogWriters, Logs!Begin(w) PROVE LogTypes'
  <2>1. /\ last_log' = last_log + 1 /\ last_log' \in 0..MaxLogs
        /\ created' = [created EXCEPT ![w] = last_log'] /\ doing' = [doing EXCEPT ![w] = "writing"]
        /\ UNCHANGED <<live, stale, log_page, total, shifted, there>>
    BY <1>0, <1>1 DEF Logs!Begin
  <2>2. created' \in [LogWriters -> 0..last_log'] /\ stale' \in [LogWriters -> SUBSET (1..last_log')]
    BY <1>0, <2>1
  <2> QED BY <1>0, <2>1, <2>2
<1>2. ASSUME NEW w \in LogWriters, Logs!CommitFails(w) \/ Logs!PruneFails(w) \/ Logs!StartAgain(w)
      PROVE  LogTypes'
  BY <1>0, <1>2 DEF Logs!CommitFails, Logs!PruneFails, Logs!StartAgain
<1>3. ASSUME NEW w \in LogWriters, Logs!FindStale(w) PROVE LogTypes'
  <2>1. /\ stale' = [stale EXCEPT ![w] = {r \in live : RetainMax > 0 /\ Logs!Rank(r, live) > RetainMax}]
        /\ doing' = [doing EXCEPT ![w] = "pruning"]
        /\ UNCHANGED <<last_log, live, created, log_page, total, shifted, there>>
    BY <1>3 DEF Logs!FindStale
  <2>2. {r \in live : RetainMax > 0 /\ Logs!Rank(r, live) > RetainMax} \in SUBSET (1..last_log)
    OBVIOUS
  <2> QED BY <2>1, <2>2
<1>4. ASSUME NEW w \in LogWriters, Logs!Prune(w) PROVE LogTypes'
  <2>1. /\ live' = live \ stale[w] /\ there' = there \ stale[w]
        /\ stale' = [stale EXCEPT ![w] = {}] /\ doing' = [doing EXCEPT ![w] = "nothing"]
        /\ shifted' \in BOOLEAN /\ UNCHANGED <<last_log, created, log_page, total>>
    BY <1>4 DEF Logs!Prune, Logs!Rising
  <2> QED BY <2>1
<1>5. ASSUME NEW w \in LogWriters, Logs!Commit(w) PROVE LogTypes'
  <2>1. /\ live' = live \cup {created[w]} /\ created[w] \in 1..last_log
        /\ created' = [created EXCEPT ![w] = 0]
        /\ shifted' \in BOOLEAN /\ UNCHANGED <<last_log, stale, log_page, total, there>>
    BY <1>5 DEF Logs!Commit, Fresh
  <2>2. doing' \in [LogWriters -> {"nothing", "writing", "looking", "pruning"}]
    BY <1>5 DEF Logs!Commit
  <2> QED BY <1>0, <2>1, <2>2
<1>6. CASE Logs!Open
  BY <1>0, <1>6 DEF Logs!Open
<1>7. CASE Logs!Count
  <2>1. total' \in 0..Logs!NotCounted
    BY LogsCardinality, <1>0, <1>7 DEF Logs!Count, Logs!NotCounted
  <2>2. UNCHANGED <<last_log, live, doing, created, stale, log_page, shifted, there>>
    BY LogsCardinality, <1>7 DEF Logs!Count
  <2> QED BY <2>1, <2>2
<1>8. CASE Logs!GetPage
  <2>1. total' \in 0..Logs!NotCounted /\ log_page' \in Nat
    BY <1>0, <1>8 DEF Logs!GetPage, Logs!NotCounted
  <2> QED BY <1>8, <2>1 DEF Logs!GetPage
<1> QED BY <1>1, <1>2, <1>3, <1>4, <1>5, <1>6, <1>7, <1>8 DEF Logs!Next, Logs!Works

\* The reader changes nothing that the workers have.
LEMMA ReaderReads ==
    ASSUME Logs!Open \/ Logs!Count \/ Logs!GetPage
    PROVE  UNCHANGED <<last_log, live, doing, created, stale>>
  BY LogsCardinality DEF Logs!Open, Logs!Count, Logs!GetPage, Logs!workerVars

\* A row being written stays its writer's own until it is there.
LEMMA FreshStep == ASSUME LogTypes, Fresh, Logs!Next PROVE Fresh'
<1>0. last_log \in Nat
  BY RowsAreFinite
<1>1. ASSUME NEW w \in LogWriters, Logs!Begin(w) PROVE Fresh'
  <2>1. /\ last_log' = last_log + 1
        /\ \A v \in LogWriters : created'[v] = IF v = w THEN last_log' ELSE created[v]
        /\ \A v \in LogWriters : doing'[v] = IF v = w THEN "writing" ELSE doing[v]
        /\ UNCHANGED <<live, stale>>
    BY <1>1 DEF Logs!Begin, Logs!Goes, LogTypes
  <2>2. /\ last_log' \in 1..last_log' /\ last_log' \notin live /\ 1..last_log \subseteq 1..last_log'
        /\ \A v \in LogWriters : last_log' \notin stale[v] /\ created[v] # last_log'
    BY <1>0, <2>1 DEF LogTypes
  <2> QED BY <2>1, <2>2 DEF Fresh
<1>2. ASSUME NEW w \in LogWriters, Logs!Commit(w) PROVE Fresh'
  <2>1. /\ doing[w] = "writing" /\ doing'[w] # "writing" /\ live' = live \cup {created[w]}
        /\ \A v \in LogWriters : v # w => doing'[v] = doing[v] /\ created'[v] = created[v]
        /\ UNCHANGED <<last_log, stale>>
    BY <1>2 DEF Logs!Commit, Logs!Goes, LogTypes
  <2> QED BY <2>1 DEF Fresh
<1>3. ASSUME NEW w \in LogWriters, Logs!CommitFails(w) \/ Logs!PruneFails(w) \/ Logs!StartAgain(w)
                                   \/ Logs!Prune(w) \/ Logs!FindStale(w)
      PROVE  Fresh'
  <2>1. /\ doing'[w] # "writing" /\ live' \subseteq live /\ stale'[w] \subseteq stale[w] \cup live
        /\ \A v \in LogWriters : v # w =>
               doing'[v] = doing[v] /\ created'[v] = created[v] /\ stale'[v] = stale[v]
        /\ UNCHANGED last_log
    BY <1>3 DEF Logs!CommitFails, Logs!PruneFails, Logs!StartAgain, Logs!Prune, Logs!FindStale,
       Logs!Goes, LogTypes
  <2> QED BY <2>1 DEF Fresh
<1>4. CASE Logs!Open \/ Logs!Count \/ Logs!GetPage
  BY <1>4, ReaderReads DEF Fresh
<1> QED BY <1>1, <1>2, <1>3, <1>4 DEF Logs!Next, Logs!Works

\* A row that is written makes no rank fall.
LEMMA WritingRaisesRanks ==
    ASSUME LogTypes, NEW w \in LogWriters, Logs!Commit(w), NEW r \in live
    PROVE  Logs!Rank(r, live) <= Logs!Rank(r, live')
<1> DEFINE newer(R) == {q \in R : q > r}
<1>1. live' = live \cup {created[w]}
  BY DEF Logs!Commit
<1>2. newer(live) \subseteq newer(live')
  BY <1>1
<1>3. IsFiniteSet(live')
  BY <1>1, RowsAreFinite, FS_AddElement
<1>4. IsFiniteSet(newer(live')) /\ IsFiniteSet(newer(live))
  BY <1>3, RowsAreFinite, FS_Subset
<1>5. Cardinality(newer(live)) <= Cardinality(newer(live'))
  BY <1>2, <1>4, FS_Subset
<1>6. Cardinality(newer(live)) \in Nat /\ Cardinality(newer(live')) \in Nat
  BY <1>4, FS_CardinalityType
<1> QED BY LogsCardinality, <1>5, <1>6 DEF Logs!Rank

\* If no row is to rise, what is pruned is behind what stays: no rank of that changes.
LEMMA PruningKeepsRanks ==
    ASSUME LogTypes, NEW w \in LogWriters, Logs!Prune(w), ~Logs!Rising(w), NEW r \in live'
    PROVE  r \in live /\ Logs!Rank(r, live') = Logs!Rank(r, live)
<1>1. live' = live \ stale[w] /\ r \in live \ stale[w]
  BY DEF Logs!Prune
<1>2. ASSUME NEW q \in live, q > r PROVE q \in live'
  <2>1. q \in Nat /\ r \in Nat
    BY <1>1, RowsAreFinite
  <2> QED BY <1>1, <1>2, <2>1 DEF Logs!Rising
<1>3. {q \in live' : q > r} = {q \in live : q > r}
  BY <1>1, <1>2
<1> QED BY <1>1, <1>3 DEF Logs!Rank

\* The newest rows are not pruned, so that who came after them still does.
LEMMA PruningKeepsTheNewest ==
    ASSUME LogTypes, FoundStale, NEW w \in LogWriters, Logs!Prune(w),
           NEW r \in live', Logs!Rank(r, live) > RetainMax
    PROVE  Logs!Rank(r, live') > RetainMax
<1> DEFINE newer(x, R) == {q \in R : q > x}
           passed == newer(r, live) \cap stale[w]
<1>1. live' = live \ stale[w] /\ r \in live /\ RetainMax \in Nat
  BY PartsAssumption DEF Logs!Prune
<1>2. /\ IsFiniteSet(live) /\ live \subseteq Nat /\ live \subseteq 1..last_log /\ last_log \in Nat
      /\ live' \subseteq live
  BY <1>1, RowsAreFinite DEF LogTypes
<1>3. ASSUME NEW R \in SUBSET live, NEW x \in live
      PROVE  IsFiniteSet(newer(x, R)) /\ Cardinality(newer(x, R)) \in Nat
  <2>1. newer(x, R) \subseteq live
    OBVIOUS
  <2> QED BY <1>2, <2>1, FS_Subset, FS_CardinalityType
<1>4. CASE passed = {}
  <2>1. newer(r, live') = newer(r, live)
    BY <1>1, <1>4
  <2> QED BY <2>1 DEF Logs!Rank
<1>5. CASE passed # {}
  <2>1. passed \subseteq 1..last_log
    BY <1>2
  <2>2. PICK m \in passed : \A k \in passed : m >= k
    BY <1>2, <1>5, <2>1, GreatestExists
  <2>3. m \in live /\ m \in stale[w] /\ m > r /\ Logs!Rank(m, live) > RetainMax
    BY <2>2 DEF FoundStale
  <2>4. newer(m, live) \subseteq newer(r, live')
    <3> SUFFICES ASSUME NEW q \in live, q > m PROVE q \in live' /\ q > r
      BY <1>1
    <3>1. q \in Nat /\ m \in Nat /\ r \in Nat
      BY <1>1, <1>2, <2>3
    <3>2. q > r
      BY <2>3, <3>1
    <3>3. q \notin passed
      BY <2>2, <3>1
    <3> QED BY <1>1, <3>2, <3>3
  <2>5. /\ Cardinality(newer(m, live)) <= Cardinality(newer(r, live'))
        /\ Cardinality(newer(m, live)) \in Nat /\ Cardinality(newer(r, live')) \in Nat
    BY <1>1, <1>2, <1>3, <2>3, <2>4, FS_Subset
  <2>6. Cardinality(newer(m, live)) + 1 > RetainMax
    BY LogsCardinality, <2>3 DEF Logs!Rank
  <2> QED BY LogsCardinality, <1>1, <2>5, <2>6 DEF Logs!Rank
<1> QED BY <1>4, <1>5

\* What a prune has found stays behind the newest rows until it is done.
LEMMA FoundStaleStep == ASSUME LogTypes, Fresh, FoundStale, Logs!Next PROVE FoundStale'
<1>0. RetainMax \in Nat /\ IsFiniteSet(live) /\ live \subseteq Nat
  BY PartsAssumption, RowsAreFinite
<1>1. ASSUME NEW w \in LogWriters,
             Logs!Begin(w) \/ Logs!CommitFails(w) \/ Logs!PruneFails(w) \/ Logs!StartAgain(w)
      PROVE  FoundStale'
  <2>1. live' = live /\ \A v \in LogWriters : stale'[v] \subseteq stale[v]
    BY <1>1 DEF Logs!Begin, Logs!CommitFails, Logs!PruneFails, Logs!StartAgain, LogTypes
  <2> QED BY <2>1 DEF FoundStale
<1>2. ASSUME NEW w \in LogWriters, Logs!Commit(w) PROVE FoundStale'
  <2>1. live' = live \cup {created[w]} /\ doing[w] = "writing" /\ stale' = stale
    BY <1>2 DEF Logs!Commit
  <2>2. ASSUME NEW v \in LogWriters, NEW r \in stale[v] \cap live'
        PROVE  Logs!Rank(r, live') > RetainMax
    <3>1. r \in live
      BY <2>1, <2>2 DEF Fresh
    <3>2. Logs!Rank(r, live) > RetainMax /\ Logs!Rank(r, live) <= Logs!Rank(r, live')
      BY <1>2, <2>2, <3>1, WritingRaisesRanks DEF FoundStale
    <3>3. created[w] \in Nat
      BY RowsAreFinite DEF LogTypes
    <3>4. live' \subseteq Nat /\ IsFiniteSet(live')
      BY <1>0, <2>1, <3>3, FS_AddElement
    <3>5. Logs!Rank(r, live) \in Nat /\ Logs!Rank(r, live') \in Nat
      BY <1>0, <2>2, <3>1, <3>4, RankIsBounded
    <3> QED BY <1>0, <3>2, <3>5
  <2> QED BY <2>1, <2>2 DEF FoundStale
<1>3. ASSUME NEW w \in LogWriters, Logs!FindStale(w) PROVE FoundStale'
  <2>1. /\ live' = live
        /\ \A r \in stale'[w] : Logs!Rank(r, live) > RetainMax
        /\ \A v \in LogWriters : v # w => stale'[v] = stale[v]
    BY <1>3 DEF Logs!FindStale, LogTypes
  <2> QED BY <2>1 DEF FoundStale
<1>4. ASSUME NEW w \in LogWriters, Logs!Prune(w) PROVE FoundStale'
  <2>1. live' \subseteq live /\ \A v \in LogWriters : stale'[v] \subseteq stale[v]
    BY <1>4 DEF Logs!Prune, LogTypes
  <2>2. ASSUME NEW v \in LogWriters, NEW r \in stale'[v] \cap live'
        PROVE  Logs!Rank(r, live') > RetainMax
    BY <1>4, <2>1, PruningKeepsTheNewest DEF FoundStale
  <2> QED BY <2>2 DEF FoundStale
<1>5. CASE Logs!Open \/ Logs!Count \/ Logs!GetPage
  BY <1>5, ReaderReads DEF FoundStale
<1> QED BY <1>1, <1>2, <1>3, <1>4, <1>5 DEF Logs!Next, Logs!Works

\* The pages follow one another, whatever comes in front of them and goes behind them.
LEMMA PagedStep == ASSUME LogInvariant, Logs!Next PROVE Paged'
<1>0. /\ LogTypes /\ Fresh /\ FoundStale /\ Paged /\ there \subseteq live /\ live \subseteq Nat
      /\ IsFiniteSet(live) /\ Cardinality(live) \in 0..MaxLogs /\ MaxLogs \in Nat
      /\ PageSize \in Nat /\ log_page \in Nat /\ total \in 0..Logs!NotCounted
  BY RowsAreFinite, PartsAssumption DEF LogInvariant, LogTypes
<1>1. \A r \in live : Logs!Rank(r, live) \in Nat /\ Logs!Rank(r, live) <= Cardinality(live)
  BY <1>0, RankIsBounded
<1>2. ASSUME NEW w \in LogWriters, Logs!Commit(w) PROVE Paged'
  <2>1. UNCHANGED <<log_page, total, shown, there>>
            /\ shifted' = (shifted \/ total # Logs!NotCounted)
    BY <1>2 DEF Logs!Commit, Logs!readerVars
  <2>2. live' \subseteq Nat /\ IsFiniteSet(live') /\ live \subseteq live'
    <3>1. live' = live \cup {created[w]} /\ created[w] \in Nat
      BY <1>0, <1>2, RowsAreFinite DEF Logs!Commit, LogTypes
    <3> QED BY <1>0, <3>1, FS_AddElement
  <2>3. \A r \in there : r \in live /\ r \in live'
    BY <1>0, <2>2
  <2>4. \A r \in there : Logs!Rank(r, live') \in Nat
    BY <2>2, <2>3, RankIsBounded
  <2>5. \A r \in there : Logs!Rank(r, live) <= Logs!Rank(r, live')
    BY <1>0, <1>2, <2>3, WritingRaisesRanks
  <2>6. (log_page - 1) * PageSize \in Int
    BY <1>0
  <2>7. ASSUME NEW r \in there, Logs!Rank(r, live') <= (log_page - 1) * PageSize,
            log_page > 0, ~shifted PROVE r \in shown
    <3> DEFINE n == (log_page - 1) * PageSize
    <3>1. Logs!Rank(r, live) <= n
      <4>1. n \in Int /\ Logs!Rank(r, live') <= n
        BY <2>6, <2>7
      <4> HIDE DEF n
      <4> QED BY <1>1, <2>3, <2>4, <2>5, <4>1
    <3> QED BY <1>0, <2>7, <3>1 DEF Paged
  <2> QED BY <1>0, <2>1, <2>7 DEF Paged
<1>3. ASSUME NEW w \in LogWriters, Logs!Prune(w) PROVE Paged'
  <2>1. /\ UNCHANGED <<log_page, total, shown>> /\ there' = there \ stale[w]
        /\ live' = live \ stale[w] /\ shifted' = (shifted \/ Logs!Rising(w))
    BY <1>3 DEF Logs!Prune, Logs!readerVars
  <2>2. ~shifted' => \A r \in there' : r \in there /\ Logs!Rank(r, live') = Logs!Rank(r, live)
    <3> SUFFICES ASSUME ~shifted', NEW r \in there'
                 PROVE  r \in there /\ Logs!Rank(r, live') = Logs!Rank(r, live)
      OBVIOUS
    <3>1. r \in there /\ r \in live' /\ ~Logs!Rising(w)
      BY <1>0, <2>1
    <3> QED BY <1>0, <1>3, <3>1, PruningKeepsRanks
  <2>3. Cardinality(live') \in Nat /\ Cardinality(live') <= Cardinality(live)
    BY <1>0, <2>1, FS_Subset, FS_CardinalityType
  <2>4. total # Logs!NotCounted /\ ~shifted => Cardinality(live') <= total
    BY <1>0, <2>3 DEF Paged, Logs!NotCounted
  <2> QED BY <1>0, <2>1, <2>2, <2>4 DEF Paged
<1>4. ASSUME NEW w \in LogWriters,
             Logs!Begin(w) \/ Logs!CommitFails(w) \/ Logs!FindStale(w) \/ Logs!PruneFails(w)
             \/ Logs!StartAgain(w)
      PROVE  Paged'
  <2>1. UNCHANGED <<live, log_page, total, shown, there, shifted>>
    BY <1>4 DEF Logs!Begin, Logs!CommitFails, Logs!FindStale, Logs!PruneFails, Logs!StartAgain,
       Logs!readerVars
  <2> QED BY <1>0, <2>1 DEF Paged
<1>5. CASE Logs!Open
  <2>1. log_page = 0 /\ log_page' = 1 /\ UNCHANGED <<live, total>> /\ there' = live
    BY <1>5 DEF Logs!Open, Logs!workerVars
  <2>2. \A r \in there' : ~(Logs!Rank(r, live') <= (log_page' - 1) * PageSize)
    <3>1. (log_page' - 1) * PageSize = 0
      BY <1>0, <2>1
    <3>2. \A r \in live : Logs!Rank(r, live) # 0
      <4> TAKE r \in live
      <4>1. Cardinality({q \in live : q > r}) \in Nat
        BY RowsAreFinite, <1>0
      <4> QED BY LogsCardinality, <4>1 DEF Logs!Rank
    <3> QED BY <1>1, <2>1, <3>1, <3>2
  <2>3. total = Logs!NotCounted
    BY <1>0, <2>1 DEF Paged
  <2> QED BY <2>1, <2>2, <2>3 DEF Paged
<1>6. CASE Logs!Count
  <2>1. /\ log_page > 0 /\ total' = Cardinality(live)
        /\ UNCHANGED <<live, log_page, shown, there, shifted>>
    BY LogsCardinality, <1>6 DEF Logs!Count, Logs!workerVars
  <2> QED BY <1>0, <2>1 DEF Paged
<1>7. CASE Logs!GetPage
  <2> DEFINE n == log_page * PageSize
  <2>1. /\ total # Logs!NotCounted /\ total' = Logs!NotCounted
            /\ shown' = shown \cup Logs!OnPage(log_page, live)
        /\ log_page' = (IF n < total THEN log_page + 1 ELSE 0) /\ UNCHANGED <<live, there, shifted>>
    BY <1>7 DEF Logs!GetPage, Logs!HasMore, Logs!workerVars
  <2>2. log_page > 0
    BY <1>0, <2>1 DEF Paged
  <2>3. n \in Nat /\ (log_page - 1) * PageSize \in Int
    BY <1>0
  <2>4. ASSUME NEW r \in there, Logs!Rank(r, live) <= n, ~shifted PROVE r \in shown'
    <3>1. r \in live /\ Logs!Rank(r, live) \in Nat
      BY <1>0, <1>1
    <3>2. CASE Logs!Rank(r, live) <= (log_page - 1) * PageSize
      BY <1>0, <2>1, <2>2, <2>4, <3>2 DEF Paged
    <3>3. CASE (log_page - 1) * PageSize < Logs!Rank(r, live)
      BY <2>1, <2>4, <3>1, <3>3 DEF Logs!OnPage
    <3>4. Logs!Rank(r, live) <= (log_page - 1) * PageSize
              \/ (log_page - 1) * PageSize < Logs!Rank(r, live)
      <4> DEFINE k == (log_page - 1) * PageSize
      <4>1. k \in Int
        BY <2>3
      <4>2. Logs!Rank(r, live) <= k \/ k < Logs!Rank(r, live)
        <5> HIDE DEF k
        <5> QED BY <3>1, <4>1
      <4> QED BY <4>2
    <3> QED BY <3>2, <3>3, <3>4
  <2>5. CASE n < total
    <3>1. log_page' = log_page + 1 /\ log_page' - 1 = log_page /\ log_page' > 0
      BY <1>0, <2>1, <2>5
    <3> QED BY <1>0, <2>1, <2>4, <3>1 DEF Paged
  <2>6. CASE ~(n < total)
    <3>1. log_page' = 0
      BY <2>1, <2>6
    <3>2. ~shifted => \A r \in there : Logs!Rank(r, live) <= n
      <4> HIDE DEF n
      <4>1. ~shifted => Cardinality(live) <= total
        BY <1>0, <2>1 DEF Paged
      <4>2. total \in Int
        BY <1>0 DEF Logs!NotCounted
      <4> QED BY <1>0, <1>1, <2>3, <2>6, <4>1, <4>2
    <3>3. ~shifted => there \subseteq shown'
      BY <2>4, <3>2
    <3> QED BY <1>0, <2>1, <3>1, <3>3 DEF Paged
  <2> QED BY <2>5, <2>6
<1> QED BY <1>2, <1>3, <1>4, <1>5, <1>6, <1>7 DEF Logs!Next, Logs!Works

\* The invariant holds at first, and is kept.
LEMMA LogStarting == ASSUME Logs!Init PROVE LogInvariant
<1>1. 0 \in 0..MaxLogs /\ Logs!NotCounted \in 0..Logs!NotCounted /\ 0 \in 0..0
  BY PartsAssumption DEF Logs!NotCounted
<1>2. Cardinality({}) = 0 /\ RetainMax \in Nat
  BY PartsAssumption, FS_EmptySet
<1>3. LogTypes
  BY <1>1 DEF Logs!Init, LogTypes
<1>4. Fresh
  BY DEF Logs!Init, Fresh
<1> QED BY <1>2, <1>3, <1>4 DEF Logs!Init, LogInvariant, FoundStale, Paged

\* So does every step.
LEMMA LogKeeping == LogInvariant /\ [Logs!Next]_(Logs!logVars) => LogInvariant'
<1>1. CASE Logs!Next
  BY <1>1, LogTypesStep, FreshStep, FoundStaleStep, PagedStep DEF LogInvariant
<1>2. CASE UNCHANGED Logs!logVars
  BY <1>2 DEF Logs!logVars, LogInvariant, LogTypes, Fresh, FoundStale, Paged
<1> QED BY <1>1, <1>2

-----------------------------------------------------------------------------
(* Catalog: who ends a sync without a fault has written what it entered.             *)

\* Requests stay what they are, and faults are counted.
PluginTypes == DOMAIN req = Plug!Requests /\ faults \in Nat

\* Every step keeps that.
LEMMA PluginTypesStep == ASSUME PluginTypes, [Plug!Next]_(Plug!catalogVars) PROVE PluginTypes'
<1> USE DEF PluginTypes, Plug!Goto, Plug!End, Plug!Fault
<1>1. ASSUME NEW r \in Lookers, Plug!Look(r) \/ Plug!Mirror(r) PROVE PluginTypes'
  BY <1>1 DEF Plug!Look, Plug!Mirror
<1>2. ASSUME NEW r \in Installers, Plug!Install(r) \/ Plug!Clear(r) \/ Plug!Copy(r)
          PROVE PluginTypes'
  BY <1>2 DEF Plug!Install, Plug!Clear, Plug!Copy
<1>3. ASSUME NEW r \in Installers, Plug!LoadAgain(r) \/ Plug!MirrorInstall(r) \/ Plug!FailInstall(r)
      PROVE  PluginTypes'
  <2>1. CASE Plug!LoadAgain(r)
    BY <2>1 DEF Plug!LoadAgain
  <2>2. CASE Plug!MirrorInstall(r)
    BY <2>2 DEF Plug!MirrorInstall
  <2>3. CASE Plug!FailInstall(r)
    BY <2>3 DEF Plug!FailInstall
  <2> QED BY <1>3, <2>1, <2>2, <2>3
<1>4. CASE Plug!Expire \/ Plug!MinutePasses \/ Plug!Crash
  BY <1>4 DEF Plug!Expire, Plug!MinutePasses, Plug!Crash
<1>5. CASE UNCHANGED Plug!catalogVars
  BY <1>5 DEF Plug!catalogVars
<1> QED BY <1>1, <1>2, <1>3, <1>4, <1>5 DEF Plug!Next

\* A request that ends in the middle of a sync, and not by a fault, has done the sync.
LEMMA WhoEndsHasMirrored ==
    ASSUME PluginTypes, [Plug!Next]_(Plug!catalogVars), NEW r \in Plug!Requests,
           req[r].at \in {"write", "mirror"}, req'[r] = Plug!Idle, faults' = faults
    PROVE  disk' = disk /\ rows' = IF Plug!Sync(r) = Plug!NoRows THEN rows ELSE Plug!Sync(r)
<1> USE DEF PluginTypes, Plug!Goto, Plug!End, Plug!Fault
<1>1. req'[r].at = "ready" /\ req[r].at # "ready" /\ req[r] # req'[r]
  BY DEF Plug!Idle
<1>2. ASSUME NEW q \in Lookers, Plug!Look(q) PROVE FALSE
  BY <1>1, <1>2 DEF Plug!Look, Plug!Requests
<1>3. ASSUME NEW q \in Lookers, Plug!Mirror(q)
      PROVE  disk' = disk /\ rows' = IF Plug!Sync(r) = Plug!NoRows THEN rows ELSE Plug!Sync(r)
  <2>1. q = r
    BY <1>1, <1>3 DEF Plug!Mirror, Plug!Requests
  <2> QED BY <1>3, <2>1 DEF Plug!Mirror
<1>4. ASSUME NEW q \in Installers, Plug!Install(q) PROVE FALSE
  <2>1. PICK p \in Plugins :
            req' = [req EXCEPT ![q].plugin = p,
                               ![q].at = IF "manifest" \in disk[p] THEN "load" ELSE "clear"]
    BY <1>4 DEF Plug!Install
  <2>2. q # r
    BY <1>1, <1>4 DEF Plug!Install
  <2> QED BY <1>1, <2>1, <2>2
<1>5. ASSUME NEW q \in Installers, Plug!Clear(q) \/ Plug!Copy(q) \/ Plug!LoadAgain(q) PROVE FALSE
  <2>1. q # r
    BY <1>1, <1>5 DEF Plug!Clear, Plug!Copy, Plug!LoadAgain
  <2>2. req'[r] = req[r]
    BY <1>5, <2>1 DEF Plug!Clear, Plug!Copy, Plug!LoadAgain
  <2> QED BY <1>1, <2>2
<1>6. ASSUME NEW q \in Installers, Plug!MirrorInstall(q)
      PROVE  disk' = disk /\ rows' = IF Plug!Sync(r) = Plug!NoRows THEN rows ELSE Plug!Sync(r)
  <2>1. q = r
    BY <1>1, <1>6 DEF Plug!MirrorInstall
  <2> QED BY <1>6, <2>1 DEF Plug!MirrorInstall
<1>7. ASSUME NEW q \in Installers, Plug!FailInstall(q) PROVE FALSE
  BY <1>7 DEF Plug!FailInstall
<1>8. CASE Plug!Crash
  BY <1>8 DEF Plug!Crash
<1>9. CASE Plug!Expire \/ Plug!MinutePasses
  BY <1>1, <1>9 DEF Plug!Expire, Plug!MinutePasses
<1>10. CASE UNCHANGED Plug!catalogVars
  BY <1>1, <1>10 DEF Plug!catalogVars
<1> QED BY <1>2, <1>3, <1>4, <1>5, <1>6, <1>7, <1>8, <1>9, <1>10 DEF Plug!Next

\* What a session writes that nobody overtook is what it mirrored, and that agrees with what
\* it had to enter.
LEMMA EnteringAgrees ==
    ASSUME NEW new, NEW was, NEW missing, NEW k
    PROVE  LET mirrored == Plug!Enter(new, was, missing)
           IN  /\ ~Plug!Twice(was, was, mirrored)
               /\ Plug!Over(was, was, mirrored) = mirrored
               /\ DOMAIN was \subseteq DOMAIN mirrored
               /\ IF k \in DOMAIN mirrored THEN mirrored[k] = new[k]
                                          ELSE k \in DOMAIN new => new[k] = missing
<1> DEFINE mirrored == Plug!Enter(new, was, missing)
<1>1. /\ DOMAIN mirrored = DOMAIN was \cup {q \in DOMAIN new : new[q] # missing}
      /\ \A q \in DOMAIN mirrored : mirrored[q] = new[q]
  BY DEF Plug!Enter
<1>2. ~Plug!Twice(was, was, mirrored)
  BY DEF Plug!Twice
<1>3. mirrored = [q \in DOMAIN mirrored |-> mirrored[q]]
  BY DEF Plug!Enter
<1>4. Plug!Over(was, was, mirrored) = [q \in DOMAIN mirrored |-> mirrored[q]]
  <2>1. DOMAIN was \cup DOMAIN mirrored = DOMAIN mirrored
    BY <1>1
  <2>2. ASSUME NEW q \in DOMAIN mirrored
        PROVE  (IF q \in Plug!Changed(mirrored, was) THEN mirrored[q] ELSE was[q]) = mirrored[q]
    BY DEF Plug!Changed
  <2> HIDE DEF mirrored
  <2> QED BY <2>1, <2>2 DEF Plug!Over
<1> QED BY <1>1, <1>2, <1>3, <1>4

\* A sync of what is on disk, which nobody overtook, makes the rows agree with it.
LEMMA SyncAgrees ==
    ASSUME NEW r, req[r].loaded = rows, req[r].bundle = {Plug!Load(disk, r \in Lookers)}, disk' = disk,
           rows' = IF Plug!Sync(r) = Plug!NoRows THEN rows ELSE Plug!Sync(r)
    PROVE  Plug!Agree(r)'
<1> DEFINE onDisk == Plug!Load(disk, r \in Lookers)
           plugins == Plug!Enter(onDisk.plugins, rows.plugins, "missing")
           components == Plug!Enter(onDisk.components, rows.components, {})
<1>1. DOMAIN onDisk.plugins = Plugins /\ DOMAIN onDisk.components = Plug!Components
  BY DEF Plug!Load
<1>2. (CHOOSE b \in req[r].bundle : TRUE) = onDisk
  OBVIOUS
<1>3. Plug!Sync(r) = [plugins |-> plugins, components |-> components]
  <2> HIDE DEF onDisk
  <2>1. ~Plug!Twice(rows.plugins, rows.plugins, plugins)
            /\ Plug!Over(rows.plugins, rows.plugins, plugins) = plugins
    BY EnteringAgrees
  <2>2. /\ ~Plug!Twice(rows.components, rows.components, components)
        /\ Plug!Over(rows.components, rows.components, components) = components
    BY EnteringAgrees
  <2> HIDE DEF plugins, components
  <2> QED BY <1>2, <2>1, <2>2 DEF Plug!Sync, plugins, components
<1>4. /\ DOMAIN rows.plugins \subseteq DOMAIN plugins
      /\ \A p \in Plugins : IF p \in DOMAIN plugins THEN plugins[p] = onDisk.plugins[p]
                                                   ELSE onDisk.plugins[p] = "missing"
  BY <1>1, EnteringAgrees
<1>5. /\ DOMAIN rows.components \subseteq DOMAIN components
      /\ \A c \in Plug!Components : IF c \in DOMAIN components
             THEN components[c] = onDisk.components[c]
                                                         ELSE onDisk.components[c] = {}
  BY <1>1, EnteringAgrees
<1>6. Plug!Load(disk, r \in Lookers)' = onDisk
  BY DEF Plug!Load
<1> HIDE DEF plugins, components, onDisk
<1>7. CASE Plug!Sync(r) # Plug!NoRows
  <2>1. rows'.plugins = plugins /\ rows'.components = components
    BY <1>3, <1>7
  <2> QED BY <1>4, <1>5, <1>6, <2>1 DEF Plug!Agree, Plug!AgreeWith
<1>8. CASE Plug!Sync(r) = Plug!NoRows
  <2>1. plugins = <<>> /\ components = <<>>
    BY <1>3, <1>8 DEF Plug!NoRows
  <2>2. DOMAIN plugins = {} /\ DOMAIN components = {}
    BY <2>1
  <2>3. rows' = rows /\ DOMAIN rows.plugins = {} /\ DOMAIN rows.components = {}
    BY <1>4, <1>5, <1>8, <2>2
  <2> QED BY <1>4, <1>5, <1>6, <2>2, <2>3 DEF Plug!Agree, Plug!AgreeWith
<1> QED BY <1>7, <1>8

\* A sync that nobody overtook heals the mirror.
LEMMA SyncsHeal ==
    ASSUME PluginTypes, [Plug!Next]_(Plug!catalogVars), NEW r \in Plug!Requests,
           req[r].at \in {"write", "mirror"}, req'[r] = Plug!Idle, faults' = faults,
           req[r].loaded = rows, req[r].bundle = {Plug!Load(disk, r \in Lookers)}
    PROVE  Plug!Agree(r)'
  BY WhoEndsHasMirrored, SyncAgrees

\* Whoever mirrors a bundle that is what is on disk, and is not overtaken, makes the rows
\* agree with it, whatever they were.
THEOREM SyncsAlwaysHeal == Plug!Spec => SyncHeals
<1>1. Plug!Init => PluginTypes
  BY DEF Plug!Init, PluginTypes
<1>2. PluginTypes /\ [Plug!Next]_(Plug!catalogVars) => PluginTypes'
  BY PluginTypesStep
<1>3. PluginTypes /\ [Plug!Next]_(Plug!catalogVars) =>
          [\A r \in Plug!Requests :
             (/\ req[r].at \in {"write", "mirror"} /\ req'[r] = Plug!Idle /\ faults' = faults
              /\ req[r].loaded = rows /\ req[r].bundle = {Plug!Load(disk, r \in Lookers)})
                 => Plug!Agree(r)']_(Plug!catalogVars)
  BY SyncsHeal
<1> QED BY <1>1, <1>2, <1>3, PTL DEF Plug!Spec, Plug!SyncHeals, SyncHeals

-----------------------------------------------------------------------------
(* Providers: a save that nobody overtook has read what is there.                     *)

\* What a row, a form and an older setting are, and a page.
Setting == [there : BOOLEAN, enabled : BOOLEAN, secret : Nat]
Settings == [Stage2!All -> Setting]
Page == [at : {"closed", "form", "edited", "commit", "test"}, name : {"", "providers", "claude"},
         form : Settings, kept : Settings, legacy : Setting, alone : BOOLEAN]

SettingTypes ==
    /\ env \in [Stage2!All -> Nat] /\ providers \in Settings /\ legacy \in Setting
    /\ page \in [Operators -> Page] /\ entered \in Nat

\* What a save has read of the secrets is what is there, if no other was committed since;
\* what a test has read, but for the secret, if neither a save nor a test was.
AsRead(o) ==
    /\ page[o].at = "commit" /\ page[o].alone =>
          /\ page[o].legacy = legacy
          /\ \A p \in Stage2!All : /\ page[o].kept[p].there = providers[p].there
                                  /\ page[o].kept[p].secret = providers[p].secret
    /\ page[o].at = "test" => \A p \in Stage2!All : page[o].kept[p].there => providers[p].there
    /\ page[o].at = "test" /\ page[o].alone =>
          \A p \in Stage2!All : page[o].kept[p].there => page[o].kept[p].enabled = providers[p].enabled

SettingInvariant == SettingTypes /\ \A o \in Operators : AsRead(o)

-----------------------------------------------------------------------------
\* The invariant holds at the start.
LEMMA SettingStarting == ASSUME Stage2!Init PROVE SettingInvariant
<1>1. Stage2!None \in Setting /\ Stage2!EnvSecret \in Nat /\ 0 \in Nat
  BY PartsAssumption DEF Stage2!None, Setting, Stage2!EnvSecret
<1>2. [p \in Stage2!All |-> Stage2!None] \in Settings
  BY <1>1 DEF Settings
<1>3. Stage2!Closed \in Page /\ Stage2!Closed.at = "closed"
  BY <1>1, <1>2 DEF Stage2!Closed, Page
<1>4. env \in [Stage2!All -> Nat] /\ legacy \in Setting
  <2>1. Stage2!OldSecret \in Nat
    BY PartsAssumption DEF Stage2!OldSecret
  <2>2. ASSUME NEW e \in BOOLEAN, NEW s \in {0, Stage2!OldSecret}
        PROVE  [there |-> TRUE, enabled |-> e, secret |-> s] \in Setting
    BY <2>1 DEF Setting
  <2>3. legacy = Stage2!None \/ \E e \in BOOLEAN, s \in {0, Stage2!OldSecret} :
            legacy = [there |-> TRUE, enabled |-> e, secret |-> s]
    BY DEF Stage2!Init
  <2>4. legacy \in Setting
    BY <1>1, <2>2, <2>3
  <2> QED BY <1>1, <2>4 DEF Stage2!Init
<1>5. page \in [Operators -> Page] /\ \A o \in Operators : page[o].at = "closed"
  BY <1>3 DEF Stage2!Init
<1> QED BY <1>1, <1>2, <1>4, <1>5 DEF Stage2!Init, SettingInvariant, SettingTypes, AsRead

\* What is shown, and what a save makes of it, are settings.
LEMMA Computed ==
    ASSUME SettingTypes
    PROVE  /\ Stage2!None \in Setting /\ Stage2!Closed \in Page
           /\ \A p \in Stage2!All : Stage2!Effective(p) \in Setting
           /\ \A p \in Stage2!All, name \in {"providers", "claude"} :
                 p \in Stage2!Listed(name) => Stage2!Shown(name, p) \in Setting
           /\ \A o \in Operators, p \in Stage2!All : Stage2!Merged(o, p) \in Setting
                  /\ \A whole \in BOOLEAN : Stage2!Written(o, p, whole) \in Setting
<1>1. Stage2!None \in Setting /\ Stage2!Masked \in Nat /\ Stage2!EnvSecret \in Nat /\ 0 \in Nat
  BY PartsAssumption DEF Stage2!None, Setting, Stage2!Masked, Stage2!EnvSecret
<1>2. Stage2!Closed \in Page
  <2>1. [p \in Stage2!All |-> Stage2!None] \in Settings
    BY <1>1 DEF Settings
  <2> QED BY <1>1, <2>1 DEF Stage2!Closed, Page
<1>3. ASSUME NEW p \in Stage2!All PROVE Stage2!Effective(p) \in Setting
  <2>1. providers[p] \in Setting /\ env[p] \in Nat
    BY DEF SettingTypes, Settings
  <2>2. legacy \in Setting
    BY DEF SettingTypes
  <2>3. [Stage2!None EXCEPT !.secret = env[p]] \in Setting
    BY <1>1, <2>1 DEF Setting
  <2> QED BY <2>1, <2>2, <2>3 DEF Stage2!Effective
<1>4. ASSUME NEW s \in Setting PROVE Stage2!Mask(s) \in Setting
  BY <1>1 DEF Stage2!Mask, Setting
<1>5. ASSUME NEW p \in Stage2!All, NEW name \in {"providers", "claude"}
          PROVE Stage2!Shown(name, p) \in Setting
  <2>1. Stage2!Effective(p) \in Setting /\ Stage2!Effective(Claude) \in Setting
            /\ legacy.secret \in Nat
    BY <1>3 DEF Stage2!All, SettingTypes, Setting
  <2>2. [Stage2!Effective(Claude) EXCEPT !.secret = IF Stage2!Effective(Claude).secret = 0
                                            THEN legacy.secret ELSE @] \in Setting
    <3> DEFINE e == Stage2!Effective(Claude)
    <3>1. e \in Setting
      BY <2>1
    <3> HIDE DEF e
    <3>2. [e EXCEPT !.secret = IF e.secret = 0 THEN legacy.secret ELSE @] \in Setting
      BY <2>1, <3>1 DEF Setting
    <3> QED BY <3>2 DEF e
  <2> QED BY <1>4, <2>1, <2>2 DEF Stage2!Shown, Stage2!ShownByLegacy
<1>6. ASSUME NEW o \in Operators, NEW p \in Stage2!All
      PROVE  /\ Stage2!Merged(o, p) \in Setting
             /\ \A whole \in BOOLEAN : Stage2!Written(o, p, whole) \in Setting
  <2>1. /\ page[o].form[p] \in Setting /\ page[o].kept[p] \in Setting
        /\ page[o].legacy \in Setting /\ providers[p] \in Setting /\ env[p] \in Nat
    <3>1. page[o] \in Page
      BY DEF SettingTypes
    <3> QED BY <3>1 DEF SettingTypes, Page, Settings
  <2>2. Stage2!Existing(o, p) \in Nat
    BY <1>1, <2>1 DEF Stage2!Existing, Setting
  <2>3. Stage2!Merged(o, p) \in Setting
    <3> DEFINE form == page[o].form[p]
               secret == IF page[o].name = "claude"
                         THEN Stage2!MergeLegacySecret(form.secret, page[o].legacy.secret)
                         ELSE Stage2!MergeSecret(form.secret, Stage2!Existing(o, p))
    <3>1. secret \in Nat
      BY <2>1, <2>2 DEF Stage2!MergeLegacySecret, Stage2!MergeSecret, Setting
    <3>2. Stage2!Merged(o, p) = [form EXCEPT !.there = TRUE, !.secret = secret]
      BY DEF Stage2!Merged
    <3> HIDE DEF secret
    <3> QED BY <2>1, <3>1, <3>2 DEF Setting
  <2>4. [providers[p] EXCEPT !.secret = Stage2!Merged(o, p).secret] \in Setting
    BY <2>1, <2>3 DEF Setting
  <2> QED BY <2>3, <2>4 DEF Stage2!Written
<1> QED BY <1>1, <1>2, <1>3, <1>5, <1>6

\* A page that opens, is edited or begins its save.
LEMMA PageSteps ==
    ASSUME SettingInvariant, NEW o \in Operators, Stage2!Open(o) \/ Stage2!Edit(o) \/ Stage2!Save(o)
    PROVE  SettingInvariant'
<1>0. page[o] \in Page /\ page \in [Operators -> Page] /\ SettingTypes
  BY DEF SettingInvariant, SettingTypes
<1>1. CASE Stage2!Open(o)
  <2>1. PICK name \in {"providers", "claude"} :
            page' = [page EXCEPT ![o] = [Stage2!Closed EXCEPT
                !.at = "form", !.name = name,
                !.form = [p \in Stage2!All |-> IF p \in Stage2!Listed(name)
                    THEN Stage2!Shown(name, p) ELSE Stage2!None]]]
    BY <1>1 DEF Stage2!Open
  <2> DEFINE form == [p \in Stage2!All |-> IF p \in Stage2!Listed(name)
      THEN Stage2!Shown(name, p) ELSE Stage2!None]
             new == [Stage2!Closed EXCEPT !.at = "form", !.name = name, !.form = form]
  <2>2. form \in Settings
    BY <1>0, Computed DEF Settings
  <2>3. Stage2!Closed \in Page
    BY <1>0, Computed
  <2>4. new \in Page /\ new.at = "form"
    <3> HIDE DEF form
    <3> QED BY <2>2, <2>3 DEF Page
  <2>5. page' = [page EXCEPT ![o] = new]
    BY <2>1
  <2> HIDE DEF new
  <2>6. page' \in [Operators -> Page]
            /\ \A q \in Operators : page'[q] = IF q = o THEN new ELSE page[q]
    BY <1>0, <2>4, <2>5
  <2>7. UNCHANGED <<env, providers, legacy, entered>>
    BY <1>1 DEF Stage2!Open
  <2>8. \A q \in Operators : AsRead(q)'
    BY <2>4, <2>6, <2>7 DEF SettingInvariant, AsRead
  <2> QED BY <1>0, <2>6, <2>7, <2>8 DEF SettingInvariant, SettingTypes
<1>2. CASE Stage2!Edit(o)
  <2>0. PICK p \in Stage2!Listed(page[o].name), enabled \in BOOLEAN :
          \E secret \in {page[o].form[p].secret, 0} \cup (entered + 1 .. MaxSecrets) :
            /\ entered' = IF secret = entered + 1 THEN secret ELSE entered
            /\ page' = [page EXCEPT ![o].at = "edited", ![o].form[p].enabled = enabled,
                                    ![o].form[p].secret = secret]
    BY <1>2 DEF Stage2!Edit
  <2>1. PICK secret \in {page[o].form[p].secret, 0} \cup (entered + 1 .. MaxSecrets) :
          /\ entered' = IF secret = entered + 1 THEN secret ELSE entered
          /\ page' = [page EXCEPT ![o].at = "edited", ![o].form[p].enabled = enabled,
                                  ![o].form[p].secret = secret]
    BY <2>0
  <2>2. p \in Stage2!All /\ page[o].form \in Settings /\ page[o].form[p] \in Setting
    BY <1>0 DEF Stage2!Listed, Stage2!All, Page, Settings
  <2>3. secret \in Nat /\ entered' \in Nat
    <3>1. page[o].form[p].secret \in Nat /\ entered \in Nat
      BY <1>0, <2>2 DEF Setting, SettingTypes
    <3> QED BY <2>1, <3>1, PartsAssumption
  <2> DEFINE edited == [page[o].form[p] EXCEPT !.enabled = enabled, !.secret = secret]
             form == [page[o].form EXCEPT ![p] = edited]
             new == [page[o] EXCEPT !.at = "edited", !.form = form]
  <2>4. edited \in Setting
    BY <2>2, <2>3 DEF Setting
  <2>5. form \in Settings
    <3> HIDE DEF edited
    <3> QED BY <2>2, <2>4 DEF Settings
  <2>6. new \in Page /\ new.at = "edited"
    <3> HIDE DEF form
    <3> QED BY <1>0, <2>5 DEF Page
  <2>7. page' = [page EXCEPT ![o] = new]
    <3> DEFINE f1 == [page[o].form EXCEPT ![p].enabled = enabled]
               f2 == [f1 EXCEPT ![p].secret = secret]
               x1 == [page EXCEPT ![o].at = "edited"]
               x2 == [x1 EXCEPT ![o].form[p].enabled = enabled]
               x3 == [x2 EXCEPT ![o].form[p].secret = secret]
    <3>1. f2 = form
      BY <2>2 DEF Settings, Setting
    <3>2. x1[o] = [page[o] EXCEPT !.at = "edited"] /\ x1 = [page EXCEPT ![o] = x1[o]]
      BY <1>0
    <3>3. x1[o].form = page[o].form
      BY <1>0, <3>2 DEF Page
    <3>4. x2[o] = [x1[o] EXCEPT !.form = f1] /\ x2 = [page EXCEPT ![o] = x2[o]]
      <4>1. x2 = [x1 EXCEPT ![o] = [x1[o] EXCEPT !.form = [x1[o].form EXCEPT ![p].enabled = enabled]]]
        OBVIOUS
      <4> HIDE DEF x1, x2
      <4> QED BY <1>0, <3>2, <3>3, <4>1
    <3>5. x2[o].form = f1
      BY <1>0, <3>2, <3>4 DEF Page
    <3>6. x3[o] = [x2[o] EXCEPT !.form = f2] /\ x3 = [page EXCEPT ![o] = x3[o]]
      <4>1. x3 = [x2 EXCEPT ![o] = [x2[o] EXCEPT !.form = [x2[o].form EXCEPT ![p].secret = secret]]]
        OBVIOUS
      <4> HIDE DEF x2, x3
      <4> QED BY <1>0, <3>4, <3>5, <4>1
    <3>7. x3[o] = new
      <4> HIDE DEF x1, x2, x3, f1, f2, form
      <4> QED BY <1>0, <3>1, <3>2, <3>4, <3>6 DEF Page
    <3>8. page' = x3
      BY <2>1
    <3> QED BY <3>6, <3>7, <3>8
  <2> HIDE DEF new
  <2>8. page' \in [Operators -> Page]
            /\ \A q \in Operators : page'[q] = IF q = o THEN new ELSE page[q]
    BY <1>0, <2>6, <2>7
  <2>9. UNCHANGED <<env, providers, legacy>>
    BY <1>2 DEF Stage2!Edit
  <2>10. \A q \in Operators : AsRead(q)'
    BY <2>6, <2>8, <2>9 DEF SettingInvariant, AsRead
  <2> QED BY <1>0, <2>3, <2>8, <2>9, <2>10 DEF SettingInvariant, SettingTypes
<1>3. CASE Stage2!Save(o)
  <2> DEFINE new == [page[o] EXCEPT !.at = "commit", !.kept = providers, !.legacy = legacy,
      !.alone = TRUE]
  <2>1. new \in Page /\ new.legacy = legacy /\ new.kept = providers
    BY <1>0 DEF Page, SettingTypes
  <2>2. page' = [page EXCEPT ![o] = new]
    BY <1>0, <1>3 DEF Stage2!Save
  <2> HIDE DEF new
  <2>3. page' \in [Operators -> Page]
            /\ \A q \in Operators : page'[q] = IF q = o THEN new ELSE page[q]
    BY <1>0, <2>1, <2>2
  <2>4. UNCHANGED <<env, providers, legacy, entered>>
    BY <1>3 DEF Stage2!Save
  <2>5. \A q \in Operators : AsRead(q)'
    BY <2>1, <2>3, <2>4 DEF SettingInvariant, AsRead
  <2> QED BY <1>0, <2>3, <2>4, <2>5 DEF SettingInvariant, SettingTypes
<1> QED BY <1>1, <1>2, <1>3

\* A row that is there stays there.
LEMMA WrittenIsThere ==
    ASSUME SettingTypes, NEW o \in Operators, NEW p \in Stage2!All, NEW whole \in BOOLEAN,
           providers[p].there
    PROVE  Stage2!Written(o, p, whole).there
<1> DEFINE new == Stage2!Merged(o, p)
<1>1. page[o].form[p] \in Setting /\ providers[p] \in Setting
  BY DEF SettingTypes, Page, Settings
<1>2. new.there
  BY <1>1 DEF Stage2!Merged, Setting
<1>3. [providers[p] EXCEPT !.secret = new.secret].there = providers[p].there
  BY <1>1 DEF Setting
<1> HIDE DEF new
<1>4. Stage2!Written(o, p, whole) \in {[providers[p] EXCEPT !.secret = new.secret], new}
  BY DEF Stage2!Written, new
<1> QED BY <1>2, <1>3, <1>4

\* What a commit writes.
Whole(o, whole) ==
    providers' = [p \in Stage2!All |->
        IF p \in Stage2!Listed(page[o].name) THEN Stage2!Written(o, p, p \in whole)
                                             ELSE providers[p]]

\* A save that is committed.
LEMMA CommitStep == ASSUME SettingInvariant, NEW o \in Operators, Stage2!Commit(o)
          PROVE SettingInvariant'
<1>0. page[o] \in Page /\ page \in [Operators -> Page] /\ SettingTypes /\ Stage2!Closed \in Page
  BY Computed DEF SettingInvariant, SettingTypes
<1>1. CASE Stage2!Refused(o)
  <2>1. page' = [page EXCEPT ![o] = Stage2!Closed] /\ UNCHANGED <<providers, legacy, env, entered>>
    BY <1>1 DEF Stage2!Commit
  <2>2. Stage2!Closed.at = "closed"
    BY DEF Stage2!Closed
  <2>3. /\ page' \in [Operators -> Page]
        /\ \A q \in Operators : page'[q] = IF q = o THEN Stage2!Closed ELSE page[q]
    BY <1>0, <2>1
  <2> QED BY <2>1, <2>2, <2>3 DEF SettingInvariant, SettingTypes, AsRead
<1>2. CASE ~Stage2!Refused(o)
  <2>0. PICK whole \in SUBSET Stage2!Listed(page[o].name) : Whole(o, whole)
    BY <1>2 DEF Stage2!Commit, Whole
  <2>1. /\ legacy' = IF page[o].name = "claude" THEN Stage2!Merged(o, Claude) ELSE legacy
        /\ page' = [q \in Operators |->
                        IF q = o THEN Stage2!Closed
                        ELSE [page[q] EXCEPT !.alone = page[q].at \notin {"commit", "test"}]]
        /\ UNCHANGED <<env, entered>>
    BY <1>2 DEF Stage2!Commit
  <2>2. /\ providers' \in Settings
        /\ \A p \in Stage2!All : providers[p].there => providers'[p].there
    <3>0. \A p \in Stage2!All : (p \in whole) \in BOOLEAN
      OBVIOUS
    <3>1. \A p \in Stage2!All : Stage2!Written(o, p, p \in whole) \in Setting /\ providers[p] \in Setting
      <4>1. ASSUME NEW p \in Stage2!All
            PROVE  Stage2!Written(o, p, p \in whole) \in Setting /\ providers[p] \in Setting
        <5> DEFINE w == p \in whole
        <5>1. w \in BOOLEAN
          BY <3>0
        <5> HIDE DEF w
        <5>2. Stage2!Written(o, p, w) \in Setting
          BY <1>0, <5>1, Computed
        <5>3. providers[p] \in Setting
          BY <1>0 DEF SettingTypes, Settings
        <5> QED BY <5>2, <5>3 DEF w
      <4> QED BY <4>1
    <3>2. providers' \in Settings
      BY <2>0, <3>1 DEF Settings, Whole
    <3>3. \A p \in Stage2!All : providers[p].there => Stage2!Written(o, p, p \in whole).there
      <4>1. ASSUME NEW p \in Stage2!All, providers[p].there
            PROVE  Stage2!Written(o, p, p \in whole).there
        <5>1. (p \in whole) \in BOOLEAN
          BY <3>0
        <5> DEFINE w == p \in whole
        <5> HIDE DEF w
        <5>2. w \in BOOLEAN
          BY <5>1 DEF w
        <5>3. Stage2!Written(o, p, w).there
          BY <1>0, <4>1, <5>2, WrittenIsThere
        <5> QED BY <5>3 DEF w
      <4> QED BY <4>1
    <3>4. \A p \in Stage2!All : providers'[p] \in {providers[p], Stage2!Written(o, p, p \in whole)}
      BY <2>0 DEF Whole
    <3> QED BY <3>2, <3>3, <3>4
  <2>3. legacy' \in Setting
    <3>1. Stage2!Merged(o, Claude) \in Setting
      BY <1>0, Computed DEF Stage2!All
    <3> QED BY <1>0, <2>1, <3>1 DEF SettingTypes
  <2>4. ASSUME NEW q \in Operators
        PROVE  /\ page'[q] \in Page /\ (page'[q].at \in {"commit", "test"} => ~page'[q].alone)
               /\ page'[q].at = "test" => page[q].at = "test" /\ page'[q].kept = page[q].kept
    <3>1. page[q] \in Page
      BY <1>0
    <3>2. [page[q] EXCEPT !.alone = page[q].at \notin {"commit", "test"}] \in Page
      BY <3>1 DEF Page
    <3>3. Stage2!Closed.at = "closed"
      BY DEF Stage2!Closed
    <3>4. CASE q = o
      BY <1>0, <2>1, <3>3, <3>4
    <3>5. CASE q # o
      <4>1. page'[q] = [page[q] EXCEPT !.alone = page[q].at \notin {"commit", "test"}]
        BY <2>1, <3>5
      <4>2. /\ page'[q].at = page[q].at /\ page'[q].kept = page[q].kept
            /\ page'[q].alone = (page[q].at \notin {"commit", "test"})
        BY <3>1, <4>1 DEF Page
      <4> QED BY <3>2, <4>1, <4>2
    <3> QED BY <3>4, <3>5
  <2>5. page' \in [Operators -> Page]
    BY <2>1, <2>4
  <2>6. \A q \in Operators : AsRead(q)'
    <3>1. ASSUME NEW q \in Operators PROVE AsRead(q)'
      <4>1. page'[q].at = "test"
              => \A p \in Stage2!All : page'[q].kept[p].there => providers'[p].there
        BY <2>2, <2>4 DEF SettingInvariant, AsRead
      <4> QED BY <2>4, <4>1 DEF AsRead
    <3> QED BY <3>1
  <2> QED BY <1>0, <2>1, <2>2, <2>3, <2>5, <2>6 DEF SettingInvariant, SettingTypes
<1> QED BY <1>1, <1>2

\* A test that reads, and one that records what it found.
LEMMA TestStep == ASSUME SettingInvariant, NEW o \in Operators, Stage2!Test(o)
          PROVE SettingInvariant'
<1>0. page[o] \in Page /\ page \in [Operators -> Page] /\ SettingTypes /\ Stage2!None \in Setting
  BY Computed DEF SettingInvariant, SettingTypes
<1>1. PICK t \in {q \in Providers : providers[q].there} :
          page' = [page EXCEPT ![o].at = "test", ![o].alone = TRUE,
                      ![o].kept = [q \in Stage2!All |-> IF q = t THEN providers[t] ELSE Stage2!None]]
  BY DEF Stage2!Test
<1> DEFINE kept == [q \in Stage2!All |-> IF q = t THEN providers[t] ELSE Stage2!None]
           new == [page[o] EXCEPT !.at = "test", !.alone = TRUE, !.kept = kept]
<1>2. kept \in Settings
  BY <1>0 DEF SettingTypes, Settings
<1>3. \A p \in Stage2!All : kept[p].there => providers[p].there /\ kept[p].enabled = providers[p].enabled
  BY DEF Stage2!None
<1>4. page' = [page EXCEPT ![o] = new]
  BY <1>0, <1>1
<1> HIDE DEF kept
<1>5. new \in Page /\ new.at = "test" /\ new.kept = kept
  BY <1>0, <1>2 DEF Page
<1> HIDE DEF new
<1>6. /\ page' \in [Operators -> Page]
      /\ \A q \in Operators : page'[q] = IF q = o THEN new ELSE page[q]
  BY <1>0, <1>4, <1>5
<1>7. UNCHANGED <<env, providers, legacy, entered>>
  BY DEF Stage2!Test
<1>8. \A q \in Operators : AsRead(q)'
  BY <1>3, <1>5, <1>6, <1>7 DEF SettingInvariant, AsRead
<1> QED BY <1>0, <1>6, <1>7, <1>8 DEF SettingInvariant, SettingTypes

\* What recording the outcome of a test leaves of a row.
LEMMA RecordLeaves ==
    ASSUME SettingInvariant, NEW o \in Operators, Stage2!Record(o), NEW p \in Stage2!All
    PROVE  /\ providers'[p] \in Setting /\ providers'[p].there = providers[p].there
           /\ providers'[p].secret = providers[p].secret
           /\ page[o].alone \/ ~page[o].kept[p].there => providers'[p].enabled = providers[p].enabled
<1>1. page[o] \in Page /\ page[o].kept[p] \in Setting /\ providers[p] \in Setting
  BY DEF SettingInvariant, SettingTypes, Page, Settings
<1>2. providers'[p] = IF page[o].kept[p].there
                      THEN [page[o].kept[p] EXCEPT !.secret = providers[p].secret] ELSE providers[p]
  BY DEF Stage2!Record, Stage2!Tested
<1>3. /\ page[o].kept[p].there => providers[p].there
      /\ page[o].alone /\ page[o].kept[p].there => page[o].kept[p].enabled = providers[p].enabled
  BY DEF SettingInvariant, AsRead, Stage2!Record
<1> DEFINE read == page[o].kept[p]
<1> HIDE DEF read
<1>4. LET new == [read EXCEPT !.secret = providers[p].secret]
      IN  read \in Setting => /\ new \in Setting /\ new.there = read.there
                              /\ new.secret = providers[p].secret /\ new.enabled = read.enabled
  BY <1>1 DEF Setting
<1> QED BY <1>1, <1>2, <1>3, <1>4 DEF read, Setting

LEMMA RecordStep == ASSUME SettingInvariant, NEW o \in Operators, Stage2!Record(o)
          PROVE SettingInvariant'
<1>0. page \in [Operators -> Page] /\ SettingTypes /\ Stage2!Closed \in Page
  BY Computed DEF SettingInvariant, SettingTypes
<1>1. /\ page' = [q \in Operators |->
                    IF q = o THEN [page[o] EXCEPT !.at = "edited", !.alone = TRUE,
                                                  !.kept = Stage2!Closed.kept]
                    ELSE [page[q] EXCEPT !.alone = @ /\ page[q].at # "test"]]
      /\ UNCHANGED <<env, legacy, entered>>
      /\ DOMAIN providers' = Stage2!All
  BY DEF Stage2!Record
<1>2. providers' \in Settings
  <2>1. \A p \in Stage2!All : providers'[p] \in Setting
    BY RecordLeaves
  <2>2. providers' = [p \in Stage2!All |-> providers'[p]]
    BY DEF Stage2!Record
  <2> QED BY <2>1, <2>2 DEF Settings
<1>3. ASSUME NEW q \in Operators
      PROVE  /\ page'[q] \in Page
             /\ page'[q].at \in {"commit", "test"} =>
                    /\ page'[q].at = page[q].at /\ page'[q].kept = page[q].kept
                    /\ page'[q].legacy = page[q].legacy
                    /\ page'[q].alone => page[q].alone /\ page[q].at # "test"
  <2>1. page[q] \in Page
    BY <1>0
  <2>2. CASE q = o
    <3> DEFINE new == [page[o] EXCEPT !.at = "edited", !.alone = TRUE, !.kept = Stage2!Closed.kept]
    <3>1. page'[q] = new
      BY <1>1, <2>2
    <3>2. Stage2!Closed.kept \in Settings
      BY <1>0 DEF Page
    <3>3. new \in Page /\ new.at = "edited"
      BY <2>1, <2>2, <3>2 DEF Page
    <3> QED BY <3>1, <3>3
  <2>3. CASE q # o
    <3>1. page'[q] = [page[q] EXCEPT !.alone = page[q].alone /\ page[q].at # "test"]
      BY <1>1, <2>3
    <3>2. (page[q].alone /\ page[q].at # "test") \in BOOLEAN
      OBVIOUS
    <3>3. /\ page'[q] \in Page /\ page'[q].at = page[q].at /\ page'[q].kept = page[q].kept
          /\ page'[q].legacy = page[q].legacy
          /\ page'[q].alone = (page[q].alone /\ page[q].at # "test")
      BY <2>1, <3>1, <3>2 DEF Page
    <3> QED BY <3>3
  <2> QED BY <2>2, <2>3
<1>4. page' \in [Operators -> Page]
  BY <1>1, <1>3
<1>5. \A p \in Stage2!All : /\ providers'[p].there = providers[p].there
                            /\ providers'[p].secret = providers[p].secret
  BY RecordLeaves
<1>6. ASSUME NEW q \in Operators PROVE AsRead(q)'
  <2>1. AsRead(q)
    BY DEF SettingInvariant
  <2> QED BY <1>1, <1>3, <1>5, <2>1 DEF AsRead
<1> QED BY <1>0, <1>1, <1>2, <1>4, <1>6 DEF SettingInvariant, SettingTypes

\* Every step keeps the invariant.
LEMMA SettingKeeping == ASSUME SettingInvariant, [Stage2!Next]_(Stage2!providerVars)
          PROVE SettingInvariant'
<1>1. CASE Stage2!Next
  BY <1>1, PageSteps, CommitStep, TestStep, RecordStep DEF Stage2!Next
<1>2. CASE UNCHANGED Stage2!providerVars
  BY <1>2 DEF Stage2!providerVars, SettingInvariant, SettingTypes, AsRead
<1> QED BY <1>1, <1>2

-----------------------------------------------------------------------------
\* What is effective depends on the row, the older setting and the environment.
LEMMA EffectiveStays ==
    ASSUME NEW p \in Stage2!All, providers'[p] = providers[p], p = Claude => legacy' = legacy,
        env' = env
    PROVE  Stage2!Effective(p)' = Stage2!Effective(p)
  BY DEF Stage2!Effective

\* A test leaves every secret that is effective, and what else is unless it was overtaken.
LEMMA TestsChangeNoSecret ==
    ASSUME SettingInvariant, NEW o \in Operators, Stage2!Record(o), NEW p \in Stage2!All
    PROVE  /\ Stage2!Effective(p)'.secret = Stage2!Effective(p).secret
           /\ page[o].alone => Stage2!Effective(p)'.enabled = Stage2!Effective(p).enabled
<1>1. UNCHANGED <<legacy, env>>
  BY DEF Stage2!Record
<1>2. CASE providers[p].there
  <2>1. providers'[p].there
    BY <1>2, RecordLeaves
  <2>2. Stage2!Effective(p) = providers[p] /\ Stage2!Effective(p)' = providers'[p]
    BY <1>2, <2>1 DEF Stage2!Effective
  <2> QED BY <2>2, RecordLeaves
<1>3. CASE ~providers[p].there
  <2>1. ~page[o].kept[p].there
    BY <1>3 DEF SettingInvariant, AsRead, Stage2!Record
  <2>2. providers'[p] = providers[p]
    BY <2>1 DEF Stage2!Record
  <2>3. Stage2!Effective(p)' = Stage2!Effective(p)
    BY <1>1, <2>2, EffectiveStays
  <2> QED BY <2>3
<1> QED BY <1>2, <1>3

\* A save that is to keep a secret does.
LEMMA SavesKeep ==
    ASSUME SettingInvariant, NEW o \in Operators, Stage2!Commit(o), ~Stage2!Refused(o),
        NEW p \in Stage2!All,
           p \in Stage2!Listed(page[o].name), Stage2!Keeps(o, p)
    PROVE  Stage2!Effective(p)'.secret = Stage2!Effective(p).secret
<1> DEFINE kept == page[o].kept[p]
           new == Stage2!Merged(o, p)
<1>1. /\ SettingTypes /\ page[o] \in Page /\ providers[p] \in Setting
      /\ page[o].form[p] \in Setting /\ kept \in Setting
  BY DEF SettingInvariant, SettingTypes, Page, Settings
<1>2. /\ page[o].legacy = legacy /\ kept.there = providers[p].there
          /\ kept.secret = providers[p].secret
  BY DEF SettingInvariant, AsRead, Stage2!Commit, Stage2!Keeps
<1>3. PICK whole \in BOOLEAN : providers'[p] = Stage2!Written(o, p, whole) /\ env' = env
  <2>1. PICK some \in SUBSET Stage2!Listed(page[o].name) :
            providers'[p] = Stage2!Written(o, p, p \in some) /\ env' = env
    BY DEF Stage2!Commit
  <2>2. (p \in some) \in BOOLEAN
    OBVIOUS
  <2> QED BY <2>1, <2>2
<1>4. new.there = TRUE
  BY <1>1 DEF Stage2!Merged, Setting
<1>5. new.secret = Stage2!Effective(p).secret
  <2>1. page[o].form[p].secret = Stage2!Masked
    BY DEF Stage2!Keeps
  <2>2. CASE page[o].name = "claude"
    <3>1. new.secret = Stage2!MergeLegacySecret(page[o].form[p].secret, page[o].legacy.secret)
      BY <1>1, <2>2 DEF Stage2!Merged, Setting
    <3>2. new.secret = legacy.secret
      BY <1>2, <2>1, <3>1 DEF Stage2!MergeLegacySecret
    <3>3. p = Claude /\ providers[p].there /\ legacy.secret = providers[p].secret
      BY <2>2 DEF Stage2!Listed, Stage2!Keeps
    <3> QED BY <3>2, <3>3 DEF Stage2!Effective
  <2>3. CASE page[o].name # "claude"
    <3>1. new.secret = Stage2!MergeSecret(page[o].form[p].secret, Stage2!Existing(o, p))
      BY <1>1, <2>3 DEF Stage2!Merged, Setting
    <3>2. new.secret = Stage2!Existing(o, p) /\ Stage2!Existing(o, p) # Stage2!Masked
      BY <2>1, <3>1 DEF Stage2!MergeSecret, Stage2!Keeps
    <3>3. CASE providers[p].there
      <4>1. Stage2!Existing(o, p) = providers[p].secret
        BY <1>2, <3>2, <3>3 DEF Stage2!Existing
      <4> QED BY <3>2, <3>3, <4>1 DEF Stage2!Effective
    <3>4. CASE ~providers[p].there
      <4>1. p # Claude
        BY <3>4 DEF Stage2!Keeps
      <4>2. Stage2!Existing(o, p) = env[p]
        BY <1>2, <3>2, <3>4, <4>1 DEF Stage2!Existing
      <4>3. Stage2!Effective(p).secret = env[p]
        BY <3>4, <4>1 DEF Stage2!Effective, Stage2!None
      <4> QED BY <3>2, <4>2, <4>3
    <3> QED BY <3>3, <3>4
  <2> QED BY <2>2, <2>3
<1>6. Stage2!Written(o, p, whole).there /\ Stage2!Written(o, p, whole).secret = new.secret
  <2> HIDE DEF new
  <2>1. new \in Setting
    BY <1>1, Computed DEF new
  <2>2. CASE kept.there /\ kept.enabled = new.enabled /\ ~whole
    <3>1. Stage2!Written(o, p, whole) = [providers[p] EXCEPT !.secret = new.secret]
      BY <2>2 DEF Stage2!Written, new
    <3>2. providers[p].there
      BY <1>2, <2>2
    <3> QED BY <1>1, <3>1, <3>2 DEF Setting
  <2>3. CASE ~(kept.there /\ kept.enabled = new.enabled /\ ~whole)
    <3>1. Stage2!Written(o, p, whole) = new
      BY <2>3 DEF Stage2!Written, new
    <3> QED BY <1>4, <3>1
  <2> QED BY <2>2, <2>3
<1>7. Stage2!Effective(p)' = providers'[p]
  BY <1>3, <1>6 DEF Stage2!Effective
<1> QED BY <1>3, <1>5, <1>6, <1>7

\* What is effective changes by a commit, and a secret by one that is to change it.
LEMMA SecretsStay ==
    ASSUME SettingInvariant, [Stage2!Next]_(Stage2!providerVars), NEW p \in Stage2!All
    PROVE  /\ Stage2!Effective(p)'.enabled # Stage2!Effective(p).enabled =>
                 \E o \in Operators :
                     \/ page[o].at = "commit" /\ page'[o] = Stage2!Closed
                     \/ page[o].at = "test" /\ page'[o].at = "edited" /\ ~page[o].alone
           /\ Stage2!Effective(p)'.secret # Stage2!Effective(p).secret =>
                 \E o \in Operators :
                     /\ page[o].at = "commit" /\ page'[o] = Stage2!Closed
                     /\ p \in Stage2!Listed(page[o].name)
                     /\ ~Stage2!Keeps(o, p)
<1>0. SettingTypes /\ page \in [Operators -> Page]
  BY DEF SettingInvariant, SettingTypes
<1>1. ASSUME NEW o \in Operators,
             Stage2!Open(o) \/ Stage2!Edit(o) \/ Stage2!Save(o) \/ Stage2!Test(o)
      PROVE  Stage2!Effective(p)' = Stage2!Effective(p)
  BY <1>1, EffectiveStays DEF Stage2!Open, Stage2!Edit, Stage2!Save, Stage2!Test
<1>2. CASE UNCHANGED Stage2!providerVars
  <2>1. Stage2!Effective(p)' = Stage2!Effective(p)
    BY <1>2, EffectiveStays DEF Stage2!providerVars
  <2> QED BY <2>1
<1>3. ASSUME NEW o \in Operators, Stage2!Record(o)
      PROVE  /\ page[o].at = "test" /\ page'[o].at = "edited"
             /\ Stage2!Effective(p)'.secret = Stage2!Effective(p).secret
             /\ page[o].alone => Stage2!Effective(p)'.enabled = Stage2!Effective(p).enabled
  <2>1. page[o].at = "test" /\ page[o] \in Page
    BY <1>0, <1>3 DEF Stage2!Record
  <2>2. page'[o] = [page[o] EXCEPT !.at = "edited", !.alone = TRUE, !.kept = Stage2!Closed.kept]
    BY <1>3 DEF Stage2!Record
  <2>3. page'[o].at = "edited"
    BY <2>1, <2>2 DEF Page
  <2> QED BY <1>3, <2>1, <2>3, TestsChangeNoSecret
<1>4. ASSUME NEW o \in Operators, Stage2!Commit(o)
      PROVE  /\ page[o].at = "commit" /\ page'[o] = Stage2!Closed
             /\ \/ Stage2!Effective(p)'.secret = Stage2!Effective(p).secret
                \/ p \in Stage2!Listed(page[o].name) /\ ~Stage2!Keeps(o, p)
  <2>1. page[o].at = "commit" /\ page'[o] = Stage2!Closed
    BY <1>0, <1>4 DEF Stage2!Commit
  <2>2. CASE Stage2!Refused(o)
    <3>1. Stage2!Effective(p)' = Stage2!Effective(p)
      BY <1>4, <2>2, EffectiveStays DEF Stage2!Commit
    <3> QED BY <2>1, <3>1
  <2>3. CASE ~Stage2!Refused(o) /\ p \notin Stage2!Listed(page[o].name)
    <3>1. providers'[p] = providers[p] /\ env' = env
      <4>1. \E whole \in SUBSET Stage2!Listed(page[o].name) : Whole(o, whole)
        BY <1>4, <2>3 DEF Stage2!Commit, Whole
      <4> QED BY <1>4, <2>3, <4>1 DEF Stage2!Commit, Whole
    <3>2. p = Claude => legacy' = legacy
      BY <1>4, <2>3 DEF Stage2!Commit, Stage2!Listed
    <3>3. Stage2!Effective(p)' = Stage2!Effective(p)
      BY <3>1, <3>2, EffectiveStays
    <3> QED BY <2>1, <3>3
  <2>4. CASE ~Stage2!Refused(o) /\ p \in Stage2!Listed(page[o].name) /\ Stage2!Keeps(o, p)
    BY <1>4, <2>1, <2>4, SavesKeep
  <2> QED BY <2>1, <2>2, <2>3, <2>4
<1> QED BY <1>1, <1>2, <1>3, <1>4 DEF Stage2!Next

\* A secret that a save is to keep is kept.
THEOREM SecretIsKept == Stage2!Spec => SecretKept
<1>1. Stage2!Init => SettingInvariant
  BY SettingStarting
<1>2. SettingInvariant /\ [Stage2!Next]_(Stage2!providerVars) => SettingInvariant'
  BY SettingKeeping
<1>3. SettingInvariant /\ [Stage2!Next]_(Stage2!providerVars) =>
        [\A p \in DOMAIN providers :
          /\ Stage2!Effective(p)'.enabled # Stage2!Effective(p).enabled =>
                 \E o \in DOMAIN page :
                     \/ page[o].at = "commit" /\ page'[o] = Stage2!Closed
                     \/ page[o].at = "test" /\ page'[o].at = "edited" /\ ~page[o].alone
          /\ Stage2!Effective(p)'.secret # Stage2!Effective(p).secret =>
                 \E o \in DOMAIN page :
                     /\ page[o].at = "commit" /\ page'[o] = Stage2!Closed
                     /\ p \in Stage2!Listed(page[o].name)
                     /\ ~Stage2!Keeps(o, p)]_(Stage2!providerVars)
  <2>1. SettingInvariant => DOMAIN providers = Stage2!All /\ DOMAIN page = Operators
    BY DEF SettingInvariant, SettingTypes, Settings
  <2> QED BY <2>1, SecretsStay
<1> QED BY <1>1, <1>2, <1>3, PTL DEF Stage2!Spec, Stage2!SecretKept, SecretKept

-----------------------------------------------------------------------------
(* PoiSearch: an answer that is promised is on its way, or was dropped.    *)

\* What the messages and the results are, and where a request can be.
SearchTypes ==
    /\ wire \in Seq([id : Nat, feature : BOOLEAN]) /\ found \in Seq(Nat)
    /\ next \in Nat /\ searches \subseteq 1..next
    /\ ~Poi!Idle => request \in [id : {next} \ {0}, then : {"send", "commit"}]
           /\ next \notin searches

\* A search whose answer was promised, or is when its row is committed, has a message or a
\* result on its way, or its result was dropped.
Promised(s) == s \in owed \/ request = [id |-> s, then |-> "commit"]
HasMessage(s) == \E n \in DOMAIN wire : wire[n].id = s
HasResult(s) == \E n \in DOMAIN found : found[n] = s
Followed(s) == s \in dropped \/ HasMessage(s) \/ HasResult(s)

SearchInvariant ==
    SearchTypes /\ (reid = "up" => \A s \in queries : Promised(s) => Followed(s))

-----------------------------------------------------------------------------
\* The operators that the component's module takes from the libraries are those of here.
LEMMA PoiCardinality == \A S : Poi!Cardinality(S) = Cardinality(S)
  BY DEF Poi!Cardinality, Cardinality

\* The invariant holds at the start.
LEMMA SearchStarting == Poi!Init => SearchInvariant
  BY DEF Poi!Init, SearchInvariant, SearchTypes, Poi!Idle, Poi!NoRequest

\* What sending adds to the messages.
LEMMA Sending ==
    ASSUME SearchTypes, NEW message \in [id : Nat, feature : BOOLEAN], Poi!Sent(message)
        \/ Poi!NotSent(message)
    PROVE  /\ wire' \in Seq([id : Nat, feature : BOOLEAN])
           /\ \A n \in DOMAIN wire : n \in DOMAIN wire' /\ wire'[n] = wire[n]
           /\ Poi!Sent(message) => \E n \in DOMAIN wire' : wire'[n] = message
<1> DEFINE Message == [id : Nat, feature : BOOLEAN]
<1>1. wire \in Seq(Message) /\ message \in Message
  BY DEF SearchTypes
<1>2. wire' = wire \/ wire' = Append(wire, message) \/ wire' = wire \o <<message, message>>
  BY DEF Poi!Sent, Poi!NotSent
<1>3. Poi!Sent(message) => wire' = Append(wire, message) \/ wire' = wire \o <<message, message>>
  BY DEF Poi!Sent
<1> HIDE DEF Message
<1>4. CASE wire' = wire
  <2>1. ~Poi!Sent(message)
    <3>1. Len(Append(wire, message)) = Len(wire) + 1 /\ Len(wire) \in Nat
      BY <1>1
    <3>2. Len(wire \o <<message, message>>) = Len(wire) + 2
      BY <1>1
    <3> QED BY <1>3, <1>4, <3>1, <3>2
  <2> QED BY <1>1, <1>4, <2>1 DEF Message
<1>5. CASE wire' = Append(wire, message)
  <2>1. wire' \in Seq(Message) /\ Len(wire') = Len(wire) + 1 /\ wire'[Len(wire) + 1] = message
    BY <1>1, <1>5
  <2>2. \A n \in DOMAIN wire : n \in DOMAIN wire' /\ wire'[n] = wire[n]
    BY <1>1, <1>5
  <2>3. Len(wire) + 1 \in DOMAIN wire'
    BY <1>1, <2>1
  <2> QED BY <2>1, <2>2, <2>3 DEF Message
<1>6. CASE wire' = wire \o <<message, message>>
  <2>1. /\ wire' \in Seq(Message) /\ Len(wire') = Len(wire) + 2
        /\ wire'[Len(wire) + 1] = message
    BY <1>1, <1>6
  <2>2. \A n \in DOMAIN wire : n \in DOMAIN wire' /\ wire'[n] = wire[n]
    BY <1>1, <1>6
  <2>3. Len(wire) + 1 \in DOMAIN wire'
    BY <1>1, <2>1
  <2> QED BY <2>1, <2>2, <2>3 DEF Message
<1> QED BY <1>2, <1>4, <1>5, <1>6

\* The result of the messages that lead to one: every one of them has its own.
LEMMA EveryAnswerIsFound ==
    ASSUME SearchTypes, NEW n \in Nat, n <= Len(wire), NEW order \in Poi!Ordered(Poi!Answered(n)),
           found' = found \o [k \in DOMAIN order |-> wire[order[k]].id]
    PROVE  /\ found' \in Seq(Nat)
           /\ \A k \in DOMAIN found : k \in DOMAIN found' /\ found'[k] = found[k]
           /\ \A i \in Poi!Answered(n) : \E k \in DOMAIN found' : found'[k] = wire[i].id
<1> DEFINE size == Cardinality(Poi!Answered(n))
           new == [k \in 1..size |-> wire[order[k]].id]
<1>1. order \in [1..size -> Poi!Answered(n)]
          /\ \A i \in Poi!Answered(n) : \E k \in 1..size : order[k] = i
  BY PoiCardinality DEF Poi!Ordered, Poi!Surjection
<1>2. Poi!Answered(n) \subseteq DOMAIN wire /\ size \in Nat
  <2>1. Poi!Answered(n) \subseteq 1..n
    BY DEF Poi!Answered
  <2>2. IsFiniteSet(1..n)
    BY FS_Interval
  <2>3. size \in Nat
    BY <2>1, <2>2, FS_Subset, FS_CardinalityType
  <2>4. 1..n \subseteq DOMAIN wire
    BY DEF SearchTypes
  <2> QED BY <2>1, <2>3, <2>4
<1>3. new \in Seq(Nat) /\ Len(new) = size
  <2>1. \A k \in 1..size : wire[order[k]].id \in Nat
    <3>1. \A i \in DOMAIN wire : wire[i].id \in Nat
      <4> DEFINE Message == [id : Nat, feature : BOOLEAN]
      <4>1. \A i \in DOMAIN wire : wire[i] \in Message
        <5>1. wire \in Seq(Message)
          BY DEF SearchTypes
        <5> HIDE DEF Message
        <5> QED BY <5>1
      <4> QED BY <4>1
    <3>2. \A k \in 1..size : order[k] \in DOMAIN wire
      BY <1>1, <1>2
    <3> QED BY <3>1, <3>2
  <2> HIDE DEF size
  <2> QED BY <1>2, <2>1
<1>4. found' = found \o new
  BY <1>1
<1>5. /\ found' \in Seq(Nat)
      /\ \A k \in DOMAIN found : k \in DOMAIN found' /\ found'[k] = found[k]
      /\ \A k \in 1..size : Len(found) + k \in DOMAIN found' /\ found'[Len(found) + k] = new[k]
  <2>1. found \in Seq(Nat)
    BY DEF SearchTypes
  <2>2. DOMAIN new = 1..size
    OBVIOUS
  <2>3. PICK e \in Seq(Nat) : e = new
    <3> HIDE DEF new
    <3> QED BY <1>3
  <2>4. found \o e \in Seq(Nat)
    BY <2>1
  <2>5. \A k \in DOMAIN found : k \in DOMAIN (found \o e) /\ (found \o e)[k] = found[k]
    BY <2>1
  <2>6. \A k \in DOMAIN e :
              Len(found) + k \in DOMAIN (found \o e) /\ (found \o e)[Len(found) + k] = e[k]
    BY <2>1
  <2>7. found' = found \o e
    BY <1>4, <2>3
  <2> HIDE DEF new, size
  <2> QED BY <2>2, <2>3, <2>4, <2>5, <2>6, <2>7
<1>6. ASSUME NEW i \in Poi!Answered(n) PROVE \E k \in DOMAIN found' : found'[k] = wire[i].id
  <2>1. PICK k \in 1..size : order[k] = i
    BY <1>1
  <2>2. new[k] = wire[i].id
    BY <2>1
  <2> QED BY <1>5, <2>2
<1> QED BY <1>5, <1>6

\* Messages that stay are found further to the front.
LEMMA Leaving ==
    ASSUME SearchTypes, NEW n \in Nat, n <= Len(wire), wire' = SubSeq(wire, n + 1, Len(wire))
    PROVE  /\ wire' \in Seq([id : Nat, feature : BOOLEAN])
           /\ \A i \in DOMAIN wire : i > n => i - n \in DOMAIN wire' /\ wire'[i - n] = wire[i]
<1> DEFINE Message == [id : Nat, feature : BOOLEAN]
<1>1. wire \in Seq(Message)
  BY DEF SearchTypes
<1> HIDE DEF Message
<1>2. wire' \in Seq(Message) /\ Len(wire') = Len(wire) - n
  BY <1>1
<1>3. ASSUME NEW i \in DOMAIN wire, i > n PROVE i - n \in DOMAIN wire' /\ wire'[i - n] = wire[i]
  <2>1. i \in 1..Len(wire) /\ i - n \in 1..Len(wire) - n
    BY <1>1, <1>3
  <2> QED BY <1>1, <1>2, <2>1
<1> QED BY <1>2, <1>3 DEF Message

\* Every step keeps the types.
LEMMA SearchTypesStep == ASSUME SearchTypes, [Poi!Next]_(Poi!poiVars) PROVE SearchTypes'
<1> USE DEF Poi!apiVars, Poi!reidVars, Poi!Idle, Poi!NoRequest
<1>1. CASE Poi!Register
  <2>1. next' = next + 1 /\ request' = [id |-> next', then |-> "send"]
    BY <1>1 DEF Poi!Register
  <2>2. next' \in Nat /\ searches \subseteq 1..next' /\ next' \notin searches
    BY <2>1 DEF SearchTypes
  <2> QED BY <1>1, <2>1, <2>2 DEF Poi!Register, SearchTypes
<1>2. CASE Poi!SendFeature
  <2>1. request \in [id : {next} \ {0}, then : {"send", "commit"}] /\ next \notin searches
    BY <1>2 DEF Poi!SendFeature, SearchTypes
  <2>2. [id |-> request.id, feature |-> TRUE] \in [id : Nat, feature : BOOLEAN]
    BY <2>1 DEF SearchTypes
  <2>3. wire' \in Seq([id : Nat, feature : BOOLEAN])
    BY <1>2, <2>2, Sending DEF Poi!SendFeature
  <2>4. request' \in {[request EXCEPT !.then = "commit"], Poi!NoRequest}
    BY <1>2 DEF Poi!SendFeature
  <2> QED BY <1>2, <2>1, <2>3, <2>4 DEF Poi!SendFeature, SearchTypes
<1>3. CASE Poi!Commit
  <2>1. request \in [id : {next} \ {0}, then : {"send", "commit"}] /\ next \in 1..next
    BY <1>3 DEF Poi!Commit, SearchTypes
  <2>2. searches' \subseteq 1..next
    BY <1>3, <2>1 DEF Poi!Commit, SearchTypes
  <2> QED BY <1>3, <2>2 DEF Poi!Commit, SearchTypes
<1>4. ASSUME NEW s \in searches, Poi!AskAgain(s) PROVE SearchTypes'
  <2>1. [id |-> s, feature |-> FALSE] \in [id : Nat, feature : BOOLEAN]
    BY DEF SearchTypes
  <2>2. wire' \in Seq([id : Nat, feature : BOOLEAN])
    BY <1>4, <2>1, Sending DEF Poi!AskAgain
  <2> QED BY <1>4, <2>2 DEF Poi!AskAgain, SearchTypes
<1>5. CASE Poi!Update
  <2>1. PICK n \in 1..PerFrame :
            /\ n <= Len(wire) /\ wire' = SubSeq(wire, n + 1, Len(wire))
            /\ \/ UNCHANGED found
               \/ \E order \in Poi!Ordered(Poi!Answered(n)) :
                     found' = found \o [k \in DOMAIN order |-> wire[order[k]].id]
    BY <1>5 DEF Poi!Update
  <2>2. n \in Nat
    BY PartsAssumption
  <2>3. found' \in Seq(Nat)
    BY <2>1, <2>2, EveryAnswerIsFound DEF SearchTypes
  <2>4. wire' \in Seq([id : Nat, feature : BOOLEAN])
    BY <2>1, <2>2, Leaving
  <2> QED BY <1>5, <2>3, <2>4 DEF Poi!Update, SearchTypes
<1>6. CASE Poi!Write
  <2>1. found' \in Seq(Nat)
    BY <1>6 DEF Poi!Write, SearchTypes
  <2> QED BY <1>6, <2>1 DEF Poi!Write, SearchTypes
<1>7. CASE Poi!Restart
  <2>1. PICK n \in 0..Len(wire) : wire' = SubSeq(wire, n + 1, Len(wire))
    BY <1>7 DEF Poi!Restart
  <2>2. n \in Nat /\ n <= Len(wire)
    BY DEF SearchTypes
  <2>3. wire' \in Seq([id : Nat, feature : BOOLEAN])
    BY <2>1, <2>2, Leaving
  <2> QED BY <1>7, <2>3 DEF Poi!Restart, SearchTypes
<1>8. CASE Poi!StartBeside
  BY <1>8 DEF Poi!StartBeside, SearchTypes
<1>9. CASE Poi!Swallow
  <2>1. wire' \in Seq([id : Nat, feature : BOOLEAN])
    <3> DEFINE Message == [id : Nat, feature : BOOLEAN]
    <3>1. wire \in Seq(Message) /\ wire # <<>> /\ wire' = Tail(wire)
      BY <1>9 DEF Poi!Swallow, SearchTypes
    <3> HIDE DEF Message
    <3>2. wire' \in Seq(Message)
      BY <3>1
    <3> QED BY <3>2 DEF Message
  <2> QED BY <1>9, <2>1 DEF Poi!Swallow, SearchTypes
<1>10. CASE UNCHANGED Poi!poiVars
  BY <1>10 DEF Poi!poiVars, SearchTypes
<1> QED BY <1>1, <1>2, <1>3, <1>4, <1>5, <1>6, <1>7, <1>8, <1>9, <1>10 DEF Poi!Next

\* Every step follows the searches that are promised an answer.
LEMMA SearchKeeping == ASSUME SearchInvariant, [Poi!Next]_(Poi!poiVars) PROVE SearchInvariant'
<1> USE DEF Poi!apiVars, Poi!reidVars, Poi!Idle, Poi!NoRequest
<1>0. SearchTypes /\ SearchTypes'
  BY SearchTypesStep DEF SearchInvariant
<1> SUFFICES ASSUME reid' = "up", NEW s \in queries', Promised(s)' PROVE Followed(s)'
  BY <1>0 DEF SearchInvariant
<1>1. CASE Poi!Register
  <2>1. Promised(s)
    BY <1>1 DEF Poi!Register, Promised
  <2> QED BY <1>1, <2>1 DEF Poi!Register, SearchInvariant, Followed, HasMessage, HasResult
<1>2. CASE Poi!SendFeature
  <2>1. request \in [id : {next} \ {0}, then : {"send", "commit"}]
    BY <1>0, <1>2 DEF Poi!SendFeature, SearchTypes
  <2> DEFINE message == [id |-> request.id, feature |-> TRUE]
  <2>2. message \in [id : Nat, feature : BOOLEAN]
    BY <1>0, <2>1 DEF SearchTypes
  <2>3. /\ \A n \in DOMAIN wire : n \in DOMAIN wire' /\ wire'[n] = wire[n]
        /\ Poi!Sent(message) => \E n \in DOMAIN wire' : wire'[n] = message
    BY <1>0, <1>2, <2>2, Sending DEF Poi!SendFeature
  <2>4. CASE Promised(s)
    <3>1. Followed(s)
      BY <1>2, <2>4 DEF Poi!SendFeature, SearchInvariant
    <3> QED BY <1>2, <2>3, <3>1 DEF Poi!SendFeature, Followed, HasMessage, HasResult
  <2>5. CASE ~Promised(s)
    <3>1. request' = [id |-> s, then |-> "commit"]
      BY <1>2, <2>5 DEF Poi!SendFeature, Promised
    <3>2. Poi!Sent(message) /\ request' = [request EXCEPT !.then = "commit"]
      BY <1>2, <3>1 DEF Poi!SendFeature
    <3>3. message.id = s
      BY <2>1, <3>1, <3>2
    <3>4. HasMessage(s)'
      BY <2>3, <3>2, <3>3 DEF HasMessage
    <3> QED BY <3>4 DEF Followed
  <2> QED BY <2>4, <2>5
<1>3. CASE Poi!Commit
  <2>1. request \in [id : {next} \ {0}, then : {"send", "commit"}]
    BY <1>0, <1>3 DEF Poi!Commit, SearchTypes
  <2>2. request = [id |-> request.id, then |-> "commit"]
    BY <1>3, <2>1 DEF Poi!Commit
  <2>3. Promised(s)
    BY <1>3, <2>2 DEF Poi!Commit, Promised
  <2> QED BY <1>3, <2>3 DEF Poi!Commit, SearchInvariant, Followed, HasMessage, HasResult
<1>4. ASSUME NEW t \in searches, Poi!AskAgain(t) PROVE Followed(s)'
  <2> DEFINE message == [id |-> t, feature |-> FALSE]
  <2>1. message \in [id : Nat, feature : BOOLEAN] /\ message.id = t
    BY <1>0 DEF SearchTypes
  <2>2. /\ \A n \in DOMAIN wire : n \in DOMAIN wire' /\ wire'[n] = wire[n]
        /\ Poi!Sent(message) => \E n \in DOMAIN wire' : wire'[n] = message
    BY <1>0, <1>4, <2>1, Sending DEF Poi!AskAgain
  <2>3. CASE Poi!Sent(message) /\ s = t
    BY <2>1, <2>2, <2>3 DEF Followed, HasMessage
  <2>4. CASE ~(Poi!Sent(message) /\ s = t)
    <3>1. Promised(s) /\ (s \in dropped => s \in dropped') /\ UNCHANGED found
      BY <1>4, <2>4 DEF Poi!AskAgain, Promised
    <3>2. Followed(s)
      BY <1>4, <3>1 DEF Poi!AskAgain, SearchInvariant
    <3> QED BY <2>2, <3>1, <3>2 DEF Followed, HasMessage, HasResult
  <2> QED BY <2>3, <2>4
<1>5. CASE Poi!Update
  <2>1. PICK n \in 1..PerFrame :
            /\ n <= Len(wire) /\ wire' = SubSeq(wire, n + 1, Len(wire))
            /\ queries' = Poi!Known(n + 1)
            /\ IF \E i \in 1..n : Poi!Repeated(i)
               THEN reid' = "dead" /\ UNCHANGED found
               ELSE /\ UNCHANGED reid
                    /\ \E order \in Poi!Ordered(Poi!Answered(n)) :
                           found' = found \o [k \in DOMAIN order |-> wire[order[k]].id]
    BY <1>5 DEF Poi!Update
  <2>2. n \in Nat
    BY PartsAssumption
  <2>3. PICK order \in Poi!Ordered(Poi!Answered(n)) :
            found' = found \o [k \in DOMAIN order |-> wire[order[k]].id]
    BY <2>1
  <2>4. reid = "up" /\ Promised(s) /\ UNCHANGED dropped
    BY <1>5, <2>1 DEF Poi!Update, Promised
  <2>5. /\ \A k \in DOMAIN found : k \in DOMAIN found' /\ found'[k] = found[k]
        /\ \A i \in Poi!Answered(n) : \E k \in DOMAIN found' : found'[k] = wire[i].id
    BY <1>0, <2>1, <2>2, <2>3, EveryAnswerIsFound
  <2>6. CASE s \in queries
    <3>1. Followed(s)
      BY <2>4, <2>6 DEF SearchInvariant
    <3>2. CASE s \in dropped
      BY <2>4, <3>2 DEF Followed
    <3>3. CASE HasResult(s)
      BY <2>5, <3>3 DEF Followed, HasResult
    <3>4. CASE HasMessage(s)
      <4>1. PICK i \in DOMAIN wire : wire[i].id = s
        BY <3>4 DEF HasMessage
      <4>2. CASE i > n
        <5>1. i - n \in DOMAIN wire' /\ wire'[i - n] = wire[i]
          BY <1>0, <2>1, <2>2, <4>2, Leaving
        <5> QED BY <4>1, <5>1 DEF Followed, HasMessage
      <4>3. CASE ~(i > n)
        <5>1. i \in 1..n
          BY <1>0, <2>2, <4>3 DEF SearchTypes
        <5>2. i \in Poi!Answered(n)
          BY <2>6, <4>1, <5>1 DEF Poi!Answered, Poi!Known
        <5> QED BY <2>5, <4>1, <5>2 DEF Followed, HasResult
      <4> QED BY <4>2, <4>3
    <3> QED BY <3>1, <3>2, <3>3, <3>4 DEF Followed
  <2>7. CASE s \notin queries
    <3>1. PICK i \in 1 .. (n + 1) - 1 : wire[i].feature /\ wire[i].id = s
      BY <2>1, <2>7 DEF Poi!Known
    <3>2. i \in Poi!Answered(n)
      BY <2>2, <3>1 DEF Poi!Answered
    <3> QED BY <2>5, <3>1, <3>2 DEF Followed, HasResult
  <2> QED BY <2>6, <2>7
<1>6. CASE Poi!Write
  <2>1. /\ found # <<>> /\ found' = Tail(found) /\ found \in Seq(Nat)
        /\ UNCHANGED <<reid, queries, wire, request>>
    BY <1>0, <1>6 DEF Poi!Write, SearchTypes
  <2>2. CASE s = Head(found)
    <3>1. CASE Head(found) \in searches /\ owed' = owed \ {Head(found)}
      <4>1. owed' = owed \ {s}
        BY <2>2, <3>1
      <4>2. request = [id |-> s, then |-> "commit"]
        BY <2>1, <4>1 DEF Promised
      <4>3. s = next /\ next \notin searches
        BY <1>0, <4>2 DEF SearchTypes
      <4> QED BY <2>2, <3>1, <4>3
    <3>2. CASE dropped' = dropped \cup {Head(found)}
      <4>1. s \in dropped'
        BY <2>2, <3>2
      <4> QED BY <4>1 DEF Followed
    <3> QED BY <1>6, <3>1, <3>2 DEF Poi!Write
  <2>3. CASE s # Head(found)
    <3>1. Promised(s) /\ (s \in dropped => s \in dropped')
      BY <1>6, <2>1, <2>3 DEF Poi!Write, Promised
    <3>2. Followed(s)
      BY <2>1, <3>1 DEF SearchInvariant
    <3>3. CASE HasResult(s)
      <4>1. PICK n \in DOMAIN found : found[n] = s
        BY <3>3 DEF HasResult
      <4>2. n # 1 /\ n \in 1..Len(found)
        BY <2>1, <2>3, <4>1
      <4>3. n - 1 \in DOMAIN found' /\ found'[n - 1] = found[n]
        BY <2>1, <4>2
      <4> QED BY <4>1, <4>3 DEF Followed, HasResult
    <3>4. CASE s \in dropped \/ HasMessage(s)
      BY <2>1, <3>1, <3>4 DEF Followed, HasMessage
    <3> QED BY <3>2, <3>3, <3>4 DEF Followed
  <2> QED BY <2>2, <2>3
<1>7. CASE Poi!Restart
  BY <1>7 DEF Poi!Restart
<1>8. CASE Poi!StartBeside
  BY <1>8 DEF Poi!StartBeside
<1>9. CASE Poi!Swallow
  BY <1>9 DEF Poi!Swallow
<1>10. CASE UNCHANGED Poi!poiVars
  BY <1>10 DEF Poi!poiVars, SearchInvariant, Promised, Followed, HasMessage, HasResult
<1> QED BY <1>1, <1>2, <1>3, <1>4, <1>5, <1>6, <1>7, <1>8, <1>9, <1>10 DEF Poi!Next

\* When nothing is on its way, a known search was answered or its result was dropped.
LEMMA SearchShown == SearchInvariant => Poi!SearchesAnswered
<1> SUFFICES ASSUME SearchInvariant, Poi!Idle, wire = <<>>, found = <<>>, reid = "up",
                    NEW s \in owed \cap queries
             PROVE  s \in dropped
  BY DEF Poi!SearchesAnswered
<1>1. Followed(s)
  BY DEF SearchInvariant, Promised
<1>2. DOMAIN wire = {} /\ DOMAIN found = {}
  OBVIOUS
<1> QED BY <1>1, <1>2 DEF Followed, HasMessage, HasResult

-----------------------------------------------------------------------------
\* An operator who pages through the log of what the models said sees every row that is
\* there all the time, however many workers write and prune it and fail to, unless a row
\* came between a count and its page, or late; and no prune is about to delete one of the
\* newest rows that are kept.
THEOREM LogsAreComplete == Logs!Spec => []LogsComplete
<1>1. Logs!Spec => []LogInvariant
  BY LogStarting, LogKeeping, PTL DEF Logs!Spec
<1>2. LogInvariant => LogsComplete
  BY DEF LogInvariant, FoundStale, Paged, LogsComplete, Logs!LogsComplete
<1> QED BY <1>1, <1>2, PTL

\* However messages are doubled, lost or overtaken by the commit: a search reid knows, and
\* whose answer was promised, is answered, or its result was dropped, because it overtook
\* the row of the search or because its own commit failed.
THEOREM SearchesAreAnswered == Poi!Spec => []SearchesAnswered
<1>1. SearchInvariant /\ [Poi!Next]_(Poi!poiVars) => SearchInvariant'
  BY SearchKeeping
<1>2. SearchInvariant => SearchesAnswered
  BY SearchShown DEF SearchesAnswered
<1> QED BY SearchStarting, <1>1, <1>2, PTL DEF Poi!Spec

-----------------------------------------------------------------------------
(* Anomaly: the candidates of a source, for any cameras and sources, any intervals, *)
(* quiet period, cooldown, least number of tracks and times.                         *)

SourceStates == [last_empty_at : Int, last_event_at : Int, last_activity_at : Int]

\* What is known of a source: the last empty frame was not before the last candidate, but
\* for what a frame was behind; and a camera was evaluated since the last candidate.
Known(s, st, old, evals) ==
    /\ st \in SourceStates
    /\ \A time \in {st.last_empty_at, st.last_event_at, st.last_activity_at} :
           time = Gate!Never \/ time > 0
    /\ st.last_event_at # Gate!Never => st.last_activity_at # Gate!Never
    /\ st.last_event_at # Gate!Never /\ st.last_empty_at # Gate!Never
         => st.last_empty_at >= st.last_event_at - old
    /\ old \in Nat /\ (Gate!Alone(s) => old = 0)
    /\ st.last_event_at # Gate!Never
         => \E c \in Cameras : SourceOf[c] = s /\ evals[c] >= st.last_event_at

GateInvariant ==
    /\ track_time \in [Cameras -> Int] /\ last_eval \in [Cameras -> Int]
    /\ state \in [Gate!Templates -> SourceStates] /\ behind \in [Gate!Templates -> Nat]
    /\ \A s \in Gate!Templates : Known(s, state[s], behind[s], last_eval)

LEMMA GateNumbers ==
    /\ FrameInterval \in Nat /\ EvalInterval \in Nat /\ QuietPeriod \in Nat /\ Cooldown \in Nat
    /\ MinTracks \in Nat /\ MaxTime \in Nat /\ Gate!Least \in Nat
    /\ Gate!Never \in Int /\ Gate!Never <= 0
    /\ Gate!Least <= QuietPeriod /\ Gate!Least <= Cooldown
<1>1. /\ FrameInterval \in Nat /\ EvalInterval \in Nat /\ QuietPeriod \in Nat /\ Cooldown \in Nat
      /\ MinTracks \in Nat /\ MaxTime \in Nat
  BY AnomalyAssumption
<1> QED BY <1>1 DEF Gate!Least, Gate!Never

\* What the frame of a camera leaves known of its source, and how far its candidate is from
\* the last one.
LEMMA EvaluateKeeps ==
    ASSUME NEW s, NEW st, NEW old, NEW evals \in [Cameras -> Int], Known(s, st, old, evals),
           NEW c \in Cameras, SourceOf[c] = s,
           NEW t \in 1..MaxTime, NEW tracks \in Nat,
           evals[c] = Gate!Never \/ t - evals[c] >= EvalInterval,
           NEW lag, lag = IF st.last_event_at - t > old THEN st.last_event_at - t ELSE old
    PROVE  LET new == Gate!Evaluate(st, tracks, t)
               last == st.last_event_at
           IN  /\ Known(s, new, lag, [evals EXCEPT ![c] = t])
               /\ new.last_event_at # last /\ last # Gate!Never
                    => new.last_event_at - last >= Gate!Least - IF Gate!Alone(s) THEN 0 ELSE lag
<1> DEFINE new == Gate!Evaluate(st, tracks, t)
           after == [evals EXCEPT ![c] = t]
           e == st.last_event_at  a == st.last_activity_at  m == st.last_empty_at
<1>1. /\ st \in SourceStates /\ e \in Int /\ a \in Int /\ m \in Int
      /\ (e = Gate!Never \/ e > 0) /\ (a = Gate!Never \/ a > 0) /\ (m = Gate!Never \/ m > 0)
      /\ (e # Gate!Never => a # Gate!Never)
      /\ (e # Gate!Never /\ m # Gate!Never => m >= e - old)
      /\ old \in Nat /\ (Gate!Alone(s) => old = 0)
  BY DEF Known, SourceStates
<1>2. t # Gate!Never /\ t > 0 /\ t \in Int
  BY GateNumbers
<1>3. after \in [Cameras -> Int] /\ after[c] = t /\ \A d \in Cameras : d # c => after[d] = evals[d]
  BY <1>2
<1>4. e # Gate!Never => \E d \in Cameras : SourceOf[d] = s /\ evals[d] >= e
  BY DEF Known
<1>5. e # Gate!Never /\ evals[c] >= e => t >= e
  <2>1. evals[c] \in Int
    OBVIOUS
  <2> HIDE DEF e
  <2>2. e # Gate!Never /\ evals[c] >= e => evals[c] # Gate!Never
    BY <1>1, <2>1, GateNumbers
  <2> QED BY <1>1, <1>2, <2>1, <2>2, GateNumbers
<1>6. e # Gate!Never => \E d \in Cameras : SourceOf[d] = s /\ after[d] >= e
  <2>1. ASSUME e # Gate!Never PROVE \E d \in Cameras : SourceOf[d] = s /\ after[d] >= e
    <3>1. PICK d \in Cameras : SourceOf[d] = s /\ evals[d] >= e
      BY <1>4, <2>1
    <3>2. after[d] >= e
      <4>1. CASE d = c
        BY <1>3, <1>5, <2>1, <3>1, <4>1
      <4>2. CASE d # c
        BY <1>3, <3>1, <4>2
      <4> QED BY <4>1, <4>2
    <3> QED BY <3>1, <3>2
  <2> QED BY <2>1
<1>7. Gate!Alone(s) => lag = 0
  <2>1. ASSUME Gate!Alone(s) PROVE lag = 0
    <3>1. CASE e = Gate!Never
      <4> HIDE DEF e
      <4>1. ~(e - t > old)
        BY <1>1, <1>2, <3>1, GateNumbers
      <4> QED BY <1>1, <2>1, <4>1 DEF e
    <3>2. CASE e # Gate!Never
      <4>1. PICK d \in Cameras : SourceOf[d] = s /\ evals[d] >= e
        BY <1>4, <3>2
      <4>2. d = c
        BY <2>1, <4>1 DEF Gate!Alone
      <4>3. t >= e
        BY <1>5, <3>2, <4>1, <4>2
      <4> HIDE DEF e
      <4>4. ~(e - t > old)
        BY <1>1, <1>2, <4>3
      <4> QED BY <1>1, <2>1, <4>4 DEF e
    <3> QED BY <3>1, <3>2
  <2> QED BY <2>1
<1>8. lag \in Nat /\ lag >= old /\ lag >= e - t
  <2>1. lag = IF e - t > old THEN e - t ELSE old
    OBVIOUS
  <2> HIDE DEF e
  <2> QED BY <1>1, <1>2, <2>1
<1>9. CASE tracks = 0
  <2>1. new = [st EXCEPT !.last_empty_at = t]
    BY <1>9 DEF Gate!Evaluate
  <2>2. /\ new \in SourceStates /\ new.last_event_at = e /\ new.last_activity_at = a
        /\ new.last_empty_at = t
    BY <2>1, <1>1, <1>2 DEF SourceStates
  <2> HIDE DEF new, e, a, m, after
  <2>3. t >= e - lag
    BY <1>1, <1>2, <1>8
  <2>4. Known(s, new, lag, after)
    BY <2>2, <2>3, <1>1, <1>2, <1>6, <1>7, <1>8 DEF Known
  <2> QED BY <2>2, <2>4 DEF new, e, after
<1>10. CASE tracks # 0
  <2> DEFINE fires == Gate!Fires(st, tracks, t)
  <2>1. new = [last_activity_at |-> t, last_empty_at |-> Gate!Never,
               last_event_at |-> IF fires THEN t ELSE e]
    BY <1>10 DEF Gate!Evaluate
  <2>2. fires => a = Gate!Never \/ (m # Gate!Never /\ t - m >= QuietPeriod)
                   \/ (e # Gate!Never /\ t - e >= Cooldown)
    BY DEF Gate!Fires, Gate!First, Gate!Resumed, Gate!Sustained
  <2> HIDE DEF fires
  <2>3. new.last_event_at = (IF fires THEN t ELSE e) /\ new.last_activity_at = t
        /\ new.last_empty_at = Gate!Never
    BY <2>1
  <2>4. new.last_event_at \in Int
    BY <2>3, <1>1, <1>2
  <2>5. new \in SourceStates
    BY <2>1, <2>4, <1>2, GateNumbers DEF SourceStates
  <2>6. new.last_event_at # Gate!Never
          => \E d \in Cameras : SourceOf[d] = s /\ after[d] >= new.last_event_at
    <3>1. CASE fires
      <4>1. new.last_event_at = t /\ after[c] >= t
        BY <2>3, <3>1, <1>2, <1>3
      <4> QED BY <4>1
    <3>2. CASE ~fires
      <4>1. new.last_event_at = e
        BY <2>3, <3>2
      <4> HIDE DEF new, e, after
      <4> QED BY <4>1, <1>6
    <3> QED BY <3>1, <3>2
  <2> HIDE DEF new, e, a, m, after
  <2>7. Known(s, new, lag, after)
    BY <2>3, <2>5, <2>6, <1>1, <1>2, <1>7, <1>8 DEF Known
  <2>8. fires /\ e # Gate!Never => t - e >= Gate!Least - lag
    BY <2>2, <1>1, <1>2, <1>8, GateNumbers
  <2>9. new.last_event_at # e /\ e # Gate!Never
          => new.last_event_at - e >= Gate!Least - IF Gate!Alone(s) THEN 0 ELSE lag
    BY <2>3, <2>8, <1>7
  <2> QED BY <2>7, <2>9 DEF new, e, after
<1> QED BY <1>9, <1>10

\* What is known of a source stays known when a camera of another is evaluated, or when
\* none is.
LEMMA OthersKeep ==
    ASSUME NEW s, NEW st, NEW old, NEW evals \in [Cameras -> Int], Known(s, st, old, evals),
           NEW after, \A d \in Cameras : SourceOf[d] = s => after[d] = evals[d]
    PROVE  Known(s, st, old, after)
<1> DEFINE e == st.last_event_at
<1>1. e # Gate!Never => \E d \in Cameras : SourceOf[d] = s /\ after[d] >= e
  BY DEF Known
<1> QED BY <1>1 DEF Known

LEMMA GateStarting == Gate!Init => GateInvariant
<1> SUFFICES ASSUME Gate!Init PROVE GateInvariant
  OBVIOUS
<1> DEFINE unseen == [last_empty_at |-> Gate!Never, last_event_at |-> Gate!Never,
                      last_activity_at |-> Gate!Never]
<1>1. /\ track_time = [c \in Cameras |-> Gate!Never] /\ last_eval = [c \in Cameras |-> Gate!Never]
      /\ state = [s \in Gate!Templates |-> unseen] /\ behind = [s \in Gate!Templates |-> 0]
  BY DEF Gate!Init
<1>2. unseen \in SourceStates /\ \A s, evals : Known(s, unseen, 0, evals)
  BY GateNumbers DEF Known, SourceStates
<1> HIDE DEF unseen
<1> QED BY <1>1, <1>2, GateNumbers DEF GateInvariant

\* What a frame does to its source.
LEMMA FrameKeeps ==
    ASSUME GateInvariant, NEW c \in Cameras, Gate!Frame(c)
    PROVE  /\ GateInvariant'
           /\ \A s \in DOMAIN state :
                LET last == state[s].last_event_at  new == state'[s].last_event_at
                IN  new # last /\ last # Gate!Never
                      => new - last >= Gate!Least - IF Gate!Alone(s) THEN 0 ELSE behind'[s]
<1> DEFINE s == SourceOf[c]
<1>1. s \in Gate!Templates
  BY DEF Gate!Templates
<1>2. PICK t \in 1..MaxTime, tracks \in {0, 1, MinTracks} :
        /\ Gate!Due(c, t)
        /\ track_time' = [track_time EXCEPT ![c] = t] /\ last_eval' = [last_eval EXCEPT ![c] = t]
        /\ state' = [state EXCEPT ![s] = Gate!Evaluate(state[s], tracks, t)]
        /\ behind' = [behind EXCEPT ![s] =
               IF state[s].last_event_at - t > behind[s] THEN state[s].last_event_at - t
                                                         ELSE behind[s]]
  BY DEF Gate!Frame
<1> DEFINE after == Gate!Evaluate(state[s], tracks, t)
           lag == IF state[s].last_event_at - t > behind[s] THEN state[s].last_event_at - t
                                                            ELSE behind[s]
<1>3. t \in Int /\ tracks \in Nat
  BY GateNumbers
<1>4. /\ track_time \in [Cameras -> Int] /\ last_eval \in [Cameras -> Int]
      /\ state \in [Gate!Templates -> SourceStates] /\ behind \in [Gate!Templates -> Nat]
      /\ \A x \in Gate!Templates : Known(x, state[x], behind[x], last_eval)
  BY DEF GateInvariant
<1>5. /\ Known(s, after, lag, last_eval')
      /\ after.last_event_at # state[s].last_event_at /\ state[s].last_event_at # Gate!Never
           => after.last_event_at - state[s].last_event_at
                >= Gate!Least - IF Gate!Alone(s) THEN 0 ELSE lag
  <2>1. last_eval[c] = Gate!Never \/ t - last_eval[c] >= EvalInterval
    BY <1>2 DEF Gate!Due
  <2>2. Known(s, state[s], behind[s], last_eval)
    BY <1>1, <1>4
  <2> QED BY <1>2, <1>3, <1>4, <2>1, <2>2, EvaluateKeeps
<1>6. after \in SourceStates /\ lag \in Nat
  BY <1>5 DEF Known
<1>7. state' = [state EXCEPT ![s] = after] /\ behind' = [behind EXCEPT ![s] = lag]
  BY <1>2
<1>8. last_eval' \in [Cameras -> Int] /\ track_time' \in [Cameras -> Int]
  BY <1>2, <1>3, <1>4
<1>9. \A x \in Gate!Templates : x # s => Known(x, state[x], behind[x], last_eval')
  <2>1. ASSUME NEW x \in Gate!Templates, x # s PROVE Known(x, state[x], behind[x], last_eval')
    <3>1. \A d \in Cameras : SourceOf[d] = x => last_eval'[d] = last_eval[d]
      BY <1>2, <1>4, <2>1
    <3> QED BY <1>4, <3>1, OthersKeep
  <2> QED BY <2>1
<1> HIDE DEF after, lag, s
<1>10. /\ state'[s] = after /\ behind'[s] = lag
       /\ \A x \in Gate!Templates : x # s => state'[x] = state[x] /\ behind'[x] = behind[x]
  BY <1>1, <1>4, <1>7
<1>11. state' \in [Gate!Templates -> SourceStates] /\ behind' \in [Gate!Templates -> Nat]
  BY <1>1, <1>4, <1>6, <1>7
<1>12. \A x \in Gate!Templates : Known(x, state'[x], behind'[x], last_eval')
  BY <1>5, <1>9, <1>10
<1>13. GateInvariant'
  <2>1. \A x \in Gate!Templates : Known(x, state[x], behind[x], last_eval)'
    BY <1>12 DEF Known
  <2> QED BY <1>8, <1>11, <2>1 DEF GateInvariant
<1>14. DOMAIN state = Gate!Templates
  BY <1>4
<1> QED BY <1>5, <1>10, <1>13, <1>14

LEMMA GateKeeping ==
    ASSUME GateInvariant, [Gate!Next]_(Gate!anomalyVars)
    PROVE  /\ GateInvariant'
           /\ \A s \in DOMAIN state :
                LET last == state[s].last_event_at  new == state'[s].last_event_at
                IN  new # last /\ last # Gate!Never
                      => new - last >= Gate!Least - IF Gate!Alone(s) THEN 0 ELSE behind'[s]
<1>1. CASE \E c \in Cameras : Gate!Frame(c)
  BY <1>1, FrameKeeps
<1>2. CASE \E c \in Cameras : Gate!Skip(c)
  <2>1. PICK c \in Cameras, t \in 1..MaxTime : track_time' = [track_time EXCEPT ![c] = t]
    BY <1>2 DEF Gate!Skip
  <2>2. UNCHANGED <<last_eval, state, behind>>
    BY <1>2 DEF Gate!Skip
  <2>3. track_time' \in [Cameras -> Int]
    BY <2>1 DEF GateInvariant
  <2> QED BY <2>2, <2>3 DEF GateInvariant, Known
<1>3. CASE UNCHANGED Gate!anomalyVars
  BY <1>3 DEF GateInvariant, Gate!anomalyVars, Known
<1> QED BY <1>1, <1>2, <1>3 DEF Gate!Next

-----------------------------------------------------------------------------
(* StageTwo: what becomes of a candidate, for any number of attempts, candidates and *)
(* changes of the settings.                                                           *)

Answers == Judge!Failures \cup Judge!Results \cup {Judge!Nothing("unasked")}

\* Nothing came of a candidate that is being asked about, and an attempt is left; a
\* provider that is switched off is not asked again once its settings are read anew.
Asking ==
    /\ adapter \in {"rules", "pass", "compatible", "openai", "claude"} /\ fallback \in BOOLEAN
    /\ judge_pc \in {"idle", "ask", "dead"} /\ answer \in Answers
    /\ failed \in Nat
    /\ judge_pc = "ask" => event = Judge!NoEvent
    /\ judge_pc = "ask" /\ adapter = "compatible" => failed < Judge!Attempts
    /\ adapter = "compatible" /\ off =>
         judge_pc # "ask" /\ stored \in {"off", "unset"} /\ cached \in {"none", stored}

JudgeInvariant == Asking /\ Judge!Judged /\ Judge!TriedEverything

LEMMA AttemptsAre == Judge!Attempts \in Nat /\ Judge!Attempts > 0
<1>1. RetryCount \in Nat
  BY AnomalyAssumption
<1> QED BY <1>1 DEF Judge!Attempts

LEMMA AnswersAre ==
    /\ \A a \in Judge!Failures :
         /\ a.kind \in {"refused", "other", "empty", "text", "textOther"}
         /\ a.promote = "unsaid" /\ a.score = -1 /\ a.category = "unsaid"
    /\ \A a \in Judge!Results :
         /\ a.kind = "result" /\ a.promote \in {"yes", "no", "unsaid"}
         /\ a.score \in {-1, 30, 80, 850}
    /\ Judge!Nothing("unasked").kind = "unasked" /\ Judge!Nothing("unasked").promote = "unsaid"
    /\ Judge!Nothing("unasked") \notin Judge!Failures
<1>1. \A word : LET a == Judge!Nothing(word)
                IN  a.kind = word /\ a.promote = "unsaid" /\ a.score = -1 /\ a.category = "unsaid"
  BY DEF Judge!Nothing
<1>2. ASSUME NEW a \in Judge!Failures
      PROVE  /\ a.kind \in {"refused", "other", "empty", "text", "textOther"}
             /\ a.promote = "unsaid" /\ a.score = -1 /\ a.category = "unsaid"
  <2>1. PICK word \in {"refused", "other", "empty", "text", "textOther"} : a = Judge!Nothing(word)
    BY DEF Judge!Failures
  <2> QED BY <2>1, <1>1
<1>3. ASSUME NEW a \in Judge!Results
      PROVE  /\ a.kind = "result" /\ a.promote \in {"yes", "no", "unsaid"}
             /\ a.score \in {-1, 30, 80, 850}
  BY DEF Judge!Results
<1>4. Judge!Nothing("unasked").kind = "unasked" /\ Judge!Nothing("unasked").promote = "unsaid"
  BY <1>1
<1>5. Judge!Nothing("unasked") \notin Judge!Failures
  BY <1>2, <1>4
<1> QED BY <1>2, <1>3, <1>4, <1>5

\* What the rules, a provider or nobody make of a candidate.
LEMMA VerdictsAre ==
    /\ Judge!NoEvent.by = "nobody" /\ Judge!NoEvent.score \in 0..100
    /\ \A matches \in BOOLEAN :
         Judge!ByRules(matches).by = "candidate" /\ Judge!ByRules(matches).score \in 0..100
    /\ \A a \in Judge!Failures \cup Judge!Results, matches \in BOOLEAN :
         Judge!ByProvider(a, matches).by = "provider" /\ Judge!ByProvider(a, matches).score \in 0..100
    /\ \A a \in Judge!Results :
         Judge!ByCompatible(a).by = "provider" /\ Judge!ByCompatible(a).score \in 0..100
<1>1. Judge!NoEvent.by = "nobody" /\ Judge!NoEvent.score \in 0..100
  BY DEF Judge!NoEvent
<1>2. \A matches \in BOOLEAN :
        Judge!ByRules(matches).by = "candidate" /\ Judge!ByRules(matches).score \in 0..100
  BY DEF Judge!ByRules, Judge!CandidateScore
<1>3. ASSUME NEW a \in Judge!Failures \cup Judge!Results, NEW matches \in BOOLEAN
      PROVE  Judge!ByProvider(a, matches).by = "provider"
             /\ Judge!ByProvider(a, matches).score \in 0..100
  <2>1. a.score \in {-1, 30, 80, 850}
    BY AnswersAre
  <2>2. Judge!Normalized(a.score) \in 0..100
    <3>1. Judge!Normalized(-1) = 70 /\ Judge!Normalized(30) = 30 /\ Judge!Normalized(80) = 80
          /\ Judge!Normalized(850) = 85
      BY DEF Judge!Normalized, Judge!CandidateScore, Judge!Least
    <3> QED BY <2>1, <3>1
  <2>3. Judge!ByProvider(a, matches).by = "provider"
        /\ Judge!ByProvider(a, matches).score = Judge!Normalized(a.score)
    BY DEF Judge!ByProvider
  <2> QED BY <2>2, <2>3
<1>4. ASSUME NEW a \in Judge!Results
      PROVE  Judge!ByCompatible(a).by = "provider" /\ Judge!ByCompatible(a).score \in 0..100
  <2>1. a.score \in {-1, 30, 80, 850}
    BY AnswersAre
  <2>2. Judge!Clipped(a.score) \in 0..100
    BY <2>1 DEF Judge!Clipped, Judge!Least
  <2>3. Judge!ByCompatible(a).by = "provider"
        /\ Judge!ByCompatible(a).score = Judge!Clipped(a.score)
    BY DEF Judge!ByCompatible
  <2> QED BY <2>2, <2>3
<1> QED BY <1>1, <1>2, <1>3, <1>4

LEMMA UnjudgedIs ==
    ASSUME NEW matches \in BOOLEAN, fallback \in BOOLEAN
    PROVE  /\ Judge!Unjudged(matches).by # "provider" /\ Judge!Unjudged(matches).score \in 0..100
           /\ adapter # "compatible" => Judge!Unjudged(matches) # Judge!NoEvent
           /\ adapter = "compatible" => (Judge!Unjudged(matches) # Judge!NoEvent) = fallback
<1> HIDE DEF Judge!NoEvent, Judge!ByRules
<1>1. CASE adapter # "compatible"
  BY <1>1, VerdictsAre DEF Judge!Unjudged
<1>2. CASE adapter = "compatible" /\ fallback
  BY <1>2, VerdictsAre DEF Judge!Unjudged
<1>3. CASE adapter = "compatible" /\ ~fallback
  BY <1>3, VerdictsAre DEF Judge!Unjudged
<1> QED BY <1>1, <1>2, <1>3

LEMMA JudgeStarting == ASSUME Judge!Init PROVE JudgeInvariant
<1>1. /\ adapter \in {"rules", "pass", "compatible", "openai", "claude"} /\ fallback \in BOOLEAN
      /\ judge_pc = "idle" /\ answer = Judge!Nothing("unasked") /\ failed = 0
      /\ event = Judge!NoEvent /\ off = FALSE /\ candidates = 0
  BY DEF Judge!Init
<1>2. Asking
  BY <1>1 DEF Asking, Answers
<1>3. Judge!Judged
  BY <1>1, VerdictsAre, AnswersAre DEF Judge!Judged
<1>4. Judge!TriedEverything
  BY <1>1, AnswersAre DEF Judge!TriedEverything
<1> QED BY <1>2, <1>3, <1>4 DEF JudgeInvariant

\* The settings change, or their copy expires.
LEMMA SettingsStep ==
    ASSUME JudgeInvariant, Judge!Change \/ Judge!HalfAMinute
    PROVE  JudgeInvariant'
<1>1. /\ UNCHANGED <<adapter, fallback, judge_pc, using, failed, answer, event, candidates>>
      /\ off' => judge_pc # "ask" /\ stored' \in {"off", "unset"} /\ cached' = "none"
  BY DEF Judge!Change, Judge!HalfAMinute
<1>2. Asking'
  BY <1>1 DEF JudgeInvariant, Asking, Judge!Attempts
<1>3. Judge!Judged'
  BY <1>1 DEF JudgeInvariant, Judge!Judged
<1>4. Judge!TriedEverything'
  BY <1>1 DEF JudgeInvariant, Judge!TriedEverything
<1> QED BY <1>2, <1>3, <1>4 DEF JudgeInvariant

LEMMA BeginStep == ASSUME JudgeInvariant, Judge!Begin PROVE JudgeInvariant'
<1>1. /\ judge_pc = "idle" /\ failed' = 0 /\ answer' = Judge!Nothing("unasked")
      /\ candidates' = candidates + 1
      /\ UNCHANGED <<adapter, fallback, stored, off>>
      /\ adapter \in {"rules", "pass", "compatible", "openai", "claude"} /\ fallback \in BOOLEAN
  BY DEF Judge!Begin, JudgeInvariant, Asking
<1>2. answer'.kind = "unasked" /\ answer'.promote = "unsaid" /\ answer' \notin Judge!Failures
      /\ answer' \in Answers
  BY <1>1, AnswersAre DEF Answers
<1>3. CASE judge_pc' = "ask"
  <2>1. event' = Judge!NoEvent /\ ~Judge!Unusable(using')
        /\ (adapter = "compatible" => using' = Judge!Loaded)
    BY <1>1, <1>3 DEF Judge!Begin
  <2>2. ~(adapter = "compatible" /\ off)
    <3>1. SUFFICES ASSUME adapter = "compatible", off PROVE FALSE
      OBVIOUS
    <3>2. stored \in {"off", "unset"} /\ cached \in {"none", stored}
      BY <3>1 DEF JudgeInvariant, Asking
    <3>3. Judge!Loaded \in {"off", "unset"}
      BY <3>2 DEF Judge!Loaded
    <3> QED BY <2>1, <3>1, <3>3 DEF Judge!Unusable
  <2>3. Judge!Attempts' \in Nat /\ Judge!Attempts' > 0
    <3>1. RetryCount \in Nat
      BY AnomalyAssumption
    <3> QED BY <3>1 DEF Judge!Attempts
  <2>4. Asking'
    BY <1>1, <1>2, <1>3, <2>1, <2>2, <2>3 DEF Asking
  <2>5. Judge!Judged'
    BY <1>2, <1>3, <2>1, VerdictsAre DEF Judge!Judged
  <2>6. Judge!TriedEverything'
    BY <1>2 DEF Judge!TriedEverything
  <2> QED BY <2>4, <2>5, <2>6 DEF JudgeInvariant
<1>4. CASE judge_pc' # "ask"
  <2>1. judge_pc' = "idle"
    BY <1>1, <1>4 DEF Judge!Begin
  <2>2. PICK matches \in BOOLEAN :
          event' = CASE adapter = "rules" -> Judge!ByRules(matches)
                     [] adapter = "pass" -> Judge!ByRules(FALSE)
                     [] OTHER -> Judge!Unjudged(matches)
    BY <1>1, <1>4 DEF Judge!Begin
  <2>3. event' \in {Judge!ByRules(matches), Judge!ByRules(FALSE), Judge!Unjudged(matches)}
        /\ (adapter = "compatible" => event' = Judge!Unjudged(matches))
    BY <1>1, <2>2
  <2>4. event'.by # "provider" /\ event'.score \in 0..100
        /\ (adapter # "compatible" => event' # Judge!NoEvent)
        /\ (adapter = "compatible" => (event' # Judge!NoEvent) = fallback)
    BY <1>1, <2>3, UnjudgedIs, VerdictsAre
  <2>5. adapter = "compatible" /\ off => cached' \in {"none", stored}
    BY <1>1 DEF Judge!Begin, Judge!Loaded, JudgeInvariant, Asking
  <2>6. Asking'
    BY <1>1, <1>2, <2>1, <2>5 DEF Asking, JudgeInvariant
  <2>7. Judge!Judged'
    BY <1>1, <1>2, <2>1, <2>4 DEF Judge!Judged
  <2>8. Judge!TriedEverything'
    BY <1>2 DEF Judge!TriedEverything
  <2> QED BY <2>6, <2>7, <2>8 DEF JudgeInvariant
<1> QED BY <1>3, <1>4

LEMMA AskCompatibleStep == ASSUME JudgeInvariant, Judge!AskCompatible PROVE JudgeInvariant'
<1>1. /\ judge_pc = "ask" /\ adapter = "compatible" /\ fallback \in BOOLEAN
      /\ UNCHANGED <<adapter, fallback, stored, cached, off, using, candidates>>
      /\ event = Judge!NoEvent /\ failed \in Nat /\ failed < Judge!Attempts /\ ~off
      /\ Judge!Attempts' = Judge!Attempts /\ Judge!Attempts \in Nat
  BY AttemptsAre DEF Judge!AskCompatible, JudgeInvariant, Asking, Judge!Attempts
<1>2. CASE answer' \in Judge!Failures /\ failed' = failed + 1 /\ failed' < Judge!Attempts
           /\ UNCHANGED <<judge_pc, event>>
  <2>1. Asking'
    BY <1>1, <1>2 DEF Asking, Answers, JudgeInvariant
  <2>2. Judge!Judged'
    BY <1>1, <1>2, VerdictsAre DEF Judge!Judged
  <2>3. Judge!TriedEverything'
    BY <1>1, <1>2 DEF Judge!TriedEverything
  <2> QED BY <2>1, <2>2, <2>3 DEF JudgeInvariant
<1>3. CASE answer' \in Judge!Failures /\ failed' = failed + 1 /\ ~(failed' < Judge!Attempts)
           /\ event' = Judge!Unjudged(FALSE) /\ judge_pc' = "idle"
  <2>1. answer'.kind # "result" /\ answer'.promote = "unsaid"
    BY <1>3, AnswersAre
  <2>2. failed' = Judge!Attempts /\ failed' \in Nat
    BY <1>1, <1>3
  <2>3. Asking'
    BY <1>1, <1>3, <2>2 DEF Asking, Answers
  <2>4. event'.by # "provider" /\ event'.score \in 0..100 /\ (event' # Judge!NoEvent) = fallback
    BY <1>1, <1>3, UnjudgedIs
  <2>5. Judge!Judged'
    BY <1>1, <1>3, <2>1, <2>4 DEF Judge!Judged
  <2>6. Judge!TriedEverything'
    BY <1>1, <2>2 DEF Judge!TriedEverything, Judge!Attempts
  <2> QED BY <2>3, <2>5, <2>6 DEF JudgeInvariant
<1>4. CASE answer' \in Judge!Results /\ judge_pc' = "idle" /\ failed' = failed
           /\ event' = IF Judge!Promoted(answer') THEN Judge!ByCompatible(answer')
                       ELSE Judge!NoEvent
  <2>1. answer'.kind = "result" /\ answer' \notin Judge!Failures
    BY <1>4, AnswersAre
  <2>2. Asking'
    BY <1>1, <1>4 DEF Asking, Answers
  <2>3. /\ answer'.promote = "yes" => Judge!Promoted(answer')
        /\ answer'.promote = "no" => ~Judge!Promoted(answer')
    BY DEF Judge!Promoted
  <2>4. Judge!ByCompatible(answer').by = "provider" /\ Judge!ByCompatible(answer').score \in 0..100
    BY <1>4, VerdictsAre
  <2>5. event'.score \in 0..100 /\ (Judge!Promoted(answer') => event'.by = "provider")
        /\ (~Judge!Promoted(answer') => event' = Judge!NoEvent)
    BY <1>4, <2>4, VerdictsAre
  <2>6. Judge!Judged'
    BY <1>1, <1>4, <2>1, <2>3, <2>5 DEF Judge!Judged
  <2>7. Judge!TriedEverything'
    BY <2>1 DEF Judge!TriedEverything
  <2> QED BY <2>2, <2>6, <2>7 DEF JudgeInvariant
<1> QED BY <1>1, <1>2, <1>3, <1>4 DEF Judge!AskCompatible

LEMMA AskOnceStep == ASSUME JudgeInvariant, Judge!AskOnce PROVE JudgeInvariant'
<1>1. /\ judge_pc = "ask" /\ adapter \in {"openai", "claude"} /\ fallback \in BOOLEAN
      /\ UNCHANGED <<adapter, fallback, stored, cached, off, using, candidates>>
      /\ event = Judge!NoEvent /\ answer' \in Judge!Failures \cup Judge!Results
      /\ failed' \in Nat
  BY DEF Judge!AskOnce, JudgeInvariant, Asking
<1>2. Judge!TriedEverything'
  BY <1>1 DEF Judge!TriedEverything
<1>3. CASE answer'.kind \in {"other", "textOther"}
  <2>1. judge_pc' = "dead" /\ event' = event
    BY <1>3 DEF Judge!AskOnce
  <2>2. Asking'
    BY <1>1, <2>1 DEF Asking, Answers
  <2>3. Judge!Judged'
    BY <1>1, <1>3, <2>1, VerdictsAre DEF Judge!Judged
  <2> QED BY <1>2, <2>2, <2>3 DEF JudgeInvariant
<1>4. CASE answer'.kind \notin {"other", "textOther"}
  <2>1. judge_pc' = "idle"
    BY <1>4 DEF Judge!AskOnce
  <2>2. PICK matches \in BOOLEAN :
          event' = IF Judge!Unread(answer') THEN Judge!Unjudged(matches)
                   ELSE Judge!ByProvider(answer', matches)
    BY <1>4 DEF Judge!AskOnce
  <2>3. /\ Judge!ByProvider(answer', matches).by = "provider"
        /\ Judge!ByProvider(answer', matches).score \in 0..100
        /\ Judge!Unjudged(matches).by # "provider" /\ Judge!Unjudged(matches).score \in 0..100
        /\ Judge!Unjudged(matches) # Judge!NoEvent
    BY <1>1, VerdictsAre, UnjudgedIs
  <2>4. event'.score \in 0..100 /\ event' # Judge!NoEvent
        /\ (event'.by = "provider" => ~Judge!Unread(answer'))
    BY <2>2, <2>3, VerdictsAre
  <2>5. event'.by = "provider" => answer'.kind # "refused" /\ answer'.kind # "unasked"
    BY <1>1, <2>4, AnswersAre DEF Judge!Unread
  <2>6. Asking'
    BY <1>1, <2>1 DEF Asking, Answers
  <2>7. Judge!Judged'
    BY <1>1, <2>1, <2>4, <2>5 DEF Judge!Judged
  <2> QED BY <1>2, <2>6, <2>7 DEF JudgeInvariant
<1> QED BY <1>3, <1>4

LEMMA JudgeKeeping == ASSUME JudgeInvariant, [Judge!Next]_(Judge!judgeVars) PROVE JudgeInvariant'
<1>1. CASE UNCHANGED Judge!judgeVars
  <2>1. Asking'
    BY <1>1 DEF JudgeInvariant, Asking, Judge!judgeVars, Judge!Attempts
  <2>2. Judge!Judged' /\ Judge!TriedEverything'
    BY <1>1 DEF JudgeInvariant, Judge!Judged, Judge!TriedEverything, Judge!judgeVars
  <2> QED BY <2>1, <2>2 DEF JudgeInvariant
<1> QED BY <1>1, SettingsStep, BeginStep, AskCompatibleStep, AskOnceStep DEF Judge!Next

\* A provider that has been switched off for longer than its settings are kept is not asked.
LEMMA SwitchedOffIsNotAsked ==
    ASSUME JudgeInvariant, Judge!Next, adapter = "compatible", off
    PROVE  judge_pc' = judge_pc
<1>1. judge_pc # "ask" /\ stored \in {"off", "unset"} /\ cached \in {"none", stored}
  BY DEF JudgeInvariant, Asking
<1>2. CASE Judge!Begin
  <2>1. Judge!Loaded \in {"off", "unset"}
    BY <1>1 DEF Judge!Loaded
  <2>2. using' = Judge!Loaded
    BY <1>2 DEF Judge!Begin
  <2> QED BY <1>2, <2>1, <2>2 DEF Judge!Begin, Judge!Unusable
<1>3. CASE Judge!Change \/ Judge!HalfAMinute
  BY <1>3 DEF Judge!Change, Judge!HalfAMinute
<1>4. CASE Judge!AskCompatible \/ Judge!AskOnce
  BY <1>1, <1>4 DEF Judge!AskCompatible, Judge!AskOnce
<1> QED BY <1>2, <1>3, <1>4 DEF Judge!Next

\* Stage 1: the candidates of a source that one camera shows are the quiet period or the
\* cooldown apart, in whatever order, however late and however often its frames come; those
\* of a source that several show by that less what their frames were behind.
THEOREM SourcesDoNotFlood == Gate!Spec => Gate!CandidatesApart
<1>1. GateInvariant /\ [Gate!Next]_(Gate!anomalyVars) => GateInvariant'
  BY GateKeeping
<1>2. GateInvariant /\ [Gate!Next]_(Gate!anomalyVars) =>
        [\A s \in DOMAIN state :
          LET last == state[s].last_event_at  new == state'[s].last_event_at
          IN  new # last /\ last # Gate!Never
                => new - last >= Gate!Least - IF Gate!Alone(s) THEN 0 ELSE behind'[s]
        ]_(Gate!anomalyVars)
  BY GateKeeping
<1> QED BY <1>1, <1>2, GateStarting, PTL DEF Gate!Spec, Gate!CandidatesApart

\* Stage 2: a candidate is judged by its provider or its rules, whatever the provider does.
THEOREM CandidatesAreJudged == Judge!Spec => Judge!CandidatesJudged
<1>1. JudgeInvariant /\ [Judge!Next]_(Judge!judgeVars) => JudgeInvariant'
  BY JudgeKeeping
<1>2. JudgeInvariant => Judge!Judged /\ Judge!TriedEverything
  BY DEF JudgeInvariant
<1>3. JudgeInvariant /\ [Judge!Next]_(Judge!judgeVars) =>
        [adapter = "compatible" /\ off => judge_pc' = judge_pc]_(Judge!judgeVars)
  BY SwitchedOffIsNotAsked
<1>4. Judge!Init => JudgeInvariant
  BY JudgeStarting
<1> QED BY <1>1, <1>2, <1>3, <1>4, PTL DEF Judge!Spec, Judge!CandidatesJudged

\* The first stage's candidates keep their distance, and each is judged.
THEOREM CandidatesAlwaysHandled == Gate!Spec /\ Judge!Spec => CandidatesHandled
  BY SourcesDoNotFlood, CandidatesAreJudged DEF CandidatesHandled

-----------------------------------------------------------------------------
(* The composition. *)
\* A behaviour of the parts is one of each of them.
LEMMA PartsAreTheirs ==
    ASSUME [PartsNext]_partsVars
    PROVE  /\ [Next]_vars /\ [Logs!Next]_(Logs!logVars)
           /\ [Onboard!Next]_(Onboard!onboardVars) /\ [Poi!Next]_(Poi!poiVars)
           /\ [Plug!Next]_(Plug!catalogVars) /\ [Stage2!Next]_(Stage2!providerVars)
           /\ [Gate!Next]_(Gate!anomalyVars) /\ [Judge!Next]_(Judge!judgeVars)
<1> USE DEF OthersStay, logVars, Logs!logVars, onboardVars, Onboard!onboardVars,
            poiVars, Poi!poiVars,
            plugVars, Plug!catalogVars, stage2Vars, Stage2!providerVars, captureVars,
            gateVars, Gate!anomalyVars, judgeVars, Judge!judgeVars
<1>1. CASE CaptureStep
  BY <1>1 DEF CaptureStep
<1>2. CASE LogStep
  BY <1>2 DEF LogStep
<1>3. CASE OnboardStep
  BY <1>3 DEF OnboardStep
<1>4. CASE PoiStep
  BY <1>4 DEF PoiStep
<1>5. CASE PlugStep
  BY <1>5 DEF PlugStep
<1>6. CASE Stage2Step
  BY <1>6 DEF Stage2Step
<1>7. CASE TextStep
  BY <1>7 DEF TextStep
<1>9. CASE GateStep
  BY <1>9 DEF GateStep
<1>10. CASE JudgeStep
  BY <1>10 DEF JudgeStep
<1>8. CASE UNCHANGED partsVars
  BY <1>8 DEF partsVars
<1> QED BY <1>1, <1>2, <1>3, <1>4, <1>5, <1>6, <1>7, <1>8, <1>9, <1>10 DEF PartsNext

\* What is proved of the parts holds of the behaviours that the run checks.
THEOREM PartsSafety ==
    PartsSpec => /\ [](FilesTakenWhole /\ LogsComplete /\ Onboarded /\ SearchesAnswered)
                 /\ SyncHeals /\ SecretKept /\ CandidatesHandled
<1>1. PartsSpec => /\ Spec /\ Logs!Spec /\ Onboard!Spec /\ Poi!Spec /\ Plug!Spec /\ Stage2!Spec
                   /\ Gate!Spec /\ Judge!Spec
  <2>1. PartsInit => /\ Init /\ Logs!Init /\ Onboard!Init /\ Poi!Init /\ Plug!Init /\ Stage2!Init
                     /\ Gate!Init /\ Judge!Init
    BY DEF PartsInit
  <2>2. [PartsNext]_partsVars => [Next]_vars /\ [Logs!Next]_(Logs!logVars)
    BY PartsAreTheirs
  <2>3. [PartsNext]_partsVars =>
            [Onboard!Next]_(Onboard!onboardVars) /\ [Poi!Next]_(Poi!poiVars)
    BY PartsAreTheirs
  <2>4. [PartsNext]_partsVars =>
            [Plug!Next]_(Plug!catalogVars) /\ [Stage2!Next]_(Stage2!providerVars)
    BY PartsAreTheirs
  <2>5. [PartsNext]_partsVars => [Gate!Next]_(Gate!anomalyVars) /\ [Judge!Next]_(Judge!judgeVars)
    BY PartsAreTheirs
  <2> QED BY <2>1, <2>2, <2>3, <2>4, <2>5, PTL
          DEF PartsSpec, Spec, Logs!Spec, Onboard!Spec, Poi!Spec, Plug!Spec, Stage2!Spec,
              Gate!Spec, Judge!Spec
<1> QED BY <1>1, FilesTaken, LogsAreComplete, OnboardedAgain, SearchesAreAnswered,
              SyncsAlwaysHeal, SecretIsKept, CandidatesAlwaysHandled, PTL

=============================================================================
