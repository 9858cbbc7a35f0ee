------------------------------ MODULE Incidents ------------------------------
(***************************************************************************)
(* The life of an incident between the association worker that raises it   *)
(* (association/main.py, IncidentManager), the database row, and the       *)
(* operators who change its status (operations_routes.update_incident).    *)
(*                                                                         *)
(* The row is written by two parties that do not lock it: operators, and   *)
(* the worker's output thread.  The manager hears of the operators through *)
(* resolution messages only.                                               *)
(***************************************************************************)
EXTENDS Naturals, FiniteSets, SequencesExt

CONSTANTS Operators,     \* concurrent update requests
          MaxIncidents,  \* bound: incidents raised
          MaxUpdates,    \* bound: update requests
          MaxLost,       \* bound: resolution messages not published
          PullLimit      \* STREAM_MESSAGES_PER_FRAME

VARIABLES db,          \* status of each incident's row, "none" before it exists
          step, req,   \* each operator's position and request
          updates, lost,  \* counters of the bounds
          resolutions, \* resolution messages on their way to the worker
          pc, pulled,  \* the worker's loop and its external_resolutions
          managed,     \* the manager's incidents: id -> status
          unattended,  \* managed incidents whose bag is unattended
          raised,      \* the id counter
          output,      \* the output thread's queue: <<action, incident>>
          writing,     \* the incident whose row it has read as unconfirmed, or 0
          committed,   \* history: the statuses operators wrote in each row
          forgone      \* history: incidents of which a write failed or was dropped

dbVars == <<db, committed>>
operatorVars == <<step, req, updates, lost>>
workerVars == <<pc, pulled, managed, unattended, raised>>
outputVars == <<output, writing, forgone>>
vars == <<dbVars, operatorVars, resolutions, workerVars, outputVars>>

Ids == 1..MaxIncidents
Statuses == {"UNCONFIRMED", "CONFIRMED", "IN_PROGRESS", "PENDING_RESOLVE", "RESOLVED"}
Resolution == [incident : Ids, status : Statuses]
Idle == [incident |-> 0, status |-> "RESOLVED"]

TypeOK ==
    /\ db \in [Ids -> Statuses \cup {"none"}]
    /\ step \in [Operators -> {"ready", "write", "publish"}]
    /\ req \in [Operators -> Resolution \cup {Idle}]
    /\ updates \in 0..MaxUpdates /\ lost \in 0..MaxLost
    /\ resolutions \in Seq(Resolution)
    /\ pc \in {"pull", "frame", "crashed", "stopped"}
    /\ pulled \in Seq(Resolution) /\ Len(pulled) <= PullLimit
    /\ managed \in UNION {[I -> Statuses \ {"RESOLVED"}] : I \in SUBSET Ids}
    /\ unattended \subseteq DOMAIN managed
    /\ raised \in 0..MaxIncidents
    /\ output \in Seq({"create", "resolve"} \X Ids)
    /\ writing \in Ids \cup {0}
    /\ committed \in [Ids -> SUBSET Statuses]
    /\ forgone \subseteq Ids

Init ==
    /\ db = [i \in Ids |-> "none"]
    /\ step = [o \in Operators |-> "ready"]
    /\ req = [o \in Operators |-> Idle]
    /\ updates = 0 /\ lost = 0
    /\ resolutions = <<>>
    /\ pc = "pull" /\ pulled = <<>>
    /\ managed = <<>> /\ unattended = {} /\ raised = 0
    /\ output = <<>> /\ writing = 0
    /\ committed = [i \in Ids |-> {}] /\ forgone = {}

-----------------------------------------------------------------------------
\* VALID_INCIDENT_STATUS_TRANSITIONS; staying is always allowed.
Successors ==
    [UNCONFIRMED |-> {"CONFIRMED", "PENDING_RESOLVE", "RESOLVED"},
     CONFIRMED |-> {"IN_PROGRESS", "PENDING_RESOLVE", "RESOLVED"},
     IN_PROGRESS |-> {"PENDING_RESOLVE", "RESOLVED"},
     PENDING_RESOLVE |-> {"RESOLVED"},
     RESOLVED |-> {}]
ValidTransition(old, new) == old = new \/ new \in Successors[old]

\* update_incident: the row is read and the transition checked ...
Request(o, i, new) ==
    /\ step[o] = "ready"
    /\ updates < MaxUpdates
    /\ db[i] # "none"
    /\ ValidTransition(db[i], new)
    /\ updates' = updates + 1
    /\ step' = [step EXCEPT ![o] = "write"]
    /\ req' = [req EXCEPT ![o] = [incident |-> i, status |-> new]]
    /\ UNCHANGED <<dbVars, lost, resolutions, workerVars, outputVars>>

\* ... the new status is written, after a commit in between ...
WriteStatus(o) ==
    /\ step[o] = "write"
    /\ db' = [db EXCEPT ![req[o].incident] = req[o].status]
    /\ committed' = [committed EXCEPT ![req[o].incident] = @ \cup {req[o].status}]
    /\ step' = [step EXCEPT ![o] = "publish"]
    /\ UNCHANGED <<req, updates, lost, resolutions, workerVars, outputVars>>

\* ... unless one of the two commits fails: the request ends there ...
WriteFails(o) ==
    /\ step[o] = "write"
    /\ step' = [step EXCEPT ![o] = "ready"]
    /\ req' = [req EXCEPT ![o] = Idle]
    /\ UNCHANGED <<dbVars, updates, lost, resolutions, workerVars, outputVars>>

\* (slip: published although the write was lost)
PublishUncommitted(o) ==
    /\ step[o] \in {"write", "publish"}
    /\ resolutions' = Append(resolutions, req[o])
    /\ step' = [step EXCEPT ![o] = "ready"]
    /\ req' = [req EXCEPT ![o] = Idle]
    /\ UNCHANGED <<dbVars, updates, lost, workerVars, outputVars>>

\* ... and published; a failure to do so is only logged.
PublishResolution(o) ==
    /\ step[o] = "publish"
    /\ \/ resolutions' = Append(resolutions, req[o]) /\ UNCHANGED lost
       \/ lost < MaxLost /\ lost' = lost + 1 /\ UNCHANGED resolutions
    /\ step' = [step EXCEPT ![o] = "ready"]
    /\ req' = [req EXCEPT ![o] = Idle]
    /\ UNCHANGED <<dbVars, updates, workerVars, outputVars>>

-----------------------------------------------------------------------------
\* The loop of association/main.py: at most PullLimit resolutions are taken ...
Pull ==
    /\ pc = "pull"
    /\ pc' = "frame"
    /\ \E n \in 0..Len(resolutions) :
           /\ n <= PullLimit
           /\ pulled' = SubSeq(resolutions, 1, n)
           /\ resolutions' = SubSeq(resolutions, n + 1, Len(resolutions))
    /\ UNCHANGED <<dbVars, operatorVars, managed, unattended, raised, outputVars>>

\* ... and forgotten when no frame comes in time or it lacks its frame info.
NoFrame ==
    /\ pc = "frame"
    /\ pc' = "pull"
    /\ pulled' = <<>>
    /\ UNCHANGED <<dbVars, operatorVars, resolutions, managed, unattended, raised, outputVars>>

\* (slip: whatever the status)
SystemResolvesAny(attended) == attended

\* IncidentManager.update.  Of the incidents whose bag is attended again it
\* removes the unconfirmed ones, then applies the resolution messages in order.
SystemResolutions(attended) == {i \in attended : managed[i] = "UNCONFIRMED"}
Sent(i, statuses) ==
    {n \in DOMAIN pulled : pulled[n].incident = i /\ pulled[n].status \in statuses}
Deletions(i, system) ==
    Cardinality(Sent(i, {"RESOLVED"})) + (IF i \in system THEN 1 ELSE 0)
NewStatus(i) ==
    LET sent == Sent(i, Statuses \ {"RESOLVED"})
    IN  IF sent = {} THEN managed[i] ELSE pulled[Max(sent)].status

\* An incident deleted twice in one update is a KeyError.
DeletedTwice(attended) ==
    \E i \in DOMAIN managed : Deletions(i, SystemResolutions(attended)) > 1

\* A frame: bags attended again resolve their incidents, incidents are raised
\* (bags: those of a bag), the manager is updated, the output thread is handed
\* the result.
Frame(attended, new, bags) ==
    LET system == SystemResolutions(attended)
        kept == {i \in DOMAIN managed : Deletions(i, system) = 0}
    IN  /\ pc = "frame"
        /\ ~DeletedTwice(attended)
        /\ managed' = [i \in kept \cup new |->
                          IF i \in kept THEN NewStatus(i) ELSE "UNCONFIRMED"]
        /\ unattended' = ((unattended \ attended) \cap kept) \cup bags
        /\ raised' = raised + Cardinality(new)
        /\ output' = output \o SetToSeq({"create"} \X new)
                            \o SetToSeq({"resolve"} \X system)
        /\ pc' = "pull"
        /\ pulled' = <<>>
        /\ UNCHANGED <<dbVars, operatorVars, resolutions, writing, forgone>>

Frames ==
    \E attended \in SUBSET unattended, last \in raised..MaxIncidents :
        \E bags \in SUBSET (raised + 1..last) : Frame(attended, raised + 1..last, bags)

\* The worker's thread dies and the manager with it; its output thread goes on.
Crash ==
    /\ pc = "frame"
    /\ \E attended \in SUBSET unattended : DeletedTwice(attended)
    /\ pc' = "crashed"
    /\ managed' = <<>>
    /\ unattended' = {}
    /\ pulled' = <<>>
    /\ UNCHANGED <<dbVars, operatorVars, resolutions, raised, outputVars>>

\* The module is told to stop: the loop ends, and the output thread with what it has in
\* hand (one frame's writes, here any number).  What waits behind that is dropped.
Stop ==
    /\ pc = "pull"
    /\ pc' = "stopped"
    /\ managed' = <<>>
    /\ unattended' = {}
    /\ \E n \in 0..Len(output) :
           /\ output' = SubSeq(output, 1, n)
           /\ forgone' = forgone \cup {output[k][2] : k \in n + 1..Len(output)}
    /\ UNCHANGED <<dbVars, operatorVars, resolutions, pulled, raised, writing>>

-----------------------------------------------------------------------------
\* The output thread: create_incident, whose commit may fail and then is only logged, ...
CreateRow ==
    /\ writing = 0
    /\ output # <<>> /\ Head(output)[1] = "create"
    /\ \/ /\ db' = [db EXCEPT ![Head(output)[2]] = "UNCONFIRMED"]
          /\ UNCHANGED forgone
       \/ /\ forgone' = forgone \cup {Head(output)[2]}
          /\ UNCHANGED db
    /\ output' = Tail(output)
    /\ UNCHANGED <<committed, operatorVars, resolutions, workerVars, writing>>

\* (slip: the status check is inverted)
ReadRowInverted ==
    /\ writing = 0
    /\ output # <<>> /\ Head(output)[1] = "resolve"
    /\ LET i == Head(output)[2]
       IN  writing' = IF db[i] = "UNCONFIRMED" THEN 0 ELSE i
    /\ output' = Tail(output)
    /\ UNCHANGED <<dbVars, operatorVars, resolutions, workerVars, forgone>>

\* ... and resolve_incident, which reads the row first ...
ReadRow ==
    /\ writing = 0
    /\ output # <<>> /\ Head(output)[1] = "resolve"
    /\ LET i == Head(output)[2]
       IN  writing' = IF db[i] = "UNCONFIRMED" THEN i ELSE 0
    /\ output' = Tail(output)
    /\ UNCHANGED <<dbVars, operatorVars, resolutions, workerVars, forgone>>

\* ... and, an audit record later, writes it, if neither commit fails.
WriteRow ==
    /\ writing # 0
    /\ \/ db' = [db EXCEPT ![writing] = "PENDING_RESOLVE"] /\ UNCHANGED forgone
       \/ forgone' = forgone \cup {writing} /\ UNCHANGED db
    /\ writing' = 0
    /\ UNCHANGED <<committed, operatorVars, resolutions, workerVars, output>>

Operator(o) ==
    \/ \E i \in Ids, new \in Statuses : Request(o, i, new)
    \/ WriteStatus(o) \/ WriteFails(o) \/ PublishResolution(o)
Association == Pull \/ NoFrame \/ Frames \/ Crash \/ Stop
Output == CreateRow \/ ReadRow \/ WriteRow

Next == Association \/ Output \/ \E o \in Operators : Operator(o)

\* The worker's threads and a request that was begun go on, and frames keep
\* coming, if with gaps.  Requests and a stop are not forced.
Fairness ==
    /\ WF_vars(Pull) /\ WF_vars(NoFrame \/ Frames \/ Crash) /\ SF_vars(Frames)
    /\ WF_vars(Output)
    /\ \A o \in Operators : WF_vars(WriteStatus(o) \/ PublishResolution(o))

Spec == Init /\ [][Next]_vars
FairSpec == Spec /\ Fairness

-----------------------------------------------------------------------------
\* docs/security.md:255-257: an incident the manager knows to be confirmed stays
\* until an explicit RESOLVED comes, whatever becomes of its signal, as long as the
\* worker goes on.
ConfirmedStays ==
    [][\A i \in DOMAIN managed :
          managed[i] # "UNCONFIRMED" /\ i \notin DOMAIN managed'
                                     /\ pc' \notin {"crashed", "stopped"}
          => \E n \in DOMAIN pulled :
                 pulled[n] = [incident |-> i, status |-> "RESOLVED"]]_vars

\* The manager never runs ahead of the operators: what it believes of an incident, one of
\* them wrote in its row, whichever others wrote, and in whatever order.
NeverAhead ==
    \A i \in DOMAIN managed : managed[i] # "UNCONFIRMED" => managed[i] \in committed[i]

\* What the system resolved leaves the status UNCONFIRMED in its row, whatever the
\* operators did meanwhile and whatever became of the worker; unless a commit failed, of
\* the row or of this write, or a stop dropped one of them.
ResolutionLands ==
    \A i \in Ids :
        <<"resolve", i>> \in ToSet(output) ~>
            db[i] \notin {"none", "UNCONFIRMED"} \/ i \in forgone

\* docs/security.md:358-361: an operator's update is "allowed status transition rules
\* instead of arbitrary state jumps", also of the status that it replaces.
TransitionsAllowed ==
    [][\A o \in Operators :
          step[o] = "write" /\ step'[o] = "publish" =>
              ValidTransition(db[req[o].incident], req[o].status)]_vars
=============================================================================
