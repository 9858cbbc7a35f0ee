------------------------------ MODULE MCWorkers ------------------------------
(***************************************************************************)
(* The processes that work: the command loop that each of them runs        *)
(* (CommandListener), and the commands and the supervisor that start and   *)
(* stop them on the host (LocalWorkers).  Beside them, without a variable  *)
(* in common, the stream of events that the console follows (LiveEvents).  *)
(* A behaviour is one of the one, the other or the third: ListenerSpec has *)
(* those of the loop and of the stream, LocalSpec those of the supervisor. *)
(***************************************************************************)
EXTENDS CommandListener

CONSTANTS r1, r2, none,
          MaxInvocations, MaxSupervisors, Modules, Nobody   \* of LocalWorkers

\* Two runs, two commands and one status message in flight: a START can follow
\* another run's STOP, and a status is lost behind an unread one.
MCRuns == {r1, r2}

VARIABLES part, db, reading, cached, stream, previous, told, requests, shown, faults,
          infra, core, pidFile, port, at, back, http, lock, quitting, term, processes, workers,
          ending, killed, command, target, overlap, stopped

\* The page shows what nobody announces.
Live == INSTANCE LiveEvents WITH
    Signature <- <<"runs", "incidents">>, Page <- {"anomalies"},
    MaxChanges <- 2, MaxFaults <- 1, MaxRequests <- 2

Local == INSTANCE LocalWorkers WITH MaxCommands <- MaxInvocations, told <- quitting

ASSUME WorkersAssumption ==
    MaxInvocations \in Nat /\ MaxSupervisors \in Nat /\ Nobody \notin Local!Supervisors

liveVars == <<db, reading, cached, stream, previous, told, requests, shown, faults>>
localVars == <<infra, core, pidFile, port, at, back, http, lock, quitting, term, processes, workers,
               ending, killed, command, target, overlap, stopped>>
workersVars == <<part, vars, liveVars, localVars>>

ListenerPart == part = "listener" /\ Next /\ UNCHANGED <<part, liveVars, localVars>>
LivePart == part = "live" /\ Live!Next /\ UNCHANGED <<part, vars, localVars>>
LocalPart == part = "local" /\ Local!Next /\ UNCHANGED <<part, vars, liveVars>>

\* The fairness of CommandListener and of LiveEvents, for the part whose turn it is.
ListenerFairness ==
    /\ WF_vars(part = "listener" /\ Reap)
    /\ WF_vars(part = "listener" /\ (Ignore \/ TakeStart \/ TakeStartAgain \/ TakeStop))
    /\ WF_vars(part = "listener" /\ (LoadFails \/ Load))
    /\ WF_vars(part = "listener" /\ StartThread)
    /\ WF_vars(part = "listener" /\ Join)
    /\ WF_vars(part = "listener" /\ Settle)
    /\ WF_vars(part = "listener" /\ Finally)
    /\ \A r \in Runs : /\ WF_vars(part = "listener" /\ WorkerBegins(r))
                       /\ WF_vars(part = "listener" /\ WorkerEnds(r))
    /\ WF_liveVars(part = "live" /\ Live!Cache)
    /\ WF_liveVars(part = "live" /\ Live!Generator)
    /\ WF_liveVars(part = "live" /\ Live!Console)

ListenerInit == part \in {"listener", "live"} /\ Init /\ Live!Init /\ Local!Init
ListenerNext == ListenerPart \/ LivePart
ListenerSpec == ListenerInit /\ [][ListenerNext]_workersVars /\ ListenerFairness

LocalInit == part = "local" /\ Init /\ Live!Init /\ Local!Init
LocalSpec == LocalInit /\ [][LocalPart]_workersVars /\ Local!Fairness

-----------------------------------------------------------------------------
(* The stream of events and the page that follows it; see LiveEvents. *)
LiveView == part = "live" => Live!LiveView

(* The supervisor of the workers of a host, and the commands; see LocalWorkers. *)
NothingLeftBehind == Local!NothingLeftBehind
ServerIsOnFile == Local!ServerIsOnFile
ToldToStopEnds == Local!ToldToStopEnds
=============================================================================
