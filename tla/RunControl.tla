----------------------------- MODULE RunControl -----------------------------
(***************************************************************************)
(* The control plane's view of a run (webapp/routes/external_routes.py)    *)
(* composed with the worker that executes it (CommandListener).            *)
(*                                                                         *)
(* Request handlers share the module globals status, run_id and            *)
(* module_status.  state_lock protects single writes only: what a handler  *)
(* read before it may have changed when it writes.  /start and /stop run   *)
(* on the event loop, one at a time; the synchronous routes, among them    *)
(* the start that follows the saving of a source, run on a thread pool.    *)
(***************************************************************************)
EXTENDS Integers, Sequences, FiniteSetsExt, SystemState

CONSTANTS Handlers,     \* concurrent request handlers
          MaxRuns,      \* bound: runs ever created
          MaxRequests,  \* bound: requests other than status polls
          MaxFaults,    \* bound: failed publishes and restarts of the worker
          MaxInbox,     \* bound: status messages in flight
          Operations,   \* the requests an operator makes that refresh first
          WithRestart   \* whether the operator restarts the worker's module

ASSUME RunControlAssumption ==
    /\ MaxRuns \in Nat /\ MaxRequests \in Nat /\ MaxFaults \in Nat /\ MaxInbox \in Nat
    /\ Operations \subseteq {"start", "stop", "unmount"}
    /\ WithRestart \in BOOLEAN

VARIABLES status, runId, moduleStatus,  \* the globals of the control plane
          cached,                       \* module_status in the monitor's last snapshot
          rows,                         \* Run rows that are not deleted
          lastRun,                      \* identifiers given out so far
          step, loc,                    \* each handler's position and local variables
          requests, faults,             \* counters of the bounds
          commands, inbox,              \* the two queues
          lpc, cmd, lstatus, module, alive, starting, process, completed, late,  \* the worker
          swallowed                     \* history: runs whose START met another module

sharedVars == <<status, runId, moduleStatus>>
handlerVars == <<step, loc>>
boundVars == <<requests, faults>>
webappVars == <<sharedVars, cached, rows, lastRun, handlerVars, requests>>
workerVars == <<lpc, cmd, lstatus, module, alive, starting, process, completed, late, swallowed>>
vars == <<webappVars, faults, commands, inbox, workerVars>>

Runs == 1..MaxRuns
NoRun == 0

Listener == INSTANCE CommandListener WITH
    MaxCommands <- 2 * MaxRequests, pc <- lpc, status <- lstatus

\* What a handler remembers between two steps: the operation, the status
\* message it holds, the row it read, the status it derived with its reset flag,
\* the run it works for, whether reconcile ran twice.
NoMessage == "none"
FreshLocal ==
    [op |-> "poll", held |-> NoMessage, row |-> NoRun, next |-> "idle",
     reset |-> FALSE, run |-> NoRun, again |-> FALSE]
Steps == {"ready", "check", "attach", "derive", "write", "poll", "start", "set",
          "publish", "undo", "clear", "stop", "unmount", "publishStop", "rollback",
          "restartStop", "restartStart"}

TypeOK ==
    /\ status \in SystemStatuses
    /\ runId \in Runs \cup {NoRun}
    /\ moduleStatus \in ModuleStatuses /\ cached \in ModuleStatuses
    /\ rows \subseteq Runs
    /\ lastRun \in 0..MaxRuns
    /\ step \in [Handlers -> Steps]
    /\ requests \in 0..MaxRequests /\ faults \in 0..MaxFaults
    /\ swallowed \subseteq Runs
    /\ Listener!TypeOK

Init ==
    /\ status = "idle" /\ runId = NoRun
    /\ moduleStatus = "idle" /\ cached = "idle"
    /\ rows = {} /\ lastRun = 0
    /\ step = [h \in Handlers |-> "ready"]
    /\ loc = [h \in Handlers |-> FreshLocal]
    /\ requests = 0 /\ faults = 0 /\ swallowed = {}
    /\ Listener!Init

IngestorRunning == moduleStatus = "running"
NewestRow == IF rows = {} THEN NoRun ELSE Max(rows)

-----------------------------------------------------------------------------
At(h, s) == step[h] = s
Go(h, s) == step' = [step EXCEPT ![h] = s]
Return(h) == Go(h, "ready") /\ loc' = [loc EXCEPT ![h] = FreshLocal]

\* A request arrives and, unless it is a restart, refreshes the runtime status.
\* process_messages: the messages delivered so far are applied in order; the
\* last one is in the handler's hands before it is written.  A status is stored as
\* it came and normalised by all who read it: here it is normalised at once.
Drain(h, op) ==
    /\ At(h, "ready")
    /\ \E n \in 0..Len(inbox) :
           /\ inbox' = SubSeq(inbox, n + 1, Len(inbox))
           /\ moduleStatus' = IF n > 1 THEN NormalizeModuleStatus(inbox[n - 1]) ELSE moduleStatus
           /\ loc' = [loc EXCEPT ![h].op = op,
                                 ![h].held = IF n > 0 THEN NormalizeModuleStatus(inbox[n])
                                           ELSE NoMessage]
    /\ Go(h, "check")
    /\ UNCHANGED <<status, runId, cached, rows, lastRun, faults, commands, workerVars>>

Poll(h) == Drain(h, "poll") /\ UNCHANGED requests

Ask ==
    /\ requests < MaxRequests
    /\ requests' = requests + 1

Request(h, op) ==
    /\ Ask
    /\ op = "stop" => \A g \in Handlers : loc[g].op # "stop"
    /\ Drain(h, op)

\* Slip: the lost run_id is never looked for.
ReconcileNever(h, running) ==
    Go(h, "derive") /\ loc' = [loc EXCEPT ![h].held = NoMessage]

\* reconcile_active_run_from_workers: without a run_id but with a running
\* ingestor, the newest row is read ...
Reconcile(h, running) ==
    IF runId = NoRun /\ running /\ rows # {}
    THEN Go(h, "attach") /\ loc' = [loc EXCEPT ![h].held = NoMessage, ![h].row = NewestRow]
    ELSE Go(h, "derive") /\ loc' = [loc EXCEPT ![h].held = NoMessage]

Check(h) ==
    /\ At(h, "check")
    /\ moduleStatus' = IF loc[h].held = NoMessage THEN moduleStatus ELSE loc[h].held
    /\ Reconcile(h, moduleStatus' = "running")
    /\ UNCHANGED <<status, runId, cached, rows, lastRun, boundVars, commands, inbox, workerVars>>

\* Slip: the status is recovered, the run_id is not.
AttachStatusOnly(h) ==
    /\ At(h, "attach")
    /\ status' = "running"
    /\ Go(h, "derive")
    /\ loc' = [loc EXCEPT ![h].row = NoRun]
    /\ UNCHANGED <<runId, moduleStatus, cached, rows, lastRun, boundVars, commands, inbox, workerVars>>

\* ... and attached to, under the lock.
Attach(h) ==
    /\ At(h, "attach")
    /\ runId' = loc[h].row
    /\ status' = "running"
    /\ Go(h, "derive")
    /\ loc' = [loc EXCEPT ![h].row = NoRun]
    /\ UNCHANGED <<moduleStatus, cached, rows, lastRun, boundVars, commands, inbox, workerVars>>

\* refresh_runtime_status derives the next status from what it reads here.
Derived ==
    LET derived == DeriveSystemStatus(status, {moduleStatus})
    IN  CASE runId = NoRun /\ IngestorRunning -> <<"running", FALSE>>
          [] runId = NoRun /\ ~IngestorRunning
                /\ derived[1] \in {"initializing", "running"} -> <<"idle", derived[2]>>
          [] OTHER -> derived

Derive(h) ==
    /\ At(h, "derive")
    /\ Go(h, "write")
    /\ loc' = [loc EXCEPT ![h].next = Derived[1], ![h].reset = Derived[2],
                          ![h].again = FALSE]
    /\ UNCHANGED <<sharedVars, cached, rows, lastRun, boundVars, commands, inbox, workerVars>>

\* The second call of reconcile, for a running ingestor.
ReconcileAgain(h) ==
    /\ At(h, "derive")
    /\ ~loc[h].again
    /\ runId = NoRun /\ IngestorRunning /\ rows # {}
    /\ Go(h, "attach")
    /\ loc' = [loc EXCEPT ![h].row = NewestRow, ![h].again = TRUE]
    /\ UNCHANGED <<sharedVars, cached, rows, lastRun, boundVars, commands, inbox, workerVars>>

\* ... and writes it, under the lock; a reset forgets the run.
Write(h) ==
    LET next == loc[h].next
        reset == loc[h].reset
    IN  /\ At(h, "write")
        /\ status' = next
        /\ moduleStatus' = IF reset THEN "idle" ELSE moduleStatus
        /\ runId' = IF reset \/ (next = "idle" /\ ~IngestorRunning) THEN NoRun ELSE runId
        /\ Go(h, loc[h].op)
        /\ loc' = [loc EXCEPT ![h].reset = FALSE]
        /\ UNCHANGED <<cached, rows, lastRun, boundVars, commands, inbox, workerVars>>

-----------------------------------------------------------------------------
\* GET /status derives once more, from the monitor's snapshot (up to five
\* seconds old) and the status this handler wrote, and stores the result.
PollAgain(h) ==
    LET derived == DeriveSystemStatus(loc[h].next, {cached})[1]
        reconciled == IF runId = NoRun /\ derived \in {"initializing", "running"}
                      THEN "idle" ELSE derived
    IN  /\ At(h, "poll")
        /\ status' = IF reconciled # loc[h].next THEN reconciled ELSE status
        /\ Return(h)
        /\ UNCHANGED <<runId, moduleStatus, cached, rows, lastRun, boundVars, commands, inbox, workerVars>>

\* The resource monitor takes its snapshot.
Sample ==
    /\ cached' = moduleStatus
    /\ UNCHANGED <<sharedVars, rows, lastRun, handlerVars, boundVars, commands, inbox, workerVars>>

\* execute_system_start: pipeline_run_is_active with each of its three answers,
\* and admission control, which refuses while a module is in error.  It may
\* always refuse, for a resource or a source that this model leaves out.  When it
\* does not, ensure_run_row and its commit put the run on record.
PipelineRunIsActive ==
    runId # NoRun /\ (status \in {"initializing", "running", "stopping"} \/ IngestorRunning)

StartRefused(h) ==
    \/ PipelineRunIsActive /\ (IngestorRunning \/ loc[h].next \in {"initializing", "stopping"})
    \/ moduleStatus = "error"

\* Slip: the row is flushed and its commit forgotten.
StartUncommitted(h) ==
    /\ At(h, "start")
    /\ \/ Return(h) /\ UNCHANGED lastRun
       \/ /\ ~StartRefused(h)
          /\ lastRun < MaxRuns
          /\ lastRun' = lastRun + 1
          /\ Go(h, "set")
          /\ loc' = [loc EXCEPT ![h].run = lastRun']
    /\ UNCHANGED <<sharedVars, cached, rows, boundVars, commands, inbox, workerVars>>

Start(h) ==
    /\ At(h, "start")
    /\ \/ Return(h) /\ UNCHANGED <<lastRun, rows>>
       \/ /\ ~StartRefused(h)
          /\ lastRun < MaxRuns
          /\ lastRun' = lastRun + 1
          /\ rows' = rows \cup {lastRun'}
          /\ Go(h, "set")
          /\ loc' = [loc EXCEPT ![h].run = lastRun']
    /\ UNCHANGED <<sharedVars, cached, boundVars, commands, inbox, workerVars>>

SetRun(h) ==
    /\ At(h, "set")
    /\ moduleStatus' = "idle"
    /\ runId' = loc[h].run
    /\ status' = "initializing"
    /\ Go(h, "publish")
    /\ UNCHANGED <<cached, rows, lastRun, loc, boundVars, commands, inbox, workerVars>>

\* Publisher.publish sends the message, retrying, or its retries are exhausted and
\* it raises; an attempt that failed may have sent the message all the same.
Sends(m) ==
    \/ commands' = Append(commands, m) /\ UNCHANGED faults
    \/ /\ faults < MaxFaults
       /\ faults' = faults + 1
       /\ commands' = commands \o <<m, m>>
Raises(m) ==
    /\ faults < MaxFaults
    /\ faults' = faults + 1
    /\ commands' \in {commands, Append(commands, m)}

StartMessage(run) == [command |-> "START", run |-> run, mine |-> TRUE]
StopMessage == [command |-> "STOP", run |-> NoRun, mine |-> TRUE]

PublishStart(h) ==
    /\ At(h, "publish")
    /\ \/ Sends(StartMessage(loc[h].run)) /\ Return(h)
       \/ Raises(StartMessage(loc[h].run)) /\ Go(h, "undo") /\ UNCHANGED loc
    /\ UNCHANGED <<sharedVars, cached, rows, lastRun, requests, inbox, workerVars>>

\* A failed start marks its row deleted, then forgets the run.
UndoRow(h) ==
    /\ At(h, "undo")
    /\ rows' = rows \ {loc[h].run}
    /\ Go(h, "clear")
    /\ UNCHANGED <<sharedVars, cached, lastRun, loc, boundVars, commands, inbox, workerVars>>

ClearRun(h) ==
    /\ At(h, "clear")
    /\ status' = "idle"
    /\ moduleStatus' = "idle"
    /\ runId' = NoRun
    /\ Return(h)
    /\ UNCHANGED <<cached, rows, lastRun, boundVars, commands, inbox, workerVars>>

\* stop, and _stop_active_run_for_model_unmount.
Stop(h) ==
    /\ At(h, "stop") \/ At(h, "unmount")
    /\ IF loc[h].next = "idle"
       THEN Return(h) /\ UNCHANGED status
       ELSE status' = "stopping" /\ Go(h, "publishStop") /\ UNCHANGED loc
    /\ UNCHANGED <<runId, moduleStatus, cached, rows, lastRun, boundVars, commands, inbox, workerVars>>

\* Slip: no STOP is sent to a module that does not look running.
PublishStopIfRunning(h) ==
    /\ At(h, "publishStop")
    /\ Return(h)
    /\ commands' = IF IngestorRunning THEN Append(commands, StopMessage) ELSE commands
    /\ UNCHANGED <<sharedVars, cached, rows, lastRun, requests, faults, inbox, workerVars>>

\* Only /stop takes the stopping status back when the publish fails.
PublishStop(h) ==
    /\ At(h, "publishStop")
    /\ \/ Sends(StopMessage) /\ Return(h)
       \/ /\ Raises(StopMessage)
          /\ IF loc[h].op = "stop" THEN Go(h, "rollback") /\ UNCHANGED loc ELSE Return(h)
    /\ UNCHANGED <<sharedVars, cached, rows, lastRun, requests, inbox, workerVars>>

Rollback(h) ==
    /\ At(h, "rollback")
    /\ status' = IF moduleStatus = "error" THEN "error" ELSE "running"
    /\ Return(h)
    /\ UNCHANGED <<runId, moduleStatus, cached, rows, lastRun, boundVars, commands, inbox, workerVars>>

\* restart_module: STOP, a pause, and START with the configuration built for the
\* run_id read when the request arrived.
Restart(h) ==
    /\ At(h, "ready")
    /\ Ask
    /\ runId # NoRun
    /\ Go(h, "restartStop")
    /\ loc' = [loc EXCEPT ![h].op = "restart", ![h].run = runId]
    /\ UNCHANGED <<sharedVars, cached, rows, lastRun, faults, commands, inbox, workerVars>>

RestartStop(h) ==
    /\ At(h, "restartStop")
    /\ \/ Sends(StopMessage) /\ Go(h, "restartStart") /\ UNCHANGED loc
       \/ Raises(StopMessage) /\ Return(h)
    /\ UNCHANGED <<sharedVars, cached, rows, lastRun, requests, inbox, workerVars>>

RestartStart(h) ==
    /\ At(h, "restartStart")
    /\ Sends(StartMessage(loc[h].run)) \/ Raises(StartMessage(loc[h].run))
    /\ Return(h)
    /\ UNCHANGED <<sharedVars, cached, rows, lastRun, requests, inbox, workerVars>>

-----------------------------------------------------------------------------
Refresh(h) == Check(h) \/ Attach(h) \/ Derive(h) \/ ReconcileAgain(h) \/ Write(h)

Handle(h) ==
    \/ Refresh(h) \/ PollAgain(h)
    \/ Start(h) \/ SetRun(h) \/ PublishStart(h) \/ UndoRow(h) \/ ClearRun(h)
    \/ Stop(h) \/ PublishStop(h) \/ Rollback(h)
    \/ RestartStop(h) \/ RestartStart(h)

Arrive(h) ==
    \/ Poll(h)
    \/ \E op \in Operations : Request(h, op)
    \/ WithRestart /\ Restart(h)

\* The worker's own steps; a new process counts as a fault.
ListenerStep ==
    \/ Listener!Reap
    \/ Listener!TakeStart \/ Listener!LoadFails \/ Listener!Load \/ Listener!StartThread
    \/ Listener!TakeStop \/ Listener!Join \/ Listener!Settle

\* A START is taken for one of the module that is held, whatever run it is of.
Swallow ==
    /\ Listener!TakeStartAgain
    /\ swallowed' = swallowed \cup ({Head(commands).run} \ {module})

Goes == (ListenerStep /\ UNCHANGED swallowed) \/ Swallow

WorkerSteps ==
    \/ Goes
    \/ (Listener!Tick \/ \E r \in Runs : Listener!Worker(r)) /\ UNCHANGED swallowed

Worker == WorkerSteps /\ UNCHANGED <<webappVars, faults>>

WorkerRestart ==
    /\ faults < MaxFaults
    /\ faults' = faults + 1
    /\ Listener!Restart
    /\ UNCHANGED <<webappVars, swallowed>>

Next ==
    \/ \E h \in Handlers : Arrive(h) \/ Handle(h)
    \/ Sample
    \/ Worker
    \/ WorkerRestart

\* Handlers run to their end, the status is polled (the page does), a poll again
\* and again finds every message delivered, the monitor and the worker go on, a
\* thread whose flag is cleared ends.  Requests and failures are not forced.
PollAll(h) == Poll(h) /\ inbox' = <<>>
Fairness ==
    /\ \A h \in Handlers : WF_vars(Handle(h)) /\ SF_vars(PollAll(h))
    /\ WF_vars(Sample)
    /\ WF_vars(Worker /\ Listener!Tick)
    /\ WF_vars(Worker /\ Goes)
    /\ WF_vars(Worker /\ \E r \in Runs : Listener!WorkerBegins(r))
    /\ WF_vars(Worker /\ \E r \in Runs : Listener!WorkerEnds(r))

Spec == Init /\ [][Next]_vars
FairSpec == Spec /\ Fairness

-----------------------------------------------------------------------------
\* A run that executes is on record: its row is committed before its START is
\* published and marked deleted only when the publish failed, whatever restarts
\* and second starts do.  (A publish that failed may have sent the START.)
ExecutingRunIsRecorded == alive \subseteq rows \/ faults > 0

\* What the operator is shown agrees with the worker: a recorded run that executes is
\* shown, under its own id; an error as an error, an idle worker as idle.  The exception is
\* a second START that met the first one's module: its id is the one shown.
Agrees ==
    /\ alive # {} /\ rows # {} => status \in {"running", "stopping"} /\ runId # NoRun
    /\ alive \cap rows # {} => runId \in alive \cup swallowed
    /\ lstatus = "error" => status = "error"
    /\ lstatus \in {"idle", "stopped"} => status = "idle" /\ runId = NoRun

\* A module thread that was told to stop before it had begun keeps the worker waiting.
Hangs == <>[](late # {})

\* Once the operator stops asking, what is shown agrees with the worker for good, after
\* lost statuses, failed publishes, restarts and stale snapshots; unless the worker hangs.
Converges == Hangs \/ <>[]Agrees

\* The same when requests overlap and overwrite each other's results, provided
\* they do not overlap for ever: two polls in lockstep can undo each other's
\* writes (forget the run, attach to it again) without end.
Alone == \A g, h \in Handlers : step[g] # "ready" /\ step[h] # "ready" => g = h
Heals == <>[]Alone => Converges

\* A stop that is the operator's last word, and is published, ends the run for good: no
\* START queued earlier brings it back, unless the worker hangs, or another handler has a
\* start or a restart under way, whose START comes after the STOP.
LastWord(h) ==
    /\ At(h, "publishStop")
    /\ requests = MaxRequests
    /\ faults = MaxFaults
    /\ \A g \in Handlers \ {h} : loc[g].op \notin {"start", "restart"}
LastStopWins == Hangs \/ \A h \in Handlers : [](LastWord(h) => <>[](alive = {}))
=============================================================================
