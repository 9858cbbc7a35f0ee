-------------------------- MODULE CommandListener --------------------------
(***************************************************************************)
(* run_command_listener (shared/slave.py): the main loop of every worker   *)
(* process.  It takes START, STOP and EXIT messages off the command queue, *)
(* constructs, starts, stops and joins the one module thread it holds, and *)
(* publishes its status at the top of every cycle.                         *)
(*                                                                         *)
(* A module thread is named by the run it executes.  The reference held by *)
(* the listener (module) and the threads really alive (alive) are kept     *)
(* apart: that the first never loses one of the second is what the loop    *)
(* has to guarantee.                                                       *)
(***************************************************************************)
EXTENDS Naturals, Sequences, SystemState

CONSTANTS Runs,         \* run identifiers a START may carry
          NoRun,        \* the Python None
          MaxCommands,  \* bound: commands in flight to the listener
          MaxInbox      \* bound: status messages in flight to the control plane

ASSUME ListenerAssumption ==
    /\ NoRun \notin Runs
    /\ MaxCommands \in Nat
    /\ MaxInbox \in Nat

VARIABLES commands,   \* system messages sent and not yet taken by the listener
          inbox,      \* status messages sent and not yet read by the control plane
          pc,         \* where the listener is in its loop
          cmd,        \* the message being handled
          status,     \* the listener's status variable
          module,     \* the run of the module object it holds, or NoRun
          alive,      \* runs whose module thread is alive
          starting,   \* runs whose thread is alive and has not begun run() yet
          process,    \* runs whose thread has its process flag set
          completed,  \* runs whose thread has set completed_normally
          late        \* history: runs whose thread was told to stop while it was starting

listenerVars == <<pc, cmd, status, module>>
threadVars == <<alive, starting, process, completed, late>>
vars == <<commands, inbox, listenerVars, threadVars>>

\* A START carries the configuration of its run; mine is FALSE when
\* target_modules names other modules only.
Message ==
    [command : {"START"}, run : Runs, mine : BOOLEAN] \cup
    [command : {"STOP", "EXIT"}, run : {NoRun}, mine : BOOLEAN]
NoMessage == [command |-> "STOP", run |-> NoRun, mine |-> FALSE]
PCs == {"loop", "loading", "loaded", "joining", "settle", "finally", "exited"}

TypeOK ==
    /\ commands \in Seq(Message)
    /\ inbox \in Seq(ModuleStatuses)
    /\ pc \in PCs
    /\ cmd \in Message
    /\ status \in ModuleStatuses
    /\ module \in Runs \cup {NoRun}
    /\ alive \subseteq Runs
    /\ starting \subseteq Runs
    /\ process \subseteq Runs
    /\ completed \subseteq Runs
    /\ late \subseteq Runs

Init ==
    /\ commands = <<>>
    /\ inbox = <<>>
    /\ pc = "loop"
    /\ cmd = NoMessage
    /\ status = "idle"
    /\ module = NoRun
    /\ alive = {}
    /\ starting = {}
    /\ process = {}
    /\ completed = {}
    /\ late = {}

-----------------------------------------------------------------------------
\* StatusPublisher swallows a failed publish: the message may be lost.  It is
\* always lost when the bound on the messages in flight is reached.
Publish(s) ==
    \/ UNCHANGED inbox
    \/ Len(inbox) < MaxInbox /\ inbox' = Append(inbox, s)

\* The status published at the top of each cycle (a failed one changes nothing).
Tick ==
    /\ pc = "loop"
    /\ Len(inbox) < MaxInbox
    /\ inbox' = Append(inbox, status)
    /\ UNCHANGED <<commands, listenerVars, threadVars>>

\* module = None: what the thread said of itself goes with the object.
DropModule ==
    /\ module' = NoRun
    /\ completed' = completed \ {module}
    /\ late' = late \ {module}

\* module.stop() clears the process flag.  A thread that has not begun sets it again.
StopModule ==
    /\ process' = process \ {module}
    /\ late' = late \cup ({module} \cap starting)

\* queue.get timed out, no command waits, and the held module has died since.
Reap ==
    /\ pc = "loop"
    /\ commands = <<>>
    /\ module # NoRun
    /\ module \notin alive
    /\ DropModule
    /\ status' = IF module \in completed THEN "stopped" ELSE "error"
    /\ Publish(status')
    /\ UNCHANGED <<commands, pc, cmd, alive, starting, process>>

\* queue.get returned the next message, to be handled or skimmed over.
Skim ==
    /\ pc = "loop"
    /\ commands # <<>>
    /\ commands' = Tail(commands)
    /\ UNCHANGED <<pc, cmd>>

Take ==
    /\ pc = "loop"
    /\ commands # <<>>
    /\ commands' = Tail(commands)
    /\ cmd' = Head(commands)

\* Back to the top of the loop.
Done == pc' = "loop" /\ cmd' = NoMessage

Ignore ==
    /\ Skim
    /\ ~Head(commands).mine
    /\ UNCHANGED <<inbox, status, module, threadVars>>

\* (slip: the held module is not looked at)
TakeStartAnyway ==
    /\ Take
    /\ Head(commands).mine
    /\ Head(commands).command = "START"
    /\ pc' = "loading"
    /\ UNCHANGED <<inbox, status, module, threadVars>>

TakeStart ==
    /\ Take
    /\ Head(commands).mine
    /\ Head(commands).command = "START"
    /\ module = NoRun
    /\ pc' = "loading"
    /\ UNCHANGED <<inbox, status, module, threadVars>>

\* Module(config) raised.
LoadFails ==
    /\ pc = "loading"
    /\ status' = "error"
    /\ Publish("error")
    /\ Done
    /\ UNCHANGED <<commands, module, threadVars>>

Load ==
    /\ pc = "loading"
    /\ module' = cmd.run
    /\ status' = "initialized"
    /\ Publish("initialized")
    /\ pc' = "loaded"
    /\ UNCHANGED <<commands, cmd, threadVars>>

\* module.start(): the thread is alive, its run() may begin later.
StartThread ==
    /\ pc = "loaded"
    /\ alive' = alive \cup {module}
    /\ starting' = starting \cup {module}
    /\ completed' = completed \ {module}
    /\ status' = "running"
    /\ Publish("running")
    /\ Done
    /\ UNCHANGED <<commands, module, process, late>>

\* A START while a module is held: its configuration is dropped, and the
\* module may already be dead.
TakeStartAgain ==
    /\ Skim
    /\ Head(commands).mine
    /\ Head(commands).command = "START"
    /\ module # NoRun
    /\ status' = "running"
    /\ Publish("running")
    /\ UNCHANGED <<module, threadVars>>

\* Slip: the thread is waited for and not told to stop.
TakeStopNoFlag ==
    /\ Take
    /\ Head(commands).mine
    /\ Head(commands).command \in {"STOP", "EXIT"}
    /\ pc' = IF module # NoRun THEN "joining" ELSE "settle"
    /\ UNCHANGED <<inbox, status, module, threadVars>>

\* STOP and EXIT: module.stop(), then join().
TakeStop ==
    /\ Take
    /\ Head(commands).mine
    /\ Head(commands).command \in {"STOP", "EXIT"}
    /\ StopModule
    /\ pc' = IF module # NoRun THEN "joining" ELSE "settle"
    /\ UNCHANGED <<inbox, status, module, alive, starting, completed>>

\* Slip: join gives up after a timeout.
JoinTimesOut ==
    /\ pc = "joining"
    /\ DropModule
    /\ status' = "stopped"
    /\ Publish("stopped")
    /\ pc' = "settle"
    /\ UNCHANGED <<commands, cmd, alive, starting, process>>

\* module.join() has returned.
Join ==
    /\ pc = "joining"
    /\ module \notin alive
    /\ DropModule
    /\ status' = "stopped"
    /\ Publish("stopped")
    /\ pc' = "settle"
    /\ UNCHANGED <<commands, cmd, alive, starting, process>>

Settle ==
    /\ pc = "settle"
    /\ status' = "idle"
    /\ Publish("idle")
    /\ IF cmd.command = "EXIT" THEN pc' = "finally" /\ UNCHANGED cmd ELSE Done
    /\ UNCHANGED <<commands, module, threadVars>>

\* An exception or a keyboard interrupt leaves the loop.
Interrupt ==
    /\ pc \notin {"finally", "exited"}
    /\ StopModule
    /\ pc' = "finally"
    /\ UNCHANGED <<commands, inbox, cmd, status, module, alive, starting, completed>>

\* The finally block: the module was stopped, is joined, EXIT is published.
Finally ==
    /\ pc = "finally"
    /\ module \notin alive
    /\ Publish("exit")
    /\ pc' = "exited"
    /\ UNCHANGED <<commands, cmd, status, module, threadVars>>

\* The process is killed, or ends, and the container runtime starts it again
\* (restart: unless-stopped).  Commands already delivered to the dead process
\* (auto_ack) are lost; those still in the broker are not.
Restart ==
    /\ \E lost \in 0..Len(commands) :
           commands' = SubSeq(commands, lost + 1, Len(commands))
    /\ pc' = "loop"
    /\ cmd' = NoMessage
    /\ status' = "idle"
    /\ module' = NoRun
    /\ alive' = {}
    /\ starting' = {}
    /\ process' = {}
    /\ completed' = {}
    /\ late' = {}
    /\ UNCHANGED inbox

-----------------------------------------------------------------------------
\* The first statement of the module thread sets its process flag, ...
WorkerBegins(r) ==
    /\ r \in starting
    /\ starting' = starting \ {r}
    /\ process' = process \cup {r}
    /\ UNCHANGED <<commands, inbox, listenerVars, alive, completed, late>>

\* ... then it detects a failed worker or missing frames, finishes its file sources,
\* dies of an exception, or ends after its flag is cleared.
WorkerFails(r) ==
    /\ r \in process
    /\ process' = process \ {r}
    /\ Publish("error")
    /\ UNCHANGED <<commands, listenerVars, alive, starting, completed, late>>

WorkerCompletes(r) ==
    /\ r \in process
    /\ process' = process \ {r}
    /\ completed' = completed \cup {r}
    /\ Publish("stopped")
    /\ UNCHANGED <<commands, listenerVars, alive, starting, late>>

WorkerDies(r) ==
    /\ r \in process
    /\ process' = process \ {r}
    /\ alive' = alive \ {r}
    /\ UNCHANGED <<commands, inbox, listenerVars, starting, completed, late>>

WorkerEnds(r) ==
    /\ r \in alive
    /\ r \notin process \cup starting
    /\ alive' = alive \ {r}
    /\ UNCHANGED <<commands, inbox, listenerVars, starting, process, completed, late>>

\* The control plane: it publishes a command or reads status messages.
Send(m) ==
    /\ Len(commands) < MaxCommands
    /\ commands' = Append(commands, m)
    /\ UNCHANGED <<inbox, listenerVars, threadVars>>

Read ==
    /\ \E read \in 1..Len(inbox) : inbox' = SubSeq(inbox, read + 1, Len(inbox))
    /\ UNCHANGED <<commands, listenerVars, threadVars>>

Listener ==
    \/ Tick \/ Reap \/ Ignore
    \/ TakeStart \/ LoadFails \/ Load \/ StartThread \/ TakeStartAgain
    \/ TakeStop \/ Join \/ Settle
    \/ Interrupt \/ Finally \/ Restart

Worker(r) ==
    WorkerBegins(r) \/ WorkerFails(r) \/ WorkerCompletes(r) \/ WorkerDies(r) \/ WorkerEnds(r)

Next ==
    \/ Listener
    \/ \E r \in Runs : Worker(r)
    \/ \E m \in Message : Send(m)
    \/ Read

\* The listener keeps stepping, a thread that was started begins, one whose flag is
\* cleared ends, and the constructor returns.  Commands, failures and restarts are not forced.
Fairness ==
    /\ WF_vars(Reap)
    /\ WF_vars(Ignore \/ TakeStart \/ TakeStartAgain \/ TakeStop)
    /\ WF_vars(LoadFails \/ Load)
    /\ WF_vars(StartThread)
    /\ WF_vars(Join)
    /\ WF_vars(Settle)
    /\ WF_vars(Finally)
    /\ \A r \in Runs : WF_vars(WorkerBegins(r)) /\ WF_vars(WorkerEnds(r))

Spec == Init /\ [][Next]_vars
FairSpec == Spec /\ Fairness

-----------------------------------------------------------------------------
\* No thread outlives the listener's hold on it: every thread that is alive is
\* the one of the module object held, which stop and join can still reach.
NoOrphanThread == alive \subseteq {module}

\* A status that says the module is not working is never reported over a
\* thread that is: neither by the loop nor after the listener has exited.
IdleMeansNoThread ==
    (status \in {"idle", "stopped", "error"} \/ pc = "exited") => alive = {}

\* docs/security.md:198-201: a module's error is reported, and "admission remains
\* blocked until the module is restarted or the system is stopped", or the process
\* itself is started again: nothing else takes the error back.
ErrorIsSticky ==
    [][status = "error" /\ status' # "error" =>
          \/ pc = "loading" /\ cmd.command = "START"
          \/ pc = "settle" /\ cmd.command \in {"STOP", "EXIT"}
          \/ Restart]_vars

\* The inductive invariant the three properties above follow from.
Invariant ==
    /\ TypeOK
    /\ NoOrphanThread
    /\ process \cup starting \subseteq alive /\ process \cap starting = {}
    /\ pc = "loop" => (module = NoRun) = (status \in {"idle", "stopped", "error"})
    /\ pc \in {"loop", "joining"} /\ module # NoRun => status = "running"
    /\ pc \in {"loading", "settle"} => module = NoRun
    /\ pc \in {"loading", "loaded"} => cmd.command = "START"
    /\ pc \in {"joining", "settle"} => cmd.command # "START"
    /\ pc = "loaded" => module = cmd.run /\ alive = {} /\ status = "initialized"
    /\ pc = "joining" => module # NoRun
    /\ pc \in {"joining", "finally"} /\ module \notin late => module \notin process \cup starting
    /\ status \in {"idle", "stopped", "error"} => alive = {}
    /\ pc = "exited" => alive = {}

\* A module whose thread is dead is let go of, so that its end is reported and the next
\* START is not swallowed by it: once the commands cease, since it is looked at only when
\* none waits.
DeadModuleIsReleased ==
    <>[](commands = <<>>) =>
        ((module # NoRun /\ module \notin alive) ~>
            (module = NoRun \/ alive # {} \/ pc = "exited"))

\* A STOP that found a thread alive ends it, and the listener goes on: unless the thread
\* had not begun, for then it takes no notice.
StopEndsTheThread == (pc = "joining" /\ module \notin late) ~> (alive = {} /\ pc # "joining")

\* The loop lets go of every module, the dead one and the one it is told to stop.
LoopLetsGo == DeadModuleIsReleased /\ StopEndsTheThread

\* Seen from outside: one run at a time.
Supervisor == INSTANCE RunSupervisor WITH
    current <- IF alive = {} THEN NoRun ELSE module,
    claim <- IF status \in {"idle", "stopped", "error"} THEN "free" ELSE "busy"
OneRunAtATime == Supervisor!Spec
=============================================================================
