---------------------------- MODULE LocalWorkers ----------------------------
(***************************************************************************)
(* `hearthlight start` and `hearthlight stop` where the workers run on the *)
(* host: run/launcher.py brings up the containers and then a supervisor,   *)
(* hearthlight/local_workers.py, that starts the worker processes, serves  *)
(* health over HTTP and leaves its pid in a file.  Commands may overlap    *)
(* (the window of run/gui_launcher.py lets Stop be pressed while Run is    *)
(* still at it), and a signal interrupts the supervisor's main thread      *)
(* wherever that is, with the lock it may hold.                            *)
(***************************************************************************)
EXTENDS Naturals, FiniteSets

CONSTANTS MaxCommands,      \* bound: invocations of the command line
          MaxSupervisors,   \* bound: processes they may spawn
          Modules,          \* the worker processes of a supervisor
          Nobody            \* no process

Commands == 1..MaxCommands
Supervisors == 1..MaxSupervisors

VARIABLES
    infra, core,   \* the containers that are up: db and rabbitmq, the services
    pidFile,       \* whose pid the file holds
    port,          \* who is bound to the port
    at,            \* where the main thread of a supervisor is
    back,          \* where the signal handler it is in will return to
    http,          \* the thread that POST /shutdown starts: "none", "asked", "halting", "over"
    lock,          \* who holds the lock of a supervisor: "free", "main", "http"
    told,          \* the supervisors whose stop_event is set
    term,          \* those with a SIGTERM that is not handled yet
    processes,     \* those a supervisor has started, by module
    workers,       \* those of them that run, also when it does not any more
    ending,        \* the supervisors that have terminated theirs, and wait for them
    killed,        \* the supervisors that were killed
    command,       \* where an invocation is
    target,        \* the process it spawned or read from the file
    overlap,       \* two commands, or a command and a booting supervisor, overlapped
    stopped        \* no command ran since the last stop returned

processVars == <<at, back, http, lock, told, term, processes, workers, ending, killed>>
commandVars == <<command, target, overlap, stopped>>
vars == <<infra, core, pidFile, port, processVars, commandVars>>

Points == {"none", "boot", "named", "starting", "started", "bound", "serving",
           "finally", "joining", "halting", "leaving", "stuck", "dead"}
Alive(s) == at[s] \notin {"none", "dead"}

Init ==
    /\ infra = FALSE /\ core = FALSE /\ pidFile = Nobody /\ port = Nobody
    /\ at = [s \in Supervisors |-> "none"] /\ back = [s \in Supervisors |-> "none"]
    /\ http = [s \in Supervisors |-> "none"] /\ lock = [s \in Supervisors |-> "free"]
    /\ told = {} /\ term = {} /\ processes = [s \in Supervisors |-> {}]
    /\ workers = [s \in Supervisors |-> {}]
    /\ ending = {} /\ killed = {}
    /\ command = [c \in Commands |-> "new"] /\ target = [c \in Commands |-> Nobody]
    /\ overlap = FALSE /\ stopped = FALSE
-----------------------------------------------------------------------------
\* The supervisor's main thread.
Goes(s, from, to) == at[s] = from /\ at' = [at EXCEPT ![s] = to]
containerVars == <<infra, core>>

\* A process that is over: its sockets and its lock go with it, its workers do not.
Dies(s) ==
    /\ at' = [at EXCEPT ![s] = "dead"]
    /\ port' = IF port = s THEN Nobody ELSE port
    /\ term' = term \ {s} /\ ending' = ending \ {s}
    /\ lock' = [lock EXCEPT ![s] = "free"] /\ http' = [http EXCEPT ![s] = "over"]

\* LocalWorkerSupervisor.__init__ waits for the database and the broker, or raises;
\* only then the handlers are set and the pid is written.
Boot(s) ==
    /\ infra /\ Goes(s, "boot", "named")
    /\ pidFile' = s
    /\ UNCHANGED <<containerVars, port, back, http, lock, told, term, processes, workers, ending, killed, commandVars>>
BootFails(s) ==
    /\ at[s] = "boot" /\ ~infra
    /\ Dies(s)
    /\ UNCHANGED <<containerVars, pidFile, back, told, processes, workers, killed, commandVars>>

\* start_workers
Lock(s) ==
    /\ lock[s] = "free" /\ Goes(s, "named", "starting")
    /\ lock' = [lock EXCEPT ![s] = "main"]
    /\ UNCHANGED <<containerVars, pidFile, port, back, http, told, term, processes, workers, ending, killed, commandVars>>
StartWorker(s, m) ==
    /\ at[s] = "starting" /\ m \notin processes[s]
    /\ processes' = [processes EXCEPT ![s] = @ \cup {m}]
    /\ workers' = [workers EXCEPT ![s] = @ \cup {m}]
    /\ UNCHANGED <<containerVars, pidFile, port, at, back, http, lock, told, term, ending, killed, commandVars>>
Unlock(s) ==
    /\ processes[s] = Modules /\ Goes(s, "starting", "started")
    /\ lock' = [lock EXCEPT ![s] = "free"]
    /\ UNCHANGED <<containerVars, pidFile, port, back, http, told, term, processes, workers, ending, killed, commandVars>>
\* Popen raises: on to the finally clause.
StartFails(s) ==
    /\ Goes(s, "starting", "finally")
    /\ lock' = [lock EXCEPT ![s] = "free"]
    /\ UNCHANGED <<containerVars, pidFile, port, back, http, told, term, processes, workers, ending, killed, commandVars>>

\* serve: the port may be taken, by another supervisor or by anyone else.
Bind(s) ==
    /\ port = Nobody /\ Goes(s, "started", "bound")
    /\ port' = s
    /\ UNCHANGED <<containerVars, pidFile, back, http, lock, told, term, processes, workers, ending, killed, commandVars>>
BindFails(s) ==
    /\ Goes(s, "started", "finally")
    /\ UNCHANGED <<containerVars, pidFile, port, back, http, lock, told, term, processes, workers, ending, killed, commandVars>>
Serve(s) ==
    /\ Goes(s, "bound", "serving")
    /\ UNCHANGED <<containerVars, pidFile, port, back, http, lock, told, term, processes, workers, ending, killed, commandVars>>
Leave(s) ==
    /\ s \in told /\ Goes(s, "serving", "finally")
    /\ UNCHANGED <<containerVars, pidFile, port, back, http, lock, told, term, processes, workers, ending, killed, commandVars>>
\* POST /shutdown: an answer, and a thread that runs shutdown.
PostShutdown(s) ==
    /\ at[s] = "serving" /\ port = s /\ http[s] = "none"
    /\ http' = [http EXCEPT ![s] = "asked"]
    /\ told' = told \cup {s} /\ port' = Nobody
    /\ UNCHANGED <<containerVars, pidFile, at, back, lock, term, processes, workers, ending, killed, commandVars>>
-----------------------------------------------------------------------------
\* shutdown, in the finally clause: the server is closed, then the lock is needed.
Finally(s) ==
    /\ Goes(s, "finally", "joining")
    /\ told' = told \cup {s}
    /\ port' = IF port = s THEN Nobody ELSE port
    /\ UNCHANGED <<containerVars, pidFile, back, http, lock, term, processes, workers, ending, killed, commandVars>>

\* The handler of SIGTERM runs shutdown in the main thread, on top of what that is
\* doing: the lock is not reentrant, and a server that does not serve yet is waited
\* for for ever.
Handler(s) ==
    /\ s \in term
    /\ at[s] \in Points \ {"none", "boot", "stuck", "dead"}
    /\ term' = term \ {s} /\ told' = told \cup {s}
    /\ IF lock[s] = "main" \/ at[s] = "bound"
       THEN /\ at' = [at EXCEPT ![s] = "stuck"]
            /\ UNCHANGED <<back, port>>
       ELSE /\ at' = [at EXCEPT ![s] = "joining"]
            /\ back' = [back EXCEPT ![s] = IF at[s] = "joining" THEN @ ELSE at[s]]
            /\ port' = IF port = s THEN Nobody ELSE port
    /\ UNCHANGED <<containerVars, pidFile, http, lock, processes, workers, ending, killed, commandVars>>

\* stop_workers, in the main thread or that of POST /shutdown: everything under the lock.
Terminate(s) ==
    /\ lock[s] = "free"
    /\ \/ /\ Goes(s, "joining", "halting")
          /\ lock' = [lock EXCEPT ![s] = "main"]
          /\ UNCHANGED http
       \/ /\ http[s] = "asked" /\ Alive(s)
          /\ http' = [http EXCEPT ![s] = "halting"]
          /\ lock' = [lock EXCEPT ![s] = "http"]
          /\ UNCHANGED at
    /\ ending' = ending \cup {s}
    /\ UNCHANGED <<containerVars, pidFile, port, back, told, term, processes, workers, killed, commandVars>>

\* The thread that stopped the workers returns, the main thread to where it was.
Returns(s) ==
    \/ /\ lock[s] = "main" /\ at[s] = "halting"
       /\ at' = [at EXCEPT ![s] = IF back[s] = "none" THEN "leaving" ELSE back[s]]
       /\ back' = [back EXCEPT ![s] = "none"]
       /\ UNCHANGED http
    \/ /\ lock[s] = "http"
       /\ http' = [http EXCEPT ![s] = "over"]
       /\ UNCHANGED <<at, back>>

\* (slip: the lock is not released)
KeepLock(s) ==
    /\ s \in ending /\ Returns(s)
    /\ workers' = [workers EXCEPT ![s] = @ \ processes[s]]
    /\ processes' = [processes EXCEPT ![s] = {}]
    /\ ending' = ending \ {s}
    /\ UNCHANGED <<lock, containerVars, pidFile, port, told, term, killed, commandVars>>

\* They have ended, or the deadline is over and the rest are killed.
Ended(s) ==
    /\ s \in ending /\ Returns(s)
    /\ workers' = [workers EXCEPT ![s] = @ \ processes[s]]
    /\ processes' = [processes EXCEPT ![s] = {}]
    /\ ending' = ending \ {s}
    /\ lock' = [lock EXCEPT ![s] = "free"]
    /\ UNCHANGED <<containerVars, pidFile, port, told, term, killed, commandVars>>

\* The end of main: _remove_pid, whosever it is.
Exit(s) ==
    /\ at[s] = "leaving"
    /\ pidFile' = Nobody
    /\ Dies(s)
    /\ UNCHANGED <<containerVars, back, told, processes, workers, killed, commandVars>>

\* A worker ends, of a fault or of the SIGTERM; nobody starts it again.
WorkerEnds(s, m) ==
    /\ m \in workers[s]
    /\ workers' = [workers EXCEPT ![s] = @ \ {m}]
    /\ UNCHANGED <<containerVars, pidFile, port, at, back, http, lock, told, term, processes, ending, killed, commandVars>>

\* A supervisor is killed from outside, as for want of memory.
Crash(s) ==
    /\ Alive(s)
    /\ killed' = killed \cup {s} /\ Dies(s)
    /\ UNCHANGED <<containerVars, pidFile, back, told, processes, workers, commandVars>>
-----------------------------------------------------------------------------
\* The command line.
Begins(c) ==
    /\ \A d \in Commands : command[d] = "new" <=> d >= c   \* in order
    /\ overlap' = (overlap \/ \E d \in Commands : command[d] \notin {"new", "done"}
                           \/ \E s \in Supervisors : at[s] = "boot")
    /\ stopped' = FALSE
Turns(c, from, to) == command[c] = from /\ command' = [command EXCEPT ![c] = to]

\* start_stack, where a container that does not come up ends the command.
StartInfra(c) ==
    /\ Begins(c)
    /\ \/ Turns(c, "new", "core") /\ infra' = TRUE
       \/ Turns(c, "new", "done") /\ UNCHANGED infra
    /\ UNCHANGED <<core, pidFile, port, processVars, target>>
StartCore(c) ==
    /\ \/ Turns(c, "core", "check") /\ core' = TRUE
       \/ Turns(c, "core", "done") /\ UNCHANGED core
    /\ UNCHANGED <<infra, pidFile, port, processVars, target, overlap, stopped>>
\* (slip: a file left over is taken for stale)
TakeForStale(c) ==
    /\ Turns(c, "check", "spawn")
    /\ pidFile' = Nobody
    /\ UNCHANGED <<containerVars, port, processVars, target, overlap, stopped>>
\* start_supervisor: nothing to do when the pid in the file is that of a process.
CheckPid(c) ==
    /\ IF pidFile # Nobody /\ Alive(pidFile)
       THEN Turns(c, "check", "done") /\ UNCHANGED pidFile
       ELSE Turns(c, "check", "spawn") /\ pidFile' = Nobody
    /\ UNCHANGED <<containerVars, port, processVars, target, overlap, stopped>>
Spawn(c, s) ==
    /\ Turns(c, "spawn", "await")
    /\ \A o \in Supervisors : at[o] = "none" <=> o >= s   \* in order
    /\ at' = [at EXCEPT ![s] = "boot"]
    /\ target' = [target EXCEPT ![c] = s]
    /\ UNCHANGED <<containerVars, pidFile, port, back, http, lock, told, term, processes, workers,
                   ending, killed, overlap, stopped>>
\* The file is there, the process is over, or 20 seconds are.
Await(c) ==
    /\ Turns(c, "await", "done")
    /\ UNCHANGED <<containerVars, pidFile, port, processVars, target, overlap, stopped>>

\* stop_supervisor
ReadPid(c) ==
    /\ Begins(c)
    /\ Turns(c, "new", IF pidFile = Nobody THEN "down" ELSE "signal")
    /\ target' = [target EXCEPT ![c] = pidFile]
    /\ UNCHANGED <<containerVars, pidFile, port, processVars>>
Signal(c) ==
    /\ command[c] = "signal"
    /\ IF Alive(target[c])
       THEN /\ Turns(c, "signal", "wait")
            /\ term' = term \cup {target[c]} /\ UNCHANGED pidFile
       ELSE /\ Turns(c, "signal", "down")
            /\ pidFile' = Nobody /\ UNCHANGED term
    /\ UNCHANGED <<containerVars, port, at, back, http, lock, told, processes, workers, ending, killed,
                   target, overlap, stopped>>
\* (slip: 10 seconds over, the process is left alone)
LeaveAlone(c) ==
    /\ Turns(c, "wait", "unlink")
    /\ UNCHANGED <<containerVars, pidFile, port, processVars, target, overlap, stopped>>
\* The process is over, or killed when 10 seconds are.
WaitOver(c) ==
    /\ Turns(c, "wait", "unlink")
    /\ IF Alive(target[c])
       THEN killed' = killed \cup {target[c]} /\ Dies(target[c])
       ELSE UNCHANGED <<killed, at, port, term, ending, lock, http>>
    /\ UNCHANGED <<containerVars, pidFile, back, told, processes, workers, target, overlap, stopped>>
Unlink(c) ==
    /\ Turns(c, "unlink", "down")
    /\ pidFile' = Nobody
    /\ UNCHANGED <<containerVars, port, processVars, target, overlap, stopped>>
\* docker compose down, which may fail.
Down(c) ==
    /\ Turns(c, "down", "done")
    /\ \/ infra' = FALSE /\ core' = FALSE /\ stopped' = TRUE
       \/ UNCHANGED <<infra, core, stopped>>
    /\ UNCHANGED <<pidFile, port, processVars, target, overlap>>
-----------------------------------------------------------------------------
Main(s) ==
    \/ Boot(s) \/ BootFails(s) \/ Lock(s) \/ Unlock(s) \/ StartFails(s)
    \/ Bind(s) \/ BindFails(s) \/ Serve(s) \/ Leave(s) \/ Finally(s)
    \/ Handler(s) \/ Terminate(s) \/ Ended(s) \/ Exit(s)
    \/ \E m \in Modules : StartWorker(s, m)

Continue(c) ==
    \/ StartCore(c) \/ CheckPid(c) \/ Await(c) \/ \E s \in Supervisors : Spawn(c, s)
    \/ Signal(c) \/ WaitOver(c) \/ Unlink(c) \/ Down(c)

Next ==
    \/ \E s \in Supervisors :
          Main(s) \/ PostShutdown(s) \/ Crash(s) \/ \E m \in Modules : WorkerEnds(s, m)
    \/ \E c \in Commands : StartInfra(c) \/ ReadPid(c) \/ Continue(c)

Fairness ==
    /\ \A s \in Supervisors : WF_vars(Main(s))
    /\ \A c \in Commands : WF_vars(Continue(c))
Spec == Init /\ [][Next]_vars /\ Fairness
-----------------------------------------------------------------------------
LocalWorkersTypes ==
    /\ at \in [Supervisors -> Points] /\ back \in [Supervisors -> Points]
    /\ http \in [Supervisors -> {"none", "asked", "halting", "over"}]
    /\ lock \in [Supervisors -> {"free", "main", "http"}]
    /\ {pidFile, port} \subseteq Supervisors \cup {Nobody}
    /\ told \cup term \cup ending \cup killed \subseteq Supervisors
    /\ workers \in [Supervisors -> SUBSET Modules]

(***************************************************************************)
(* A supervisor that came to its end by itself, wherever a signal or POST  *)
(* /shutdown met it, took its workers with it: only one that was killed    *)
(* leaves any running.                                                     *)
(***************************************************************************)
TakesItsWorkers ==
    /\ LocalWorkersTypes
    /\ \A s \in Supervisors : at[s] = "dead" /\ workers[s] # {} => s \in killed

(***************************************************************************)
(* Unless commands overlapped, a supervisor that serves and was not told   *)
(* to stop is the one the pid file names, so that `stop` finds it and      *)
(* `start` does not start another.                                         *)
(***************************************************************************)
ServerIsOnFile ==
    \A s \in Supervisors : at[s] = "serving" /\ s \notin told /\ ~overlap => pidFile = s

(***************************************************************************)
(* Unless commands overlapped, nothing is up when `stop` has returned.     *)
(***************************************************************************)
StopLeavesNothing ==
    stopped /\ ~overlap => ~infra /\ ~core /\ \A s \in Supervisors : ~Alive(s)

(***************************************************************************)
(* No process is left behind: neither by a supervisor that ends nor by a   *)
(* `stop` that had the field to itself.                                    *)
(***************************************************************************)
NothingLeftBehind == TakesItsWorkers /\ StopLeavesNothing

(***************************************************************************)
(* A supervisor that was told to stop, by a signal or over HTTP, does not  *)
(* stay, though its main thread may wait for itself.                       *)
(***************************************************************************)
ToldToStopEnds == \A s \in Supervisors : s \in told \cup term ~> at[s] = "dead"
=============================================================================
