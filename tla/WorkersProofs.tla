---------------------------- MODULE WorkersProofs ----------------------------
(***************************************************************************)
(* The safety of the processes that work, for every value of the           *)
(* constants.  Of the command loop, Invariant is inductive, implies the    *)
(* properties the runs check, and with it the loop implements the          *)
(* one-run-at-a-time supervisor.  Of the supervisor of a host and the      *)
(* commands, LocalInvariant is.  At the end the runs' specifications are   *)
(* shown to be those.                                                      *)
(***************************************************************************)
EXTENDS MCWorkers, SequenceTheorems, TLAPS

-----------------------------------------------------------------------------
(* The command loop. *)

\* The rest of a command queue is a command queue.
LEMMA TailOfCommands ==
    ASSUME NEW q \in Seq(Message), q # <<>>
    PROVE  /\ Head(q) \in Message
           /\ Tail(q) \in Seq(Message)
  OBVIOUS

\* A publish, lost or not, leaves a queue of module statuses.
LEMMA PublishKeepsType ==
    ASSUME inbox \in Seq(ModuleStatuses), NEW s \in ModuleStatuses, Publish(s)
    PROVE  inbox' \in Seq(ModuleStatuses)
  BY DEF Publish

\* What a command can be.
LEMMA MessageShape ==
    ASSUME NEW m \in Message
    PROVE  /\ m.command \in {"START", "STOP", "EXIT"}
           /\ m.command = "START" => m.run \in Runs
           /\ m.command # "START" => m.run = NoRun
  BY DEF Message

\* The message that stands for none is a message.
LEMMA NothingHandled == NoMessage \in Message
  BY DEF NoMessage, Message

\* The initial state of a worker process satisfies the invariant.
THEOREM Initialization == Init => Invariant
  BY ListenerAssumption DEF Init, Invariant, TypeOK, NoOrphanThread, NoMessage, Message,
     ModuleStatuses, PCs

\* Every step of the listener, of a module thread and of the control plane
\* preserves the invariant.
THEOREM Consecution == Invariant /\ [Next]_vars => Invariant'
<1> SUFFICES ASSUME Invariant, [Next]_vars PROVE Invariant'
  OBVIOUS
<1> USE ListenerAssumption DEF Invariant, TypeOK, NoOrphanThread, ModuleStatuses, PCs
<1>1. CASE Tick
  BY <1>1 DEF Tick, listenerVars, threadVars
<1>2. CASE Reap
  <2>1. inbox' \in Seq(ModuleStatuses)
    BY <1>2, PublishKeepsType DEF Reap
  <2> QED BY <1>2, <2>1 DEF Reap, DropModule
<1>3. CASE Ignore
  BY <1>3, TailOfCommands DEF Ignore, Skim, threadVars
<1>4. CASE TakeStart
  BY <1>4, TailOfCommands DEF TakeStart, Take, threadVars
<1>5. CASE LoadFails
  <2>1. inbox' \in Seq(ModuleStatuses)
    BY <1>5, PublishKeepsType DEF LoadFails
  <2> QED BY <1>5, <2>1, NothingHandled DEF LoadFails, Done, threadVars
<1>6. CASE Load
  <2>1. inbox' \in Seq(ModuleStatuses)
    BY <1>6, PublishKeepsType DEF Load
  <2> QED BY <1>6, <2>1, MessageShape DEF Load, threadVars
<1>7. CASE StartThread
  <2>1. inbox' \in Seq(ModuleStatuses)
    BY <1>7, PublishKeepsType DEF StartThread
  <2> QED BY <1>7, <2>1, MessageShape, NothingHandled DEF StartThread, Done
<1>8. CASE TakeStartAgain
  <2>1. inbox' \in Seq(ModuleStatuses)
    BY <1>8, PublishKeepsType DEF TakeStartAgain
  <2> QED BY <1>8, <2>1, TailOfCommands DEF TakeStartAgain, Skim, threadVars
<1>9. CASE TakeStop
  BY <1>9, TailOfCommands DEF TakeStop, Take, StopModule
<1>10. CASE Join
  <2>1. inbox' \in Seq(ModuleStatuses)
    BY <1>10, PublishKeepsType DEF Join
  <2> QED BY <1>10, <2>1 DEF Join, DropModule
<1>11. CASE Settle
  <2>1. inbox' \in Seq(ModuleStatuses)
    BY <1>11, PublishKeepsType DEF Settle
  <2> QED BY <1>11, <2>1, NothingHandled DEF Settle, Done, threadVars
<1>12. CASE Interrupt
  BY <1>12 DEF Interrupt, StopModule
<1>13. CASE Finally
  <2>1. inbox' \in Seq(ModuleStatuses)
    BY <1>13, PublishKeepsType DEF Finally
  <2> QED BY <1>13, <2>1 DEF Finally, threadVars
<1>14. CASE Restart
  <2>1. commands' \in Seq(Message)
    BY <1>14 DEF Restart
  <2> QED BY <1>14, <2>1, NothingHandled DEF Restart
<1>15. ASSUME NEW r \in Runs, Worker(r) PROVE Invariant'
  <2>1. CASE WorkerFails(r)
    <3>1. inbox' \in Seq(ModuleStatuses)
      BY <2>1, PublishKeepsType DEF WorkerFails
    <3> QED BY <2>1, <3>1 DEF WorkerFails, listenerVars
  <2>2. CASE WorkerCompletes(r)
    <3>1. inbox' \in Seq(ModuleStatuses)
      BY <2>2, PublishKeepsType DEF WorkerCompletes
    <3> QED BY <2>2, <3>1 DEF WorkerCompletes, listenerVars
  <2>3. CASE WorkerDies(r)
    <3>1. /\ alive = {r} /\ alive' = {} /\ starting = {}
          /\ process' = process \ {r}
          /\ UNCHANGED <<commands, inbox, listenerVars, starting, completed, late>>
      BY <2>3 DEF WorkerDies
    <3> QED BY <3>1 DEF listenerVars
  <2>4. CASE WorkerEnds(r)
    <3>1. /\ alive = {r} /\ alive' = {} /\ process = {} /\ starting = {}
          /\ UNCHANGED <<commands, inbox, listenerVars, starting, process, completed, late>>
      BY <2>4 DEF WorkerEnds
    <3> QED BY <3>1 DEF listenerVars
  <2>5. CASE WorkerBegins(r)
    BY <2>5 DEF WorkerBegins, listenerVars
  <2> QED BY <1>15, <2>1, <2>2, <2>3, <2>4, <2>5 DEF Worker
<1>16. ASSUME NEW m \in Message, Send(m) PROVE Invariant'
  BY <1>16 DEF Send, listenerVars, threadVars
<1>17. CASE Read
  BY <1>17 DEF Read, listenerVars, threadVars
<1>18. CASE UNCHANGED vars
  BY <1>18 DEF vars, listenerVars, threadVars
<1> QED
  BY <1>1, <1>2, <1>3, <1>4, <1>5, <1>6, <1>7, <1>8, <1>9, <1>10, <1>11, <1>12,
     <1>13, <1>14, <1>15, <1>16, <1>17, <1>18 DEF Next, Listener

\* Invariant holds in every state of every behaviour of the command loop.
THEOREM Safety == Spec => []Invariant
  BY Initialization, Consecution, PTL DEF Spec

\* No module thread is ever out of the listener's reach (slave.py lets go of a
\* module only after join, or after is_alive() returned False).
THEOREM OrphanFreedom == Spec => []NoOrphanThread
<1>1. Invariant => NoOrphanThread
  BY DEF Invariant
<1> QED BY <1>1, Safety, PTL

\* The listener never reports a free module over a working thread.
THEOREM HonestIdle == Spec => []IdleMeansNoThread
<1>1. Invariant => IdleMeansNoThread
  BY DEF Invariant, IdleMeansNoThread
<1> QED BY <1>1, Safety, PTL

\* An error is reported until a START, a STOP, an EXIT or a new process.
THEOREM StickyError == Spec => ErrorIsSticky
<1> DEFINE Cleared ==
             status = "error" /\ status' # "error" =>
                 \/ pc = "loading" /\ cmd.command = "START"
                 \/ pc = "settle" /\ cmd.command \in {"STOP", "EXIT"}
                 \/ Restart
<1>1. Invariant /\ [Next]_vars => [Cleared]_vars
  <2> SUFFICES ASSUME Invariant, Next, status = "error", status' # "error", ~Restart
               PROVE  \/ pc = "loading" /\ cmd.command = "START"
                      \/ pc = "settle" /\ cmd.command \in {"STOP", "EXIT"}
    OBVIOUS
  <2>1. pc = "loop" => module = NoRun
    BY DEF Invariant
  <2>2. /\ pc = "loading" => cmd.command = "START"
        /\ pc = "settle" => cmd.command \in {"STOP", "EXIT"}
        /\ pc # "loaded" /\ pc # "joining"
    BY MessageShape DEF Invariant, TypeOK
  <2>3. pc \in {"loading", "settle"}
    BY <2>1, <2>2 DEF Next, Listener, Worker, listenerVars, threadVars, Tick, Reap, Ignore,
       TakeStart, LoadFails, Load, StartThread, TakeStartAgain, TakeStop, Join, Settle,
       Interrupt, Finally, WorkerBegins, WorkerFails, WorkerCompletes, WorkerDies, WorkerEnds,
       Send, Read, Take, Skim, Done, DropModule
  <2> QED BY <2>2, <2>3
<1> QED
  BY <1>1, Safety, PTL DEF Spec, ErrorIsSticky

-----------------------------------------------------------------------------
\* A step of the listener changes the abstract state as the supervisor may.
LEMMA SupervisorStep ==
    ASSUME Invariant, Invariant', [Next]_vars
    PROVE  [Supervisor!Next]_(Supervisor!supervisorVars)
<1>1. CASE StartThread
  <2>1. alive = {} /\ module \in Runs /\ module' = module /\ alive' # {} /\ status' = "running"
    BY <1>1, MessageShape DEF StartThread, Invariant, TypeOK
  <2>2. Supervisor!Begin(module)
    BY <2>1 DEF Supervisor!Begin
  <2> QED BY <2>1, <2>2 DEF Supervisor!Next
<1>2. CASE ~StartThread
  <2>1. alive' = {} \/ (alive' = alive /\ module' = module) \/ StartThread
    BY <1>2 DEF Invariant, TypeOK, NoOrphanThread, Next, Listener, Worker, vars,
       listenerVars, threadVars, Tick, Reap, Ignore, TakeStart, LoadFails, Load,
       TakeStartAgain, TakeStop, Join, Settle, Interrupt, Finally, Restart,
       WorkerBegins, WorkerFails, WorkerCompletes, WorkerDies, WorkerEnds, Send, Read, Take,
       Skim, Done, DropModule
  <2>2. CASE alive' = {}
    <3>1. CASE status' \in {"idle", "stopped", "error"}
      BY <2>2, <3>1 DEF Supervisor!Next, Supervisor!Claim
    <3>2. CASE status' \notin {"idle", "stopped", "error"} /\ alive # {}
      <4>1. status \notin {"idle", "stopped", "error"}
        BY <3>2 DEF Invariant
      <4> QED BY <2>2, <3>2, <4>1 DEF Supervisor!Next, Supervisor!End
    <3>3. CASE status' \notin {"idle", "stopped", "error"} /\ alive = {}
      BY <2>2, <3>3 DEF Supervisor!Next, Supervisor!Withdraw
    <3> QED BY <3>1, <3>2, <3>3
  <2>3. CASE alive' = alive /\ module' = module /\ alive # {}
    <3>1. status' \notin {"idle", "stopped", "error"}
      BY <2>3 DEF Invariant
    <3> QED BY <2>3, <3>1 DEF Supervisor!Next, Supervisor!Withdraw
  <2> QED BY <1>2, <2>1, <2>2, <2>3
<1> QED BY <1>1, <1>2

\* The command loop implements the one-run-at-a-time supervisor.
THEOREM Refinement == Spec => OneRunAtATime
<1>1. Init => Supervisor!Init
  BY DEF Init, Supervisor!Init
<1>2. Invariant /\ Invariant' /\ [Next]_vars => [Supervisor!Next]_(Supervisor!supervisorVars)
  BY SupervisorStep
<1> QED
  BY <1>1, <1>2, Safety, PTL DEF Spec, OneRunAtATime, Supervisor!Spec

-----------------------------------------------------------------------------
(* The supervisor of a host and the commands, any number of each. *)
USE WorkersAssumption

Places == {"new", "core", "check", "spawn", "await", "signal", "wait", "unlink", "down", "done"}

LocalTypes ==
    /\ Local!LocalWorkersTypes
    /\ processes \in [Local!Supervisors -> SUBSET Modules]
    /\ command \in [Local!Commands -> Places]
    /\ target \in [Local!Commands -> Local!Supervisors \cup {Nobody}]
    /\ overlap \in BOOLEAN /\ stopped \in BOOLEAN
    /\ \A c \in Local!Commands : command[c] \in {"signal", "wait"} => target[c] \in Local!Supervisors
    /\ \A s \in Local!Supervisors : back[s] \notin {"boot", "stuck", "dead"}

\* The first state has the types.
LEMMA LocalTypesStart == Local!Init => LocalTypes
<1> SUFFICES ASSUME Local!Init PROVE LocalTypes
  OBVIOUS
<1>1. Local!LocalWorkersTypes
  BY DEF Local!Init, Local!LocalWorkersTypes, Local!Points
<1>2. command \in [Local!Commands -> Places]
      /\ target \in [Local!Commands -> Local!Supervisors \cup {Nobody}]
  BY DEF Local!Init, Places
<1> QED BY <1>1, <1>2 DEF Local!Init, LocalTypes

\* Every step keeps them.
LEMMA LocalTypesStep == LocalTypes /\ [Local!Next]_(Local!vars) => LocalTypes'
<1> SUFFICES ASSUME LocalTypes, [Local!Next]_(Local!vars) PROVE LocalTypes'
  OBVIOUS
<1> USE DEF LocalTypes, Local!LocalWorkersTypes, Local!processVars, Local!commandVars,
            Local!containerVars
<1>1. CASE UNCHANGED Local!vars
  BY <1>1 DEF Local!vars
<1>2. ASSUME NEW s \in Local!Supervisors, Local!Main(s) PROVE LocalTypes'
  <2>1. CASE Local!Boot(s)
    BY <2>1 DEF Local!Boot, Local!Goes, Local!Points
  <2>2. CASE Local!BootFails(s)
    BY <2>2 DEF Local!BootFails, Local!Dies, Local!Points
  <2>3. CASE Local!Lock(s) \/ Local!Unlock(s) \/ Local!StartFails(s)
    BY <2>3 DEF Local!Lock, Local!Unlock, Local!StartFails, Local!Goes, Local!Points
  <2>4. CASE Local!Bind(s) \/ Local!BindFails(s) \/ Local!Serve(s) \/ Local!Leave(s) \/ Local!Finally(s)
    BY <2>4 DEF Local!Bind, Local!BindFails, Local!Serve, Local!Leave, Local!Finally, Local!Goes,
       Local!Points
  <2>5. CASE Local!Handler(s)
    BY <2>5 DEF Local!Handler, Local!Points
  <2>6. CASE Local!Terminate(s)
    BY <2>6 DEF Local!Terminate, Local!Goes, Local!Points
  <2>7. CASE Local!Ended(s)
    BY <2>7 DEF Local!Ended, Local!Returns, Local!Points
  <2>8. CASE Local!Exit(s)
    BY <2>8 DEF Local!Exit, Local!Dies, Local!Points
  <2>9. ASSUME NEW m \in Modules, Local!StartWorker(s, m) PROVE LocalTypes'
    BY <2>9 DEF Local!StartWorker
  <2> QED BY <1>2, <2>1, <2>2, <2>3, <2>4, <2>5, <2>6, <2>7, <2>8, <2>9 DEF Local!Main
<1>3. ASSUME NEW s \in Local!Supervisors,
             Local!PostShutdown(s) \/ Local!Crash(s) \/ \E m \in Modules : Local!WorkerEnds(s, m)
      PROVE  LocalTypes'
  BY <1>3 DEF Local!PostShutdown, Local!Crash, Local!WorkerEnds, Local!Dies, Local!Points
<1>4. ASSUME NEW c \in Local!Commands, Local!StartInfra(c) \/ Local!ReadPid(c) PROVE LocalTypes'
  <2>1. CASE Local!StartInfra(c)
    BY <2>1 DEF Local!StartInfra, Local!Begins, Local!Turns, Places
  <2>2. CASE Local!ReadPid(c)
    BY <2>2 DEF Local!ReadPid, Local!Begins, Local!Turns, Places
  <2> QED BY <1>4, <2>1, <2>2
<1>5. ASSUME NEW c \in Local!Commands, Local!Continue(c) PROVE LocalTypes'
  <2>1. CASE Local!StartCore(c) \/ Local!CheckPid(c) \/ Local!Await(c)
    BY <2>1 DEF Local!StartCore, Local!CheckPid, Local!Await, Local!Turns, Places
  <2>2. ASSUME NEW s \in Local!Supervisors, Local!Spawn(c, s) PROVE LocalTypes'
    BY <2>2 DEF Local!Spawn, Local!Turns, Places, Local!Points
  <2>3. CASE Local!Signal(c)
    BY <2>3 DEF Local!Signal, Local!Turns, Places
  <2>4. CASE Local!WaitOver(c)
    BY <2>4 DEF Local!WaitOver, Local!Turns, Local!Dies, Places, Local!Points
  <2>5. CASE Local!Unlink(c) \/ Local!Down(c)
    BY <2>5 DEF Local!Unlink, Local!Down, Local!Turns, Places
  <2> QED BY <1>5, <2>1, <2>2, <2>3, <2>4, <2>5 DEF Local!Continue
<1> QED BY <1>1, <1>2, <1>3, <1>4, <1>5 DEF Local!Next

-----------------------------------------------------------------------------
(* A supervisor leaves when it has stopped all it had started. *)
EmptyHanded ==
    \A s \in Local!Supervisors :
        /\ workers[s] \subseteq processes[s]
        /\ at[s] \in {"none", "boot", "leaving"} => processes[s] = {}
        /\ at[s] = "dead" /\ workers[s] # {} => s \in killed

\* Every step keeps the hands of those at the end empty.
LEMMA EmptyHandedStep == LocalTypes /\ EmptyHanded /\ [Local!Next]_(Local!vars) => EmptyHanded'
<1> SUFFICES ASSUME LocalTypes, EmptyHanded, [Local!Next]_(Local!vars) PROVE EmptyHanded'
  OBVIOUS
<1> USE DEF LocalTypes, Local!LocalWorkersTypes, EmptyHanded, Local!processVars, Local!commandVars
<1>1. CASE UNCHANGED Local!vars
  BY <1>1 DEF Local!vars
<1>2. ASSUME NEW s \in Local!Supervisors, Local!Main(s) PROVE EmptyHanded'
  <2>1. CASE Local!Boot(s) \/ Local!Lock(s) \/ Local!Unlock(s) \/ Local!StartFails(s)
    BY <2>1 DEF Local!Boot, Local!Lock, Local!Unlock, Local!StartFails, Local!Goes
  <2>2. CASE Local!BootFails(s) \/ Local!Exit(s)
    BY <2>2 DEF Local!BootFails, Local!Exit, Local!Dies
  <2>3. CASE Local!Bind(s) \/ Local!BindFails(s) \/ Local!Serve(s) \/ Local!Leave(s) \/ Local!Finally(s)
    BY <2>3 DEF Local!Bind, Local!BindFails, Local!Serve, Local!Leave, Local!Finally, Local!Goes
  <2>4. CASE Local!Handler(s)
    BY <2>4 DEF Local!Handler
  <2>5. CASE Local!Terminate(s)
    BY <2>5 DEF Local!Terminate, Local!Goes
  <2>6. CASE Local!Ended(s)
    BY <2>6 DEF Local!Ended, Local!Returns
  <2>7. ASSUME NEW m \in Modules, Local!StartWorker(s, m) PROVE EmptyHanded'
    BY <2>7 DEF Local!StartWorker
  <2> QED BY <1>2, <2>1, <2>2, <2>3, <2>4, <2>5, <2>6, <2>7 DEF Local!Main
<1>3. ASSUME NEW s \in Local!Supervisors,
             Local!PostShutdown(s) \/ Local!Crash(s) \/ \E m \in Modules : Local!WorkerEnds(s, m)
      PROVE  EmptyHanded'
  BY <1>3 DEF Local!PostShutdown, Local!Crash, Local!WorkerEnds, Local!Dies
<1>4. ASSUME NEW c \in Local!Commands, Local!StartInfra(c) \/ Local!ReadPid(c) PROVE EmptyHanded'
  BY <1>4 DEF Local!StartInfra, Local!ReadPid
<1>5. ASSUME NEW c \in Local!Commands, Local!Continue(c) PROVE EmptyHanded'
  <2>1. CASE Local!StartCore(c) \/ Local!CheckPid(c) \/ Local!Await(c) \/ Local!Signal(c)
             \/ Local!Unlink(c) \/ Local!Down(c)
    BY <2>1 DEF Local!StartCore, Local!CheckPid, Local!Await, Local!Signal, Local!Unlink, Local!Down
  <2>2. ASSUME NEW s \in Local!Supervisors, Local!Spawn(c, s) PROVE EmptyHanded'
    <3>1. at[s] = "none"
      BY <2>2 DEF Local!Spawn, Local!Supervisors
    <3> QED BY <2>2, <3>1 DEF Local!Spawn
  <2>3. CASE Local!WaitOver(c)
    <3>1. CASE Local!Alive(target[c])
      BY <2>3, <3>1 DEF Local!WaitOver, Local!Turns, Local!Dies
    <3>2. CASE ~Local!Alive(target[c])
      BY <2>3, <3>2 DEF Local!WaitOver
    <3> QED BY <3>1, <3>2
  <2> QED BY <1>5, <2>1, <2>2, <2>3 DEF Local!Continue
<1> QED BY <1>1, <1>2, <1>3, <1>4, <1>5 DEF Local!Next

-----------------------------------------------------------------------------
(* While commands have not overlapped: one of them runs at a time (OneCommand), one   *)
(* supervisor lives, and the file names it once it has booted (OnFile, BootsAlone); a *)
(* command knows the only one that can live (KnowsIt).                                *)
Busy(c) == command[c] \notin {"new", "done"}
NobodyLives == \A s \in Local!Supervisors : ~Local!Alive(s)

OneCommand == \A c, d \in Local!Commands : Busy(c) /\ Busy(d) => c = d
OnFile == \A s \in Local!Supervisors : Local!Alive(s) /\ at[s] # "boot" => pidFile = s
BootsAlone ==
    \A s \in Local!Supervisors : at[s] = "boot" =>
        /\ \A o \in Local!Supervisors : Local!Alive(o) => o = s
        /\ \A c \in Local!Commands : Busy(c) => command[c] = "await"
KnowsIt ==
    \A c \in Local!Commands :
        /\ command[c] \in {"spawn", "unlink", "down"} => NobodyLives
        /\ command[c] \in {"signal", "wait"} =>
               \A s \in Local!Supervisors : Local!Alive(s) => s = target[c]
AllDown ==
    stopped => ~infra /\ ~core /\ NobodyLives /\ \A c \in Local!Commands : ~Busy(c)

Orderly == OneCommand /\ OnFile /\ BootsAlone /\ KnowsIt /\ AllDown

\* While commands do not overlap, every step keeps their order.
LEMMA OrderlyStep ==
    LocalTypes /\ (~overlap => Orderly) /\ [Local!Next]_(Local!vars) => (~overlap' => Orderly')
<1> SUFFICES ASSUME LocalTypes, ~overlap => Orderly, [Local!Next]_(Local!vars), ~overlap' PROVE Orderly'
  OBVIOUS
<1> USE DEF LocalTypes, Local!LocalWorkersTypes, Local!Alive, Busy, NobodyLives
<1>0. ~overlap /\ Orderly
  BY DEF Local!Next, Local!vars, Local!processVars, Local!commandVars, Local!Main, Local!Continue,
         Local!PostShutdown, Local!Crash, Local!WorkerEnds,
         Local!StartInfra, Local!ReadPid, Local!Begins, Local!Boot, Local!BootFails, Local!Lock,
         Local!Unlock, Local!StartFails, Local!Bind, Local!BindFails,
         Local!Serve, Local!Leave, Local!Finally, Local!Handler, Local!Terminate, Local!Ended,
         Local!Exit, Local!StartWorker, Local!StartCore, Local!CheckPid,
         Local!Await, Local!Spawn, Local!Signal, Local!WaitOver, Local!Unlink, Local!Down
<1> USE <1>0 DEF Orderly, OneCommand, OnFile, BootsAlone, KnowsIt, AllDown, Local!processVars,
        Local!commandVars,
         Local!containerVars
<1>1. CASE UNCHANGED Local!vars
  BY <1>1 DEF Local!vars
<1>2. ASSUME NEW s \in Local!Supervisors, Local!Main(s) PROVE Orderly'
  <2>1. CASE Local!Boot(s)
    BY <2>1 DEF Local!Boot, Local!Goes
  <2>2. CASE Local!BootFails(s)
    BY <2>2 DEF Local!BootFails, Local!Dies
  <2>3. CASE Local!Exit(s)
    BY <2>3 DEF Local!Exit, Local!Dies
  <2>4. CASE Local!Lock(s) \/ Local!Unlock(s) \/ Local!StartFails(s)
    BY <2>4 DEF Local!Lock, Local!Unlock, Local!StartFails, Local!Goes
  <2>5. CASE Local!Bind(s) \/ Local!BindFails(s) \/ Local!Serve(s) \/ Local!Leave(s) \/ Local!Finally(s)
    BY <2>5 DEF Local!Bind, Local!BindFails, Local!Serve, Local!Leave, Local!Finally, Local!Goes
  <2>6. CASE Local!Handler(s)
    BY <2>6 DEF Local!Handler, Local!Points
  <2>7. CASE Local!Terminate(s)
    BY <2>7 DEF Local!Terminate, Local!Goes
  <2>8. CASE Local!Ended(s)
    BY <2>8 DEF Local!Ended, Local!Returns
  <2>9. ASSUME NEW m \in Modules, Local!StartWorker(s, m) PROVE Orderly'
    BY <2>9 DEF Local!StartWorker
  <2> QED BY <1>2, <2>1, <2>2, <2>3, <2>4, <2>5, <2>6, <2>7, <2>8, <2>9 DEF Local!Main
<1>3. ASSUME NEW s \in Local!Supervisors,
             Local!PostShutdown(s) \/ Local!Crash(s) \/ \E m \in Modules : Local!WorkerEnds(s, m)
      PROVE  Orderly'
  BY <1>3 DEF Local!PostShutdown, Local!Crash, Local!WorkerEnds, Local!Dies
<1>4. ASSUME NEW c \in Local!Commands, Local!StartInfra(c) \/ Local!ReadPid(c) PROVE Orderly'
  <2>1. /\ \A d \in Local!Commands : ~Busy(d)
        /\ \A s \in Local!Supervisors : at[s] # "boot"
        /\ command[c] = "new" /\ stopped' = FALSE
    BY <1>4 DEF Local!StartInfra, Local!ReadPid, Local!Begins, Local!Turns
  <2>2. CASE Local!StartInfra(c)
    <3>1. command' \in {[command EXCEPT ![c] = "core"], [command EXCEPT ![c] = "done"]}
      BY <2>2 DEF Local!StartInfra, Local!Turns
    <3>2. UNCHANGED <<at, pidFile, target>>
      BY <2>2 DEF Local!StartInfra
    <3> QED BY <2>1, <3>1, <3>2
  <2>3. CASE Local!ReadPid(c)
    <3>1. /\ command' = [command EXCEPT ![c] = IF pidFile = Nobody THEN "down" ELSE "signal"]
          /\ target' = [target EXCEPT ![c] = pidFile]
          /\ UNCHANGED <<at, pidFile>>
      BY <2>3 DEF Local!ReadPid, Local!Turns
    <3>2. OneCommand' /\ OnFile' /\ BootsAlone' /\ AllDown'
      BY <2>1, <3>1
    <3>3. pidFile = Nobody => NobodyLives
      BY <2>1
    <3>4. KnowsIt'
      BY <2>1, <3>1, <3>3
    <3> QED BY <3>2, <3>4
  <2> QED BY <1>4, <2>2, <2>3
<1>5. ASSUME NEW c \in Local!Commands, Local!Continue(c) PROVE Orderly'
  <2>1. CASE Local!StartCore(c) \/ Local!Await(c)
    BY <2>1 DEF Local!StartCore, Local!Await, Local!Turns
  <2>2. CASE Local!CheckPid(c)
    BY <2>2 DEF Local!CheckPid, Local!Turns
  <2>3. ASSUME NEW s \in Local!Supervisors, Local!Spawn(c, s) PROVE Orderly'
    BY <2>3 DEF Local!Spawn, Local!Turns
  <2>4. CASE Local!Signal(c)
    BY <2>4 DEF Local!Signal, Local!Turns
  <2>5. CASE Local!WaitOver(c)
    BY <2>5 DEF Local!WaitOver, Local!Turns, Local!Dies
  <2>6. CASE Local!Unlink(c)
    BY <2>6 DEF Local!Unlink, Local!Turns
  <2>7. CASE Local!Down(c)
    BY <2>7 DEF Local!Down, Local!Turns
  <2> QED BY <1>5, <2>1, <2>2, <2>3, <2>4, <2>5, <2>6, <2>7 DEF Local!Continue
<1> QED BY <1>1, <1>2, <1>3, <1>4, <1>5 DEF Local!Next

-----------------------------------------------------------------------------
LocalInvariant == LocalTypes /\ EmptyHanded /\ (~overlap => Orderly)

\* So all of this always holds.
LEMMA LocalSafety == Local!Spec => []LocalInvariant
<1>1. Local!Init => LocalInvariant
  <2> SUFFICES ASSUME Local!Init PROVE LocalInvariant
    OBVIOUS
  <2>1. EmptyHanded
    BY DEF Local!Init, EmptyHanded
  <2>2. Orderly
    BY DEF Local!Init, Orderly, OneCommand, OnFile, BootsAlone, KnowsIt, AllDown, Busy, Local!Alive,
           NobodyLives
  <2> QED BY <2>1, <2>2, LocalTypesStart DEF LocalInvariant
<1>2. LocalInvariant /\ [Local!Next]_(Local!vars) => LocalInvariant'
  BY LocalTypesStep, EmptyHandedStep, OrderlyStep DEF LocalInvariant
<1> QED BY <1>1, <1>2, PTL DEF Local!Spec

\* A supervisor that came to its end by itself took its workers with it, and nothing is up
\* after a `stop` that had the field to itself: for any number of commands and supervisors.
THEOREM NobodyLeftBehind == Local!Spec => []NothingLeftBehind
<1>1. LocalInvariant => NothingLeftBehind
  BY DEF LocalInvariant, LocalTypes, EmptyHanded, Orderly, AllDown, NobodyLives, NothingLeftBehind,
         Local!NothingLeftBehind,
         Local!TakesItsWorkers, Local!StopLeavesNothing
<1> QED BY <1>1, LocalSafety, PTL

\* Unless commands overlapped, who serves is named by the pid file.
THEOREM FileNamesServer == Local!Spec => []ServerIsOnFile
<1>1. LocalInvariant => ServerIsOnFile
  BY DEF LocalInvariant, Orderly, OnFile, ServerIsOnFile, Local!ServerIsOnFile, Local!Alive
<1> QED BY <1>1, LocalSafety, PTL

-----------------------------------------------------------------------------
(***************************************************************************)
(* So each of the two specifications that the runs check has the safety    *)
(* of its parts: what one part does leaves the others as they are.         *)
(***************************************************************************)
THEOREM WorkersSafety ==
    /\ ListenerSpec => []NoOrphanThread /\ OneRunAtATime
    /\ LocalSpec => []NothingLeftBehind /\ []ServerIsOnFile
<1>1. ListenerSpec => Spec
  <2>1. ListenerInit => Init
    BY DEF ListenerInit
  <2>2. [ListenerNext]_workersVars => [Next]_vars
    BY DEF ListenerNext, ListenerPart, LivePart, workersVars
  <2> QED BY <2>1, <2>2, PTL DEF ListenerSpec, Spec
<1>2. LocalSpec => Local!Spec
  <2>1. LocalInit => Local!Init
    BY DEF LocalInit
  <2>2. [LocalPart]_workersVars => [Local!Next]_(Local!vars)
    BY DEF LocalPart, workersVars, localVars, Local!vars, Local!processVars, Local!commandVars
  <2> QED BY <2>1, <2>2, PTL DEF LocalSpec, Local!Spec
<1>3. ListenerSpec => []NoOrphanThread /\ OneRunAtATime
  BY <1>1, OrphanFreedom, Refinement, PTL
<1>4. LocalSpec => []NothingLeftBehind /\ []ServerIsOnFile
  BY <1>2, NobodyLeftBehind, FileNamesServer, PTL
<1> QED BY <1>3, <1>4
=============================================================================
