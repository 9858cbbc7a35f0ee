-------------------------- MODULE RunControlProofs --------------------------
(***************************************************************************)
(* No unrecorded run executes, for any number of handlers, runs, requests  *)
(* and restarts, unless a publish failed.  The invariant follows the       *)
(* number of a run from its row to the module thread: through the handler  *)
(* that starts it, the run_id that a restart reads, the command queue and  *)
(* the listener.                                                           *)
(***************************************************************************)
EXTENDS RunControl, WellFoundedInduction, TLAPS

Fields == {"op", "held", "row", "next", "reset", "run", "again"}
Ops == {"poll", "start", "stop", "unmount", "restart"}

\* What a handler carries is on record.
Known(h) ==
    /\ loc[h] = [f \in Fields |-> loc[h][f]] /\ loc[h].op \in Ops
    /\ step[h] # "undo"
    /\ step[h] = "attach" => loc[h].row \in rows
    /\ step[h] \in {"set", "publish", "restartStop", "restartStart"} => loc[h].run \in rows
HandlersKnow ==
    /\ step = [h \in Handlers |-> step[h]] /\ loc = [h \in Handlers |-> loc[h]]
    /\ \A h \in Handlers : Known(h)

\* So is what the worker was sent, holds and executes.
Good == {m \in Listener!Message : m.command = "START" => m.run \in rows}
WorkerKnows ==
    /\ commands \in Seq(Good) /\ cmd \in Good
    /\ lpc = "loading" => cmd.command = "START"
    /\ lpc = "loaded" => module \in rows
    /\ alive \subseteq rows

Recorded ==
    rows \subseteq Runs /\ runId \in rows \cup {NoRun} /\ HandlersKnow /\ WorkerKnows
Invariant == faults \in Nat /\ lastRun \in Nat /\ (faults = 0 => Recorded)

-----------------------------------------------------------------------------
\* The newest of some rows is one of them.
LEMMA Newest ==
    ASSUME NEW n \in Nat, NEW S \in SUBSET (1..n), S # {}
    PROVE  Max(S) \in S
<1> DEFINE R == OpToRel(<, Nat)
<1>1. \A x, y \in Nat : <<x, y>> \in R <=> x < y
  BY DEF OpToRel
<1>2. IsWellFoundedOn(R, Nat)
  BY NatLessThanWellFounded
<1> HIDE DEF R
<1> DEFINE Rest == {n - x : x \in S}
<1>3. Rest \subseteq Nat /\ Rest # {}
  <2>1. \A x \in S : n - x \in Nat
    OBVIOUS
  <2> QED BY <2>1
<1>4. PICK r \in Rest : \A y \in Rest : ~ (<<y, r>> \in R)
  <2> HIDE DEF Rest
  <2> QED BY <1>2, <1>3, WFMin
<1>5. PICK x \in S : r = n - x
  OBVIOUS
<1>6. \A y \in S : x >= y
  <2> SUFFICES ASSUME NEW y \in S PROVE x >= y
    OBVIOUS
  <2>0. x \in Int /\ y \in Int
    OBVIOUS
  <2>1. n - y \in Rest /\ n - y \in Nat /\ r \in Nat
    BY <1>3
  <2>2. ~(n - y < r)
    BY <1>1, <1>4, <2>1
  <2> HIDE DEF Rest
  <2> QED BY <1>5, <2>0, <2>2
<1> QED BY <1>6 DEF Max

\* A step of one handler, which takes no row away, concerns no other handler.
LEMMA OneHandler ==
    ASSUME HandlersKnow, NEW h \in Handlers, NEW s, NEW l,
           rows \subseteq rows',
           step' = [step EXCEPT ![h] = s], loc' = [loc EXCEPT ![h] = l],
           l = [f \in Fields |-> l[f]], l.op \in Ops, s # "undo",
           s = "attach" => l.row \in rows',
           s \in {"set", "publish", "restartStop", "restartStart"} => l.run \in rows'
    PROVE  HandlersKnow'
<1>1. /\ step'[h] = s /\ loc'[h] = l
      /\ step' = [g \in Handlers |-> step'[g]] /\ loc' = [g \in Handlers |-> loc'[g]]
      /\ \A g \in Handlers \ {h} : step'[g] = step[g] /\ loc'[g] = loc[g]
  BY DEF HandlersKnow
<1>2. Known(h)'
  BY <1>1 DEF Known
<1>3. ASSUME NEW g \in Handlers, g # h PROVE Known(g)'
  <2>1. Known(g) /\ step'[g] = step[g] /\ loc'[g] = loc[g]
    BY <1>1, <1>3 DEF HandlersKnow
  <2> QED BY <2>1 DEF Known
<1> QED BY <1>1, <1>2, <1>3 DEF HandlersKnow

\* The same when the handler's variables stay.
LEMMA OneHandlerGoes ==
    ASSUME HandlersKnow, NEW h \in Handlers, NEW s,
           rows \subseteq rows', Go(h, s), UNCHANGED loc,
           s \notin {"undo", "attach"},
           s \in {"set", "publish", "restartStop", "restartStart"} => loc[h].run \in rows'
    PROVE  HandlersKnow'
<1>1. /\ loc' = [loc EXCEPT ![h] = loc[h]] /\ step' = [step EXCEPT ![h] = s]
      /\ loc[h] = [f \in Fields |-> loc[h][f]] /\ loc[h].op \in Ops
  BY DEF HandlersKnow, Known, Go
<1> QED BY <1>1, OneHandler

\* A request is answered.
LEMMA OneHandlerReturns ==
    ASSUME HandlersKnow, NEW h \in Handlers, rows \subseteq rows', Return(h)
    PROVE  HandlersKnow'
<1>1. /\ FreshLocal = [f \in Fields |-> FreshLocal[f]] /\ FreshLocal.op \in Ops
      /\ loc' = [loc EXCEPT ![h] = FreshLocal] /\ step' = [step EXCEPT ![h] = "ready"]
  BY DEF FreshLocal, Fields, Ops, Return, Go
<1> QED BY <1>1, OneHandler

\* Nobody moves.
LEMMA NoHandler ==
    ASSUME HandlersKnow, UNCHANGED <<step, loc, rows>>
    PROVE  HandlersKnow'
BY DEF HandlersKnow, Known

\* The worker keeps what it knows when rows are added.
LEMMA WorkerStays ==
    ASSUME WorkerKnows, rows \subseteq rows', UNCHANGED <<commands, cmd, lpc, module, alive>>
    PROVE  WorkerKnows'
<1>1. Good \subseteq Good'
  BY DEF Good
<1>2. Seq(Good) \subseteq Seq(Good')
  BY <1>1
<1> QED BY <1>1, <1>2 DEF WorkerKnows

\* A command of a known run is sent, once or twice.
LEMMA WorkerIsSent ==
    ASSUME WorkerKnows, UNCHANGED <<rows, cmd, lpc, module, alive>>, NEW m \in Good,
           commands' \in {commands, Append(commands, m), commands \o <<m, m>>}
    PROVE  WorkerKnows'
<1>1. commands' \in Seq(Good)
  <2>1. commands \in Seq(Good)
    BY DEF WorkerKnows
  <2> HIDE DEF Good
  <2>2. Append(commands, m) \in Seq(Good) /\ <<m, m>> \in Seq(Good)
    BY <2>1
  <2>3. commands \o <<m, m>> \in Seq(Good)
    BY <2>1, <2>2
  <2> QED BY <2>1, <2>2, <2>3
<1>2. Good' = Good
  BY DEF Good
<1> QED BY <1>1, <1>2 DEF WorkerKnows

-----------------------------------------------------------------------------
\* The messages are good ones.
LEMMA StartIsGood == \A run \in rows : rows \subseteq Runs => StartMessage(run) \in Good
BY DEF StartMessage, Good, Listener!Message

\* So is that of a stop.
LEMMA StopIsGood == StopMessage \in Good
BY DEF StopMessage, Good, Listener!Message

\* A request arrives.
LEMMA ArriveKeeps ==
    ASSUME Recorded, NEW h \in Handlers, Arrive(h)
    PROVE  Recorded' /\ faults' = faults
<1> USE DEF Recorded
<1>1. ASSUME NEW op \in {"poll", "start", "stop", "unmount"}, Drain(h, op)
      PROVE  Recorded' /\ faults' = faults
  <2>1. UNCHANGED <<rows, runId, commands, workerVars, faults>> /\ Go(h, "check")
    BY <1>1 DEF Drain
  <2>2. PICK x : loc' = [loc EXCEPT ![h].op = op, ![h].held = x]
    BY <1>1 DEF Drain
  <2> DEFINE l == [loc[h] EXCEPT !.op = op, !.held = x]
  <2>3. loc[h] = [f \in Fields |-> loc[h][f]]
    BY DEF HandlersKnow, Known
  <2>4. l = [f \in Fields |-> l[f]] /\ l.op \in Ops /\ loc' = [loc EXCEPT ![h] = l]
    BY <2>2, <2>3 DEF Fields, Ops
  <2> HIDE DEF l
  <2>5. HandlersKnow'
    BY <2>1, <2>4, OneHandler DEF Go
  <2> QED BY <2>1, <2>5, WorkerStays DEF workerVars
<1>2. CASE Restart(h)
  <2>1. /\ UNCHANGED <<rows, runId, commands, workerVars, faults>> /\ runId \in rows
        /\ step' = [step EXCEPT ![h] = "restartStop"]
        /\ loc' = [loc EXCEPT ![h].op = "restart", ![h].run = runId]
    BY <1>2 DEF Restart, Go, sharedVars
  <2> DEFINE l == [loc[h] EXCEPT !.op = "restart", !.run = runId]
  <2>2. loc[h] = [f \in Fields |-> loc[h][f]]
    BY DEF HandlersKnow, Known
  <2>3. l = [f \in Fields |-> l[f]] /\ l.op \in Ops /\ l.run = runId /\ loc' = [loc EXCEPT ![h] = l]
    BY <2>1, <2>2 DEF Fields, Ops
  <2> HIDE DEF l
  <2>4. HandlersKnow'
    BY <2>1, <2>3, OneHandler
  <2> QED BY <2>1, <2>4, WorkerStays DEF workerVars
<1>3. Operations \subseteq {"start", "stop", "unmount"}
  BY RunControlAssumption
<1> QED BY <1>1, <1>2, <1>3 DEF Arrive, Poll, Request

\* The refresh of the runtime status; a run_id that is found again is that of a row.
LEMMA RefreshKeeps ==
    ASSUME Recorded, NEW h \in Handlers, Refresh(h)
    PROVE  Recorded' /\ faults' = faults
<1> USE DEF Recorded
<1>1. loc[h] = [f \in Fields |-> loc[h][f]] /\ loc[h].op \in Ops /\ Known(h)
      /\ loc = [g \in Handlers |-> loc[g]]
  BY DEF HandlersKnow, Known
<1>2. UNCHANGED <<rows, commands, workerVars, faults>>
  BY DEF Refresh, Check, Attach, Derive, ReconcileAgain, Write, sharedVars, boundVars
<1>3. WorkerKnows'
  BY <1>2, WorkerStays DEF workerVars
<1>4. rows # {} => NewestRow \in rows
  BY RunControlAssumption, Newest DEF NewestRow, Runs
<1>5. CASE Check(h)
  <2>1. runId' = runId
    BY <1>5 DEF Check
  <2>2. CASE /\ Go(h, "attach") /\ rows # {}
             /\ loc' = [loc EXCEPT ![h].held = NoMessage, ![h].row = NewestRow]
    <3> DEFINE l == [loc[h] EXCEPT !.held = NoMessage, !.row = NewestRow]
    <3>1. /\ l = [f \in Fields |-> l[f]] /\ l.op \in Ops /\ l.row = NewestRow
          /\ loc' = [loc EXCEPT ![h] = l]
      BY <1>1, <2>2 DEF Fields
    <3> HIDE DEF l
    <3> QED BY <1>2, <1>3, <1>4, <2>1, <2>2, <3>1, OneHandler DEF Go
  <2>3. CASE Go(h, "derive") /\ loc' = [loc EXCEPT ![h].held = NoMessage]
    <3> DEFINE l == [loc[h] EXCEPT !.held = NoMessage]
    <3>1. l = [f \in Fields |-> l[f]] /\ l.op \in Ops /\ loc' = [loc EXCEPT ![h] = l]
      BY <1>1, <2>3 DEF Fields
    <3> HIDE DEF l
    <3> QED BY <1>2, <1>3, <2>1, <2>3, <3>1, OneHandler DEF Go
  <2> QED BY <1>5, <2>2, <2>3 DEF Check, Reconcile
<1>6. CASE Attach(h)
  <2>1. runId' \in rows /\ Go(h, "derive") /\ loc' = [loc EXCEPT ![h].row = NoRun]
    BY <1>1, <1>6 DEF Attach, At, Known
  <2> DEFINE l == [loc[h] EXCEPT !.row = NoRun]
  <2>2. l = [f \in Fields |-> l[f]] /\ l.op \in Ops /\ loc' = [loc EXCEPT ![h] = l]
    BY <1>1, <2>1 DEF Fields
  <2> HIDE DEF l
  <2> QED BY <1>2, <1>3, <2>1, <2>2, OneHandler DEF Go
<1>7. CASE Derive(h)
  <2>1. PICK x, y : loc' = [loc EXCEPT ![h].next = x, ![h].reset = y, ![h].again = FALSE]
    BY <1>7 DEF Derive
  <2>2. runId' = runId /\ Go(h, "write")
    BY <1>7 DEF Derive, sharedVars
  <2> DEFINE l == [loc[h] EXCEPT !.next = x, !.reset = y, !.again = FALSE]
  <2>3. l = [f \in Fields |-> l[f]] /\ l.op \in Ops /\ loc' = [loc EXCEPT ![h] = l]
    BY <1>1, <2>1 DEF Fields
  <2> HIDE DEF l
  <2> QED BY <1>2, <1>3, <2>2, <2>3, OneHandler DEF Go
<1>8. CASE ReconcileAgain(h)
  <2>1. /\ runId' = runId /\ Go(h, "attach") /\ rows # {}
        /\ loc' = [loc EXCEPT ![h].row = NewestRow, ![h].again = TRUE]
    BY <1>8 DEF ReconcileAgain, sharedVars
  <2> DEFINE l == [loc[h] EXCEPT !.row = NewestRow, !.again = TRUE]
  <2>2. /\ l = [f \in Fields |-> l[f]] /\ l.op \in Ops /\ l.row = NewestRow
        /\ loc' = [loc EXCEPT ![h] = l]
    BY <1>1, <2>1 DEF Fields
  <2> HIDE DEF l
  <2> QED BY <1>2, <1>3, <1>4, <2>1, <2>2, OneHandler DEF Go
<1>9. CASE Write(h)
  <2>1. /\ runId' \in {runId, NoRun} /\ Go(h, loc[h].op)
        /\ loc' = [loc EXCEPT ![h].reset = FALSE]
    BY <1>9 DEF Write
  <2> DEFINE l == [loc[h] EXCEPT !.reset = FALSE]
  <2>2. l = [f \in Fields |-> l[f]] /\ l.op \in Ops /\ loc' = [loc EXCEPT ![h] = l]
    BY <1>1, <2>1 DEF Fields
  <2>3. loc[h].op \notin {"undo", "attach", "set", "publish", "restartStop", "restartStart"}
    BY <1>1 DEF Ops
  <2> HIDE DEF l
  <2> QED BY <1>2, <1>3, <2>1, <2>2, <2>3, OneHandler DEF Go
<1> QED BY <1>5, <1>6, <1>7, <1>8, <1>9 DEF Refresh

\* The rest of a handler, unless a publish fails: a row is committed before its run is
\* set and its START sent, and none is taken back.
LEMMA HandleKeeps ==
    ASSUME faults = 0, faults' = 0, lastRun \in Nat, Recorded, NEW h \in Handlers, Handle(h)
    PROVE  Recorded'
<1> USE DEF Recorded
<1>1. loc[h] = [f \in Fields |-> loc[h][f]] /\ loc[h].op \in Ops /\ Known(h)
      /\ loc = [g \in Handlers |-> loc[g]]
  BY DEF HandlersKnow, Known
<1>2. CASE Refresh(h)
  BY <1>2, RefreshKeeps
<1>3. CASE PollAgain(h) \/ ClearRun(h) \/ Rollback(h)
  <2>1. UNCHANGED <<rows, commands, workerVars>> /\ runId' \in {runId, NoRun} /\ Return(h)
    BY <1>3 DEF PollAgain, ClearRun, Rollback
  <2> QED BY <2>1, OneHandlerReturns, WorkerStays DEF workerVars
<1>4. CASE Start(h)
  <2>1. UNCHANGED <<runId, commands, workerVars>>
    BY <1>4 DEF Start, sharedVars
  <2>2. CASE Return(h) /\ UNCHANGED rows
    BY <2>1, <2>2, OneHandlerReturns, WorkerStays DEF workerVars
  <2>3. CASE /\ lastRun < MaxRuns /\ lastRun' = lastRun + 1
             /\ rows' = rows \cup {lastRun'} /\ Go(h, "set")
             /\ loc' = [loc EXCEPT ![h].run = lastRun']
    <3> DEFINE l == [loc[h] EXCEPT !.run = lastRun']
    <3>1. /\ l = [f \in Fields |-> l[f]] /\ l.op \in Ops /\ l.run = lastRun'
          /\ loc' = [loc EXCEPT ![h] = l]
      BY <1>1, <2>3 DEF Fields
    <3> HIDE DEF l
    <3>2. HandlersKnow'
      BY <2>3, <3>1, OneHandler DEF Go
    <3>3. rows' \subseteq Runs
      <4>1. MaxRuns \in Nat /\ lastRun' \in 1..MaxRuns
        BY <2>3, RunControlAssumption
      <4> QED BY <2>3, <4>1 DEF Runs
    <3> QED BY <2>1, <2>3, <3>2, <3>3, WorkerStays DEF workerVars
  <2> QED BY <1>4, <2>2, <2>3 DEF Start
<1>5. CASE SetRun(h)
  <2>1. /\ UNCHANGED <<rows, loc, commands, workerVars>> /\ runId' = loc[h].run /\ Go(h, "publish")
        /\ loc[h].run \in rows
    BY <1>1, <1>5 DEF SetRun, At, Known
  <2> QED BY <2>1, OneHandlerGoes, WorkerStays DEF workerVars
<1>6. CASE PublishStart(h)
  <2>1. StartMessage(loc[h].run) \in Good
    BY <1>1, <1>6, StartIsGood DEF PublishStart, At, Known
  <2>2. UNCHANGED <<rows, runId, workerVars>>
    BY <1>6 DEF PublishStart, sharedVars
  <2>3. commands' = Append(commands, StartMessage(loc[h].run)) /\ Return(h)
    BY <1>6 DEF PublishStart, Sends, Raises
  <2> QED BY <2>1, <2>2, <2>3, OneHandlerReturns, WorkerIsSent DEF workerVars
<1>7. CASE UndoRow(h)
  BY <1>1, <1>7 DEF UndoRow, At, Known
<1>8. CASE Stop(h)
  <2>1. UNCHANGED <<rows, runId, commands, workerVars>>
    BY <1>8 DEF Stop
  <2>2. Return(h) \/ (Go(h, "publishStop") /\ UNCHANGED loc)
    BY <1>8 DEF Stop
  <2> QED BY <2>1, <2>2, OneHandlerReturns, OneHandlerGoes, WorkerStays DEF workerVars
<1>9. CASE PublishStop(h)
  <2>1. /\ UNCHANGED <<rows, runId, workerVars>> /\ Return(h)
        /\ commands' = Append(commands, StopMessage)
    BY <1>9 DEF PublishStop, Sends, Raises, sharedVars
  <2> QED BY <2>1, OneHandlerReturns, WorkerIsSent, StopIsGood DEF workerVars
<1>10. CASE RestartStop(h)
  <2>1. /\ UNCHANGED <<rows, runId, loc, workerVars>> /\ Go(h, "restartStart")
        /\ commands' = Append(commands, StopMessage) /\ loc[h].run \in rows
    BY <1>1, <1>10 DEF RestartStop, Sends, Raises, sharedVars, At, Known
  <2> QED BY <2>1, OneHandlerGoes, WorkerIsSent, StopIsGood DEF workerVars
<1>11. CASE RestartStart(h)
  <2>1. /\ UNCHANGED <<rows, runId, workerVars>> /\ Return(h) /\ loc[h].run \in rows
        /\ commands' = Append(commands, StartMessage(loc[h].run))
    BY <1>1, <1>11 DEF RestartStart, Sends, Raises, sharedVars, At, Known
  <2> QED BY <2>1, StartIsGood, OneHandlerReturns, WorkerIsSent DEF workerVars
<1> QED BY <1>2, <1>3, <1>4, <1>5, <1>6, <1>7, <1>8, <1>9, <1>10, <1>11 DEF Handle

-----------------------------------------------------------------------------
\* A command that was taken is a good one, and so are those that are left.
LEMMA TakenIsGood ==
    ASSUME commands \in Seq(Good), commands # <<>>
    PROVE  Head(commands) \in Good /\ Tail(commands) \in Seq(Good)
<1> HIDE DEF Good
<1> QED OBVIOUS

\* A step of the listener or of a module thread loads only what a START carried, and
\* starts only what was loaded.
LEMMA WorkerKeeps ==
    ASSUME WorkerKnows, WorkerSteps, rows' = rows
    PROVE  WorkerKnows'
<1>0. Good' = Good
  BY DEF Good
<1>1. Listener!NoMessage \in Good
  BY DEF Good, Listener!NoMessage, Listener!Message
<1> USE DEF WorkerKnows
<1>2. CASE Listener!Tick
  BY <1>0, <1>2, WorkerStays DEF Listener!Tick, Listener!listenerVars, Listener!threadVars
<1>3. CASE Listener!Reap
  <2>1. UNCHANGED <<commands, cmd, lpc, alive>> /\ lpc = "loop"
    BY <1>3 DEF Listener!Reap
  <2> QED BY <1>0, <2>1
<1>4. CASE Listener!TakeStart
  <2>1. /\ commands # <<>> /\ commands' = Tail(commands) /\ cmd' = Head(commands)
        /\ lpc' = "loading" /\ Head(commands).command = "START" /\ alive' = alive
    BY <1>4 DEF Listener!TakeStart, Listener!Take, Listener!threadVars
  <2> HIDE DEF Good
  <2>2. commands' \in Seq(Good) /\ cmd' \in Good
    BY <2>1, TakenIsGood
  <2> QED BY <1>0, <2>1, <2>2
<1>5. CASE Listener!LoadFails
  <2>1. UNCHANGED <<commands, alive>> /\ lpc' = "loop" /\ cmd' = Listener!NoMessage
    BY <1>5 DEF Listener!LoadFails, Listener!Done, Listener!threadVars
  <2> QED BY <1>0, <1>1, <2>1
<1>6. CASE Listener!Load
  <2>1. /\ UNCHANGED <<commands, cmd, alive>> /\ lpc = "loading" /\ lpc' = "loaded"
        /\ module' = cmd.run
    BY <1>6 DEF Listener!Load, Listener!threadVars
  <2>2. cmd.run \in rows
    BY <2>1 DEF Good
  <2> QED BY <1>0, <2>1, <2>2
<1>7. CASE Listener!StartThread
  <2>1. /\ UNCHANGED commands /\ lpc = "loaded" /\ lpc' = "loop" /\ cmd' = Listener!NoMessage
        /\ alive' = alive \cup {module}
    BY <1>7 DEF Listener!StartThread, Listener!Done
  <2> QED BY <1>0, <1>1, <2>1
<1>8. CASE Listener!TakeStartAgain
  <2>1. /\ commands # <<>> /\ commands' = Tail(commands) /\ lpc = "loop"
        /\ UNCHANGED <<lpc, cmd, alive>>
    BY <1>8 DEF Listener!TakeStartAgain, Listener!Skim, Listener!threadVars
  <2> HIDE DEF Good
  <2>2. commands' \in Seq(Good)
    BY <2>1, TakenIsGood
  <2> QED BY <1>0, <2>1, <2>2
<1>9. CASE Listener!TakeStop
  <2>1. /\ commands # <<>> /\ commands' = Tail(commands) /\ cmd' = Head(commands)
        /\ lpc' \in {"joining", "settle"} /\ alive' = alive
    BY <1>9 DEF Listener!TakeStop, Listener!Take
  <2> HIDE DEF Good
  <2>2. commands' \in Seq(Good) /\ cmd' \in Good
    BY <2>1, TakenIsGood
  <2> QED BY <1>0, <2>1, <2>2
<1>10. CASE Listener!Join
  <2>1. UNCHANGED <<commands, cmd, alive>> /\ lpc' = "settle"
    BY <1>10 DEF Listener!Join
  <2> QED BY <1>0, <2>1
<1>11. CASE Listener!Settle
  <2>1. /\ UNCHANGED <<commands, alive>> /\ lpc' \in {"finally", "loop"}
        /\ cmd' \in {cmd, Listener!NoMessage}
    BY <1>11 DEF Listener!Settle, Listener!Done, Listener!threadVars
  <2> QED BY <1>0, <1>1, <2>1
<1>12. ASSUME NEW r \in Runs, Listener!Worker(r) PROVE WorkerKnows'
  <2>1. /\ UNCHANGED <<commands, lpc, cmd, module>> /\ alive' \subseteq alive
    BY <1>12 DEF Listener!Worker, Listener!WorkerBegins, Listener!WorkerFails, Listener!WorkerCompletes,
       Listener!WorkerDies, Listener!WorkerEnds, Listener!listenerVars
  <2> QED BY <1>0, <2>1
<1> QED
  BY <1>2, <1>3, <1>4, <1>5, <1>6, <1>7, <1>8, <1>9, <1>10, <1>11, <1>12
     DEF WorkerSteps, Goes, Swallow, ListenerStep

-----------------------------------------------------------------------------
\* The numbers stay numbers, and a fault is never taken back.
LEMMA NumbersStay ==
    ASSUME faults \in Nat, lastRun \in Nat, [Next]_vars
    PROVE  faults' \in Nat /\ lastRun' \in Nat /\ (faults' = 0 => faults = 0)
<1>1. ASSUME NEW h \in Handlers, Arrive(h)
      PROVE  UNCHANGED <<faults, lastRun>>
  BY <1>1 DEF Arrive, Poll, Request, Restart, Drain
<1>2. ASSUME NEW h \in Handlers, Handle(h)
      PROVE  /\ faults' = faults \/ faults' = faults + 1
             /\ lastRun' = lastRun \/ lastRun' = lastRun + 1
  BY <1>2 DEF Handle, Refresh, Check, Attach, Derive, ReconcileAgain, Write, PollAgain,
     Start, SetRun, PublishStart, UndoRow, ClearRun, Stop, PublishStop, Rollback,
     RestartStop, RestartStart, Sends, Raises, sharedVars, boundVars
<1>3. CASE Sample
  BY <1>3 DEF Sample, boundVars
<1>4. CASE Worker
  BY <1>4 DEF Worker, webappVars
<1>5. CASE WorkerRestart
  BY <1>5 DEF WorkerRestart, webappVars
<1>6. CASE UNCHANGED vars
  BY <1>6 DEF vars, webappVars
<1> QED BY <1>1, <1>2, <1>3, <1>4, <1>5, <1>6 DEF Next

\* The first state has the invariant.
LEMMA Starting == Init => Invariant
<1> SUFFICES ASSUME Init PROVE Invariant
  OBVIOUS
<1>1. FreshLocal = [f \in Fields |-> FreshLocal[f]] /\ FreshLocal.op \in Ops
  BY DEF FreshLocal, Fields, Ops
<1>2. HandlersKnow
  BY <1>1 DEF Init, HandlersKnow, Known
<1>3. WorkerKnows
  <2>1. Listener!NoMessage \in Good
    BY DEF Good, Listener!NoMessage, Listener!Message
  <2> QED BY <2>1 DEF Init, Listener!Init, WorkerKnows
<1> QED BY <1>2, <1>3 DEF Init, Invariant, Recorded

\* Every step keeps it.
LEMMA Keeping == Invariant /\ [Next]_vars => Invariant'
<1> SUFFICES ASSUME Invariant, [Next]_vars PROVE Invariant'
  OBVIOUS
<1>1. faults' \in Nat /\ lastRun' \in Nat /\ (faults' = 0 => faults = 0)
  BY NumbersStay DEF Invariant
<1> SUFFICES ASSUME faults' = 0 PROVE Recorded'
  BY <1>1 DEF Invariant
<1>2. faults = 0 /\ Recorded /\ lastRun \in Nat
  BY <1>1 DEF Invariant
<1>3. ASSUME NEW h \in Handlers, Arrive(h) PROVE Recorded'
  BY <1>2, <1>3, ArriveKeeps
<1>4. ASSUME NEW h \in Handlers, Handle(h) PROVE Recorded'
  BY <1>2, <1>4, HandleKeeps
<1>5. CASE Sample
  <2>1. UNCHANGED <<rows, runId, step, loc, commands, workerVars>>
    BY <1>5 DEF Sample, sharedVars, handlerVars
  <2> QED BY <1>2, <2>1, NoHandler, WorkerStays DEF Recorded, workerVars
<1>6. CASE Worker
  <2>1. UNCHANGED <<rows, runId, step, loc>> /\ WorkerSteps
    BY <1>6 DEF Worker, webappVars, sharedVars, handlerVars
  <2> QED BY <1>2, <2>1, NoHandler, WorkerKeeps DEF Recorded
<1>7. CASE WorkerRestart
  BY <1>2, <1>7 DEF WorkerRestart
<1>8. CASE UNCHANGED vars
  <2>1. UNCHANGED <<rows, runId, step, loc, commands, workerVars>>
    BY <1>8 DEF vars, webappVars, sharedVars, handlerVars
  <2> QED BY <1>2, <2>1, NoHandler, WorkerStays DEF Recorded, workerVars
<1> QED BY <1>3, <1>4, <1>5, <1>6, <1>7, <1>8 DEF Next

\* ExecutingRunIsRecorded (execute_system_start, restart_module and _undo of a failed
\* start, external_routes.py): the thread that is alive executes a run whose row is
\* there, however requests, refreshes and the worker interleave.
THEOREM OnRecord == Spec => []ExecutingRunIsRecorded
<1>1. Invariant => ExecutingRunIsRecorded
  BY DEF Invariant, Recorded, WorkerKnows, ExecutingRunIsRecorded
<1> QED BY <1>1, Starting, Keeping, PTL DEF Spec
=============================================================================
