------------------------------ MODULE ModelLogs ------------------------------
(***************************************************************************)
(* The rows in which DatabaseWorkers write what the models said, how they  *)
(* prune them, and an operator who pages through them, newest first, while *)
(* they do.  The ingestor's detector loop, its anomaly thread and the      *)
(* anomaly worker write them, each with a DatabaseWorker and a counter of  *)
(* its own.                                                                *)
(*                                                                         *)
(* Rows are named by the order of their created_at, which is the time when *)
(* the transaction began: they need not be committed in that order.        *)
(***************************************************************************)
EXTENDS Naturals, FiniteSetsExt

CONSTANTS LogWriters,     \* the DatabaseWorkers
          RetainMax,      \* MODEL_RESULT_LOG_RETAIN_MAX
          PruneInterval,  \* MODEL_RESULT_LOG_PRUNE_INTERVAL
          PageSize,       \* page_size of the operator
          MaxLogs,        \* bound: rows begun
          MaxStarts       \* bound: DatabaseWorkers made after the first ones

VARIABLES last,      \* the last created_at
          live,      \* rows that are committed and not deleted
          doing,     \* what each worker is at
          created,   \* created_at of the row it writes
          writes,    \* its model_log_writes_since_prune
          stale,     \* the rows its prune has found
          starts,    \* workers made after the first ones
          page,      \* the page the operator asks for; 0 before the first
          total,     \* what the server has counted for it, or NotCounted
          shown,     \* rows on the pages he got
          there,     \* rows that were there all the time he looked
          shifted    \* whether a row came between a count and its page, or a late one rose

logVars == <<last, live, doing, created, writes, stale, starts, page, total, shown, there, shifted>>
workerVars == <<last, live, doing, created, writes, stale, starts>>
readerVars == <<page, total, shown>>

NotCounted == MaxLogs + 1

Init ==
    /\ last = 0 /\ live = {} /\ starts = 0
    /\ doing = [w \in LogWriters |-> "nothing"]
    /\ created = [w \in LogWriters |-> 0]
    /\ writes = [w \in LogWriters |-> 0]
    /\ stale = [w \in LogWriters |-> {}]
    /\ page = 0 /\ total = NotCounted /\ shown = {} /\ there = {} /\ shifted = FALSE

\* The n-th row, newest first, of the rows R.
Rank(r, R) == Cardinality({q \in R : q > r}) + 1

-----------------------------------------------------------------------------
Goes(w, step) == doing' = [doing EXCEPT ![w] = step]

\* create_model_result_log: the transaction begins, ...
Begin(w) ==
    /\ doing[w] = "nothing" /\ last < MaxLogs
    /\ last' = last + 1
    /\ created' = [created EXCEPT ![w] = last']
    /\ Goes(w, "writing")
    /\ UNCHANGED <<live, writes, stale, starts, readerVars, there, shifted>>

\* ... and the row is committed and counted; enough rows and the worker prunes before it
\* goes on.
Commit(w) ==
    /\ doing[w] = "writing"
    /\ live' = live \cup {created[w]}
    /\ writes' = [writes EXCEPT ![w] = @ + 1]
    /\ Goes(w, IF writes'[w] >= PruneInterval THEN "looking" ELSE "nothing")
    /\ created' = [created EXCEPT ![w] = 0]
    /\ shifted' = (shifted \/ total # NotCounted)
    /\ UNCHANGED <<last, stale, starts, readerVars, there>>

\* create() returns None: nothing is there, and nothing counts.
CommitFails(w) ==
    /\ doing[w] = "writing"
    /\ Goes(w, "nothing")
    /\ created' = [created EXCEPT ![w] = 0]
    /\ UNCHANGED <<last, live, writes, stale, starts, readerVars, there, shifted>>

\* prune_model_result_logs reads which rows come after the newest RetainMax, ...
FindStale(w) ==
    /\ doing[w] = "looking"
    /\ stale' = [stale EXCEPT ![w] = {r \in live : RetainMax > 0 /\ Rank(r, live) > RetainMax}]
    /\ Goes(w, "pruning")
    /\ UNCHANGED <<last, live, created, writes, starts, readerVars, there, shifted>>

\* A row committed since, but begun before one that was found, is left; it rises.
Rising(w) == \E r \in stale[w] \cap live, q \in live \ stale[w] : q < r

\* ... and marks them deleted; the counter starts again.
Prune(w) ==
    /\ doing[w] = "pruning"
    /\ live' = live \ stale[w]
    /\ there' = there \ stale[w]
    /\ shifted' = (shifted \/ Rising(w))
    /\ writes' = [writes EXCEPT ![w] = 0]
    /\ stale' = [stale EXCEPT ![w] = {}]
    /\ Goes(w, "nothing")
    /\ UNCHANGED <<last, created, starts, readerVars>>

\* It raises: the counter stays, and the next row prunes again.
PruneFails(w) ==
    /\ doing[w] = "pruning"
    /\ stale' = [stale EXCEPT ![w] = {}]
    /\ Goes(w, "nothing")
    /\ UNCHANGED <<last, live, created, writes, starts, readerVars, there, shifted>>

\* A process ends, before or between, and the next one begins to count from zero; so does
\* the detector loop, which makes itself a DatabaseWorker for each batch.
StartAgain(w) ==
    /\ starts < MaxStarts
    /\ starts' = starts + 1
    /\ writes' = [writes EXCEPT ![w] = 0]
    /\ stale' = [stale EXCEPT ![w] = {}]
    /\ Goes(w, "nothing")
    /\ created' = [created EXCEPT ![w] = 0]
    /\ UNCHANGED <<last, live, readerVars, there, shifted>>

-----------------------------------------------------------------------------
\* The operator opens the page of logs, and gets one after the other.
Open ==
    /\ page = 0
    /\ page' = 1
    /\ there' = live
    /\ shown' = {} /\ shifted' = FALSE
    /\ UNCHANGED <<workerVars, total>>

\* build_model_result_log_page counts the rows, ...
Count ==
    /\ page > 0 /\ total = NotCounted
    /\ total' = Cardinality(live)
    /\ UNCHANGED <<workerVars, page, shown, there, shifted>>

\* (slip: the page of the rows in the order they were written)
OnPageOldest(p, R) ==
    {r \in R : LET n == Cardinality({q \in R : q <= r})
               IN  (p - 1) * PageSize < n /\ n <= p * PageSize}

OnPage(p, R) == {r \in R : (p - 1) * PageSize < Rank(r, R) /\ Rank(r, R) <= p * PageSize}

\* ... reads those of the page, and tells by the count whether there are more.
HasMore == page * PageSize < total

GetPage ==
    /\ total # NotCounted
    /\ shown' = shown \cup OnPage(page, live)
    /\ total' = NotCounted
    /\ page' = IF HasMore THEN page + 1 ELSE 0
    /\ UNCHANGED <<workerVars, there, shifted>>

Works(w) ==
    Begin(w) \/ Commit(w) \/ CommitFails(w) \/ FindStale(w) \/ Prune(w) \/ PruneFails(w) \/ StartAgain(w)

Next == (\E w \in LogWriters : Works(w)) \/ Open \/ Count \/ GetPage
Spec == Init /\ [][Next]_logVars

-----------------------------------------------------------------------------
\* Who pages through the logs to the end has seen every row that was there all the
\* time: what is written meanwhile pushes rows to later pages, and what is pruned
\* was behind them.  The exceptions are a row that comes between a count and its page,
\* which can push the last one out of reach, and one that comes late, behind rows about
\* to be pruned.  And however many workers prune, each on what it found some time ago:
\* the newest RetainMax rows are never among what is going to be deleted.  (How long the
\* table becomes is another matter: who makes a new DatabaseWorker for each batch does
\* not prune.)
LogsComplete ==
    /\ page = 0 /\ ~shifted => there \subseteq shown
    /\ \A w \in LogWriters : \A r \in stale[w] \cap live : Rank(r, live) > RetainMax
=============================================================================
