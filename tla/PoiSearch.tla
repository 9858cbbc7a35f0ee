------------------------------ MODULE PoiSearch ------------------------------
(***************************************************************************)
(* A search for a person of interest.  /register_poi flushes a row, sends  *)
(* its feature to reid and then commits the row; reid keeps the searches   *)
(* it was sent, compares each with the people it knows, and a thread of    *)
(* its own writes what was found, if the row of the search is there by     *)
(* then.  A search can be asked for again; only its number is sent then.   *)
(*                                                                         *)
(* The handler awaits nothing, so that one request runs at a time.         *)
(***************************************************************************)
EXTENDS Naturals, SequencesExt

CONSTANTS PerFrame,                             \* STREAM_MESSAGES_PER_FRAME
          MaxSearches, MaxOnTheWay, MaxFaults  \* bounds

VARIABLES next,      \* the last number the sequence gave
          rows,      \* searches that are committed
          request,   \* the search that is being registered, and what comes next
          wire,      \* messages between the application and reid
          reid,      \* "up"; "dead", of an exception; "haunted", started again beside the
                     \* consumer which the dead one left
          queries,   \* the searches reid knows
          found,     \* results on their way to the database
          owed,      \* searches whose last request, which succeeded, has no result since
          dropped,   \* searches whose result was dropped: it came before the row, or its
                     \* commit failed
          faults

poiVars == <<next, rows, request, wire, reid, queries, found, owed, dropped, faults>>
apiVars == <<next, rows, request>>
reidVars == <<reid, queries>>

OnTheWay == Len(wire) + Len(found)

NoRequest == [id |-> 0, then |-> "none"]
Idle == request = NoRequest

Init ==
    /\ next = 0 /\ rows = {} /\ request = NoRequest
    /\ wire = <<>> /\ reid = "up" /\ queries = {} /\ found = <<>>
    /\ owed = {} /\ dropped = {} /\ faults = 0

-----------------------------------------------------------------------------
Fault == faults < MaxFaults /\ faults' = faults + 1

\* Publisher.publish tries again what it takes to have failed: the message arrives twice.
Sent(message) ==
    \/ wire' = Append(wire, message) /\ UNCHANGED faults
    \/ wire' = wire \o <<message, message>> /\ Fault
\* It gives up, and an attempt may have arrived all the same.
NotSent(message) == wire' \in {wire, Append(wire, message)} /\ Fault

Register ==
    /\ Idle /\ next < MaxSearches
    /\ next' = next + 1
    /\ request' = [id |-> next', then |-> "send"]
    /\ UNCHANGED <<rows, wire, reidVars, found, owed, dropped, faults>>

\* A rollback does not give the number back.
SendFeature ==
    /\ request.then = "send" /\ OnTheWay < MaxOnTheWay
    /\ \/ Sent([id |-> request.id, feature |-> TRUE]) /\ request' = [request EXCEPT !.then = "commit"]
       \/ NotSent([id |-> request.id, feature |-> TRUE]) /\ request' = NoRequest
    /\ UNCHANGED <<next, rows, reidVars, found, owed, dropped>>

Commit ==
    /\ request.then = "commit" /\ request' = NoRequest
    /\ \/ rows' = rows \cup {request.id} /\ owed' = owed \cup {request.id} /\ UNCHANGED faults
       \/ Fault /\ UNCHANGED <<rows, owed>>
    /\ UNCHANGED <<next, wire, reidVars, found, dropped>>

\* research: an answer is promised whether reid knows the search or not.
AskAgain(s) ==
    /\ Idle /\ OnTheWay < MaxOnTheWay
    /\ \/ /\ Sent([id |-> s, feature |-> FALSE])
          /\ owed' = owed \cup {s} /\ dropped' = dropped \ {s}
       \/ NotSent([id |-> s, feature |-> FALSE]) /\ UNCHANGED <<owed, dropped>>
    /\ UNCHANGED <<apiVars, reidVars, found>>

-----------------------------------------------------------------------------
\* get_new_queries.  The searches reid knows when it comes to the i-th message: those it
\* knew, and those whose feature came before.
Known(i) == queries \cup {wire[j].id : j \in {k \in 1 .. i - 1 : wire[k].feature}}

\* A second message with the feature of one search is an error, and so is its report, of
\* a name that messages do not have.
Repeated(i) == wire[i].feature /\ wire[i].id \in Known(i)

\* (slip: a search that is known is not made again)
AnsweredOnce(n) == {i \in 1 .. n : wire[i].feature}

\* Of the first n messages those that lead to a result.
Answered(n) == {i \in 1 .. n : wire[i].feature \/ wire[i].id \in Known(i)}

\* Numbers in their order.
Ordered(S) ==
    {order \in Surjection(1 .. Cardinality(S), S) :
        \A j, k \in DOMAIN order : j < k => order[j] < order[k]}

\* POIManager.update, once in a frame, with what the consumer has received by then.
Update ==
    /\ reid # "dead"
    /\ \E n \in 1..PerFrame :
        /\ n <= Len(wire)
        /\ wire' = SubSeq(wire, n + 1, Len(wire))
        /\ queries' = Known(n + 1)
        /\ IF \E i \in 1..n : Repeated(i)
           THEN reid' = "dead" /\ UNCHANGED found
           ELSE /\ UNCHANGED reid
                /\ \E order \in Ordered(Answered(n)) :
                       found' = found \o [k \in DOMAIN order |-> wire[order[k]].id]
    /\ UNCHANGED <<apiVars, owed, dropped, faults>>

\* create_poi_result, in the database thread, which outlives the death of reid.  create
\* answers nothing when a commit fails, of the result or of its mapping to the search;
\* either way the search shows no result, and nothing tries again.
Write ==
    /\ found # <<>> /\ found' = Tail(found)
    /\ \/ /\ Head(found) \in rows
          /\ owed' = owed \ {Head(found)} /\ UNCHANGED <<dropped, faults>>
       \/ /\ Head(found) \notin rows
          /\ dropped' = dropped \cup {Head(found)} /\ UNCHANGED <<owed, faults>>
       \/ /\ Head(found) \in rows /\ Fault
          /\ dropped' = dropped \cup {Head(found)} /\ UNCHANGED owed
    /\ UNCHANGED <<apiVars, wire, reidVars>>

\* reid is stopped and started: what is queued is purged, but for what arrives between
\* the purge and the end of the consumer's connection.
Restart ==
    /\ reid # "dead" /\ queries' = {} /\ found' = <<>>
    /\ \E n \in 0..Len(wire) : wire' = SubSeq(wire, n + 1, Len(wire))
    /\ UNCHANGED <<apiVars, reid, owed, dropped, faults>>

\* A reid that died has stopped nothing: its consumer shares the queue with the next one.
StartBeside ==
    /\ reid = "dead" /\ reid' = "haunted"
    /\ queries' = {}
    /\ UNCHANGED <<apiVars, wire, found, owed, dropped, faults>>
Swallow ==
    /\ reid \in {"dead", "haunted"} /\ wire # <<>> /\ wire' = Tail(wire)
    /\ UNCHANGED <<apiVars, reidVars, found, owed, dropped, faults>>

Next ==
    \/ Register \/ SendFeature \/ Commit \/ \E s \in rows : AskAgain(s)
    \/ Update \/ Write \/ Restart \/ StartBeside \/ Swallow
Spec == Init /\ [][Next]_poiVars

-----------------------------------------------------------------------------
\* When nothing is on its way, a search that reid knows has a result as new as the last
\* request for it.  The exceptions are two, and the operator is told of neither: a result
\* that overtook the commit of its search's row, and one whose own commit failed.  Such a
\* search has none until it is asked for again, and that is enough.
SearchesAnswered ==
    Idle /\ wire = <<>> /\ found = <<>> /\ reid = "up" => owed \cap queries \subseteq dropped
=============================================================================
