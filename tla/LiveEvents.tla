----------------------------- MODULE LiveEvents -----------------------------
(***************************************************************************)
(* What a page of the console knows of the database                        *)
(* (webapp/routes/operations_routes.py): a thread reads the runs, the      *)
(* incidents and the entities, one query after the other, into a cache; a  *)
(* stream of events compares what it finds there with what it has sent     *)
(* before; the page asks for its data when an event tells it to, and now   *)
(* and then without one.  Its answers may overtake each other, streams     *)
(* break and are opened again, queries and requests fail.                  *)
(*                                                                         *)
(* Each kind of row is a number, the version it is at: ids, statuses and   *)
(* times of change make up the signature that is compared.  Anomalies are  *)
(* not in the signature.                                                   *)
(***************************************************************************)
EXTENDS Naturals, SequencesExt

CONSTANTS Signature,   \* the kinds of rows that are watched, in the order they are read
          Page,        \* the kinds the page shows
          MaxChanges, MaxFaults, MaxRequests   \* bounds

Watched == ToSet(Signature)
Unread == MaxChanges + 1

VARIABLES db,        \* version of every kind of row
          reading,   \* what the cache's thread and the stream have read of a state
          cached,    \* the state in the cache; <<>> before the first
          stream,    \* "closed", "open" or "build", the state being read by itself
          previous,  \* the state the stream has sent; <<>> before the first
          told,      \* what the client was told of every watched kind
          requests,  \* the page's requests and what was read for them
          shown,     \* what the page shows
          faults

liveVars == <<db, reading, cached, stream, previous, told, requests, shown, faults>>
streamVars == <<reading, cached, stream, previous, told>>
pageVars == <<requests, shown>>

Init ==
    /\ db = [k \in Watched \cup Page |-> 0]
    /\ reading = [r \in {"cache", "stream"} |-> <<>>]
    /\ cached = <<>> /\ stream = "closed" /\ previous = <<>>
    /\ told = [i \in DOMAIN Signature |-> Unread]
    /\ requests = {} /\ shown = [k \in Page |-> Unread] /\ faults = 0

-----------------------------------------------------------------------------
Changes == FoldFunction(+, 0, db)
Fault == faults < MaxFaults /\ faults' = faults + 1

\* The workers and the operators commit.
Commit ==
    /\ Changes < MaxChanges
    /\ \E k \in DOMAIN db : db' = [db EXCEPT ![k] = @ + 1]
    /\ UNCHANGED <<streamVars, pageVars, faults>>

\* _build_incident_stream_state: a query for each kind.
Complete(r) == Len(reading[r]) = Len(Signature)
Read(r) ==
    /\ ~Complete(r)
    /\ r = "stream" => stream = "build"
    /\ reading' = [reading EXCEPT ![r] = Append(@, db[Signature[Len(@) + 1]])]
    /\ UNCHANGED <<db, cached, stream, previous, told, pageVars, faults>>

\* IncidentStreamStateCache.run; what fails is logged and begun again.
Refresh ==
    /\ Complete("cache")
    /\ cached' = reading["cache"]
    /\ reading' = [reading EXCEPT !["cache"] = <<>>]
    /\ UNCHANGED <<db, stream, previous, told, pageVars, faults>>
RefreshFails ==
    /\ Fault
    /\ reading' = [reading EXCEPT !["cache"] = <<>>]
    /\ UNCHANGED <<db, cached, stream, previous, told, pageVars>>

-----------------------------------------------------------------------------
\* The page opens the stream, again when it broke; the generator starts afresh.
Connect ==
    /\ stream = "closed" /\ stream' = "open"
    /\ previous' = <<>>
    /\ UNCHANGED <<db, reading, cached, told, pageVars, faults>>

\* Without a state in the cache the generator reads one, beside the cache's thread.
Build ==
    /\ stream = "open" /\ cached = <<>> /\ stream' = "build"
    /\ UNCHANGED <<db, reading, cached, previous, told, pageVars, faults>>

\* fetchIncidentData: at the snapshot and at incidents.updated.
Ask == IF Cardinality(requests) < MaxRequests
       THEN requests \cup {[k \in Page |-> Unread]} ELSE requests

\* (slip: one event a turn, for the first kind that differs)
EmitFirst(state) ==
    LET differ == {i \in DOMAIN state : previous = <<>> \/ state[i] # previous[i]}
        news == IF previous = <<>> THEN differ ELSE {i \in differ : \A j \in differ : i <= j}
    IN  /\ previous' = state
        /\ told' = [i \in DOMAIN told |-> IF i \in news THEN state[i] ELSE told[i]]
        /\ requests' = IF \E i \in news : Signature[i] = "incidents" THEN Ask ELSE requests

\* A snapshot, or an event for each kind that differs from what was sent.
Emit(state) ==
    LET news == {i \in DOMAIN state : previous = <<>> \/ state[i] # previous[i]}
    IN  /\ previous' = state
        /\ told' = [i \in DOMAIN told |-> IF i \in news THEN state[i] ELSE told[i]]
        /\ requests' = IF \E i \in news : Signature[i] = "incidents" THEN Ask ELSE requests

\* One turn of event_generator.
Turn ==
    /\ \/ stream = "open" /\ cached # <<>> /\ Emit(cached) /\ UNCHANGED reading
       \/ /\ stream = "build" /\ Complete("stream") /\ Emit(reading["stream"])
          /\ reading' = [reading EXCEPT !["stream"] = <<>>]
    /\ stream' = "open"
    /\ UNCHANGED <<db, cached, shown, faults>>

\* The connection breaks, or the generator's query raises.
Break ==
    /\ stream # "closed" /\ Fault
    /\ stream' = "closed"
    /\ reading' = [reading EXCEPT !["stream"] = <<>>]
    /\ UNCHANGED <<db, cached, previous, told, pageVars>>

-----------------------------------------------------------------------------
\* The page's own interval.
Poll ==
    /\ requests = {} /\ requests' = Ask
    /\ UNCHANGED <<db, streamVars, shown, faults>>

\* incident_cards and the algorithm's feed: two requests, each a query of its own, which
\* shows the rows as they are then: nothing is kept between two requests.
IncidentCards == [incidents |-> db["incidents"]]
AnomalyFeed == [anomalies |-> db["anomalies"]]
Served(r, answer) == [k \in Page |-> IF k \in DOMAIN answer THEN answer[k] ELSE r[k]]

Serve ==
    /\ \E r \in requests, answer \in {IncidentCards, AnomalyFeed} :
           /\ \E k \in Page \cap DOMAIN answer : r[k] = Unread
           /\ requests' = (requests \ {r}) \cup {Served(r, answer)}
    /\ UNCHANGED <<db, streamVars, shown, faults>>

\* Both answers have come; of several requests any may be the first to be answered.
Answer ==
    /\ \E r \in requests :
           /\ \A k \in Page : r[k] # Unread
           /\ shown' = r
           /\ requests' = requests \ {r}
    /\ UNCHANGED <<db, streamVars, faults>>
RequestFails ==
    /\ Fault
    /\ \E r \in requests : requests' = requests \ {r}
    /\ UNCHANGED <<db, streamVars, shown>>

Cache == Read("cache") \/ Refresh
Generator == Connect \/ Build \/ Read("stream") \/ Turn
Console == Poll \/ Serve \/ Answer
Next == Commit \/ Cache \/ RefreshFails \/ Generator \/ Break \/ Console \/ RequestFails
Spec ==
    /\ Init /\ [][Next]_liveVars
    /\ WF_liveVars(Cache) /\ WF_liveVars(Generator) /\ WF_liveVars(Console)

-----------------------------------------------------------------------------
\* When the changes end the client has been told the newest state of all that is
\* watched: no event is swallowed by another, by a query that read before the change, or
\* by a stream that broke.
EverythingAnnounced == <>[](\A i \in DOMAIN Signature : told[i] = db[Signature[i]])

\* The page shows it, although an old answer may have come after a new one and nobody
\* announces anomalies.
PageSettles == <>[](\A k \in Page : shown[k] = db[k])

LiveView == EverythingAnnounced /\ PageSettles
=============================================================================
