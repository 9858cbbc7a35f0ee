------------------------------ MODULE Records ------------------------------
(***************************************************************************)
(* Who writes what about a person or a bag into the database: reid's       *)
(* output and database threads (reid/output_threads.py, loitering.py), the *)
(* output thread of association (association/output_threads.py), both      *)
(* through shared/database/database_worker.py in processes of their own,   *)
(* and the anomaly worker, which adds incidents.                           *)
(*                                                                         *)
(* A row refers to a person or bag by its id at the time, without a        *)
(* foreign key; when reid resolves a temporary id, its database thread     *)
(* rewrites the rows it finds.  Commits are steps of their own, and a      *)
(* failing one takes back all that was pending in its session.             *)
(***************************************************************************)
EXTENDS ReidIds, Integers

CONSTANTS Threshold,      \* loitering_threshold, in frames
          Window,         \* the 300 s after which an entry is stale, in frames
          MaxIncidents, MaxFailures   \* bounds: incidents and pairs association and anomaly raise, failed commits

ASSUME RecordsAssumption ==
    /\ Threshold \in Nat /\ Window \in Nat
    /\ MaxIncidents \in Nat /\ MaxFailures \in Nat
    /\ TempPersons \cap RealPersons = {} /\ TempBags \cap RealBags = {}
    /\ PersonIds \cap BagIds = {}

VARIABLES
    entries,   \* LoiteringManager._entries, by id
    reports,   \* every loiterer reported, with the frame
    sighted,   \* the frames in which a person was seen, confirmed, under each id
    running,   \* reid has not been told to stop
    inbox,     \* the frames association has not read
    renamed,   \* what association was told
    reidQueue, assocQueue,  \* the queues of the two database threads
    job,       \* what reid's database thread is at
    confirmed, \* DatabaseWorker.confirmed_persons and confirmed_bags
    entity,    \* the rows of person and bag: "none", "live" or "deleted"
    mapping,   \* entity_id_mapping
    refs,      \* the rows that refer to a person or bag, with the id they were born with
    incidents, \* the rows of incident, by id: who numbered it
    sequence,  \* the last id the database gave out
    counter,   \* Incident._id of association, -1 before it is initialized
    missing,   \* the incidents that could not be inserted
    raised,    \* how many rows each process was asked for
    failures, spoilt   \* failed commits, and the ids they were about

loiterVars == <<entries, reports, sighted>>
queueVars == <<running, inbox, renamed, reidQueue, assocQueue>>
rowVars == <<entity, mapping, refs, incidents, sequence, missing>>
countVars == <<counter, raised, failures, spoilt>>
vars == <<reidVars, loiterVars, queueVars, job, confirmed, rowVars, countVars>>

Ids == PersonIds \cup BagIds
Idle == [pc |-> "idle", todo |-> {}, temp |-> "none", updates |-> <<>>, tracks |-> {},
         loiterers |-> {}, rows |-> {}, pending |-> FALSE]

RecordsInit ==
    /\ ReidInit
    /\ entries = <<>> /\ reports = {} /\ sighted = [i \in PersonIds |-> {}]
    /\ running = TRUE /\ inbox = <<>> /\ renamed = <<>> /\ reidQueue = <<>> /\ assocQueue = <<>>
    /\ job = Idle /\ confirmed = {}
    /\ entity = [i \in Ids |-> "none"] /\ mapping = <<>> /\ refs = {}
    /\ incidents = <<>> /\ sequence = 0 /\ missing = {}
    /\ counter = -1 /\ raised = [process \in {"association", "anomaly"} |-> 0]
    /\ failures = 0 /\ spoilt = {}
-----------------------------------------------------------------------------
\* LoiteringManager.update: presence of the tracks of a frame.
Updated(old, present) ==
    [i \in DOMAIN old \cup present |->
        IF i \in DOMAIN old THEN [old[i] EXCEPT !.last = IF i \in present THEN frames ELSE @]
        ELSE [first |-> frames, last |-> frames, loiters |-> FALSE]]

\* (slip: the merged entry is a new one)
MergedAfresh(old, updates) ==
    LET from == DOMAIN updates \cap DOMAIN old
        Joined(i) == {old[k] : k \in {t \in from : updates[t] = i} \cup ({i} \cap DOMAIN old)}
    IN  [i \in (DOMAIN old \cup {updates[t] : t \in from}) \ from |->
            [first |-> Min({e.first : e \in Joined(i)}), last |-> Max({e.last : e \in Joined(i)}),
             loiters |-> i \in DOMAIN old /\ old[i].loiters /\ Cardinality(Joined(i)) = 1]]
\* LoiteringManager.merge for every update: the entry of a temporary id is joined to
\* that of the real one, which keeps its flag, or becomes it.
Merged(old, updates) ==
    LET from == DOMAIN updates \cap DOMAIN old
        Joined(i) == {old[k] : k \in {t \in from : updates[t] = i} \cup ({i} \cap DOMAIN old)}
    IN  [i \in (DOMAIN old \cup {updates[t] : t \in from}) \ from |->
            [first |-> Min({e.first : e \in Joined(i)}), last |-> Max({e.last : e \in Joined(i)}),
             loiters |-> i \in DOMAIN old /\ old[i].loiters]]

\* OutputThread.run of reid for a frame; `sure` are its temporary tracks with enough
\* features.  Entries go stale only in a frame that shows a person.
HandleFrame(sure) ==
    LET persons == DOMAIN wire.persons
        present == (persons \cap RealPersons) \cup sure
        merged == Merged(Updated(entries, present), wire.personUpdates)
        new == {i \in DOMAIN merged \cap RealPersons :
                   ~merged[i].loiters /\ merged[i].last - merged[i].first >= Threshold}
        fresh == {i \in DOMAIN merged : persons = {} \/ merged[i].last >= frames - Window}
    IN  /\ entries' = [i \in fresh |-> [merged[i] EXCEPT !.loiters = @ \/ i \in new]]
        /\ reports' = reports \cup {[person |-> i, frame |-> frames] : i \in new}
        /\ sighted' = [i \in PersonIds |-> sighted[i] \cup {frames : x \in {i} \cap present}]
        /\ reidQueue' = Append(reidQueue, [tracks |-> persons \cup DOMAIN wire.bags, loiterers |-> new,
                                           people |-> wire.personUpdates, bags |-> wire.bagUpdates])

Output ==
    /\ running /\ wire # NoFrame
    /\ \E sure \in SUBSET (DOMAIN wire.persons \cap TempPersons) :
          /\ \A i \in DOMAIN wire.persons \ sure : i \in TempPersons => sighted[i] = {}
          /\ HandleFrame(sure)
    /\ inbox' = Append(inbox, wire)
    /\ wire' = NoFrame
    /\ UNCHANGED <<frames, seen, resolved, running, renamed, assocQueue, job, confirmed, rowVars, countVars>>

\* DatabaseThread.stop: what is queued is left.
StopReid ==
    /\ running /\ running' = FALSE
    /\ reidQueue' = <<>>
    /\ UNCHANGED <<reidVars, loiterVars, inbox, renamed, assocQueue, job, confirmed, rowVars, countVars>>
-----------------------------------------------------------------------------
Row(by, no, i) == [by |-> by, no |-> no, born |-> i, to |-> i]

\* The thread turns to the next message when nothing of this one is left.
Rest(j) == IF j.todo = {} /\ j.tracks = {} /\ j.loiterers = {} THEN Idle ELSE j
\* DatabaseThread.run takes a message: renames first.
TakeMessage ==
    /\ job = Idle /\ reidQueue # <<>>
    /\ LET m == Head(reidQueue)
       IN  job' = Rest([Idle EXCEPT !.pc = "rename", !.updates = Override(m.people, m.bags),
                                    !.todo = DOMAIN m.people \cup DOMAIN m.bags,
                                    !.tracks = m.tracks, !.loiterers = m.loiterers])
    /\ reidQueue' = Tail(reidQueue)
    /\ UNCHANGED <<reidVars, loiterVars, running, inbox, renamed, assocQueue, confirmed, rowVars, countVars>>

Temp == job.temp
Real == job.updates[Temp]
Done(j, t) == Rest([j EXCEPT !.pc = "rename", !.todo = @ \ {t}, !.temp = "none",
                             !.pending = FALSE, !.rows = {}])

\* publish_id_updates: an id without a row is skipped; else the rows to rewrite are
\* read, and wait in the session with the mapping for the next commit.
FindRows ==
    /\ job.pc = "rename"
    /\ \E t \in job.todo :
          job' = IF entity[t] = "none" THEN Done(job, t)
                 ELSE [job EXCEPT !.pc = "create", !.temp = t, !.rows = {r \in refs : r.to = t},
                                  !.pending = TRUE]
    /\ UNCHANGED <<reidVars, loiterVars, queueVars, confirmed, rowVars, countVars>>

\* What is pending is committed with the next row, or taken back with it.
CommitPending ==
    IF job.pending
    THEN /\ refs' = (refs \ job.rows) \cup {[r EXCEPT !.to = Real] : r \in job.rows}
         /\ mapping' = Override([t \in {Temp} |-> Real], mapping)
    ELSE UNCHANGED <<refs, mapping>>

Fail(ids) ==
    /\ failures < MaxFailures
    /\ failures' = failures + 1 /\ spoilt' = spoilt \cup ids
    /\ UNCHANGED <<refs, mapping, entity>>

\* create_person of the real id, unless it has its row; it counts as confirmed also
\* when that failed.
CreateReal ==
    /\ job.pc = "create"
    /\ IF entity[Real] # "none"
       THEN /\ job' = [job EXCEPT !.pc = "delete"]
            /\ UNCHANGED <<confirmed, entity, mapping, refs, failures, spoilt>>
       ELSE /\ \/ /\ CommitPending
                  /\ entity' = [entity EXCEPT ![Real] = "live"]
                  /\ UNCHANGED <<failures, spoilt>>
               \/ Fail({Temp, Real})
            /\ confirmed' = confirmed \cup {Real}
            /\ job' = [job EXCEPT !.pc = "delete", !.pending = FALSE, !.rows = {}]
    /\ UNCHANGED <<reidVars, loiterVars, queueVars, incidents, sequence, missing, counter, raised>>

\* (slip: the row is deleted in a commit before that of the others)
DeleteTempFirst ==
    /\ job.pc = "delete"
    /\ entity' = [entity EXCEPT ![Temp] = "deleted"]
    /\ confirmed' = confirmed \ {Temp}
    /\ job' = Done(job, Temp)
    /\ UNCHANGED <<reidVars, loiterVars, queueVars, mapping, refs, failures, spoilt, incidents, sequence, missing, counter, raised>>
\* The row of the temporary id is marked deleted; the batch_update after it has only
\* time stamps left to write.
DeleteTemp ==
    /\ job.pc = "delete"
    /\ \/ /\ CommitPending
          /\ entity' = [entity EXCEPT ![Temp] = "deleted"]
          /\ UNCHANGED <<failures, spoilt>>
       \/ Fail({Temp})
    /\ confirmed' = confirmed \ {Temp}
    /\ job' = Done(job, Temp)
    /\ UNCHANGED <<reidVars, loiterVars, queueVars, incidents, sequence, missing, counter, raised>>

\* publish_reid_data and publish_journey_data, one track: the row of the person or
\* bag, when the worker does not think it is there, and the rows that refer to it.
WriteTrack ==
    /\ job.pc = "rename" /\ job.todo = {}
    /\ \E i \in job.tracks :
       LET inserts == i \notin confirmed /\ entity[i] = "none"
       IN  /\ \E failed \in {{}, {"row"}} \cup {{"entity"} : x \in {i} \ confirmed} :
                 /\ entity' = IF inserts /\ "entity" \notin failed THEN [entity EXCEPT ![i] = "live"] ELSE entity
                 /\ refs' = IF "row" \in failed THEN refs ELSE refs \cup {Row("reid", 0, i)}
                 /\ failures + Cardinality(failed) <= MaxFailures
                 /\ failures' = failures + Cardinality(failed)
                 /\ spoilt' = IF failed = {} THEN spoilt ELSE spoilt \cup {i}
           /\ confirmed' = confirmed \cup {i}
           /\ job' = Rest([job EXCEPT !.tracks = @ \ {i}])
    /\ UNCHANGED <<reidVars, loiterVars, queueVars, mapping, incidents, sequence, missing, counter, raised>>

\* An incident whose number the database gives out, though association may have
\* used it.
InsertNumbered(rows) ==
    /\ sequence' = sequence + 1
    /\ IF sequence' \in DOMAIN incidents
       THEN /\ missing' = missing \cup {[no |-> sequence', by |-> "database"]}
            /\ UNCHANGED <<incidents, refs>>
       ELSE /\ incidents' = Override([no \in {sequence'} |-> "database"], incidents)
            /\ refs' = refs \cup rows
            /\ UNCHANGED missing

\* publish_loitering_incidents
WriteLoiterer ==
    /\ job.pc = "rename" /\ job.todo = {} /\ job.tracks = {}
    /\ \E i \in job.loiterers :
          /\ InsertNumbered({Row("reid", 0, i)})
          /\ job' = Rest([job EXCEPT !.loiterers = @ \ {i}])
    /\ UNCHANGED <<reidVars, loiterVars, queueVars, confirmed, entity, mapping, countVars>>

\* Another process records an incident: an anomaly, an alert.
OtherIncident ==
    /\ raised["anomaly"] + raised["association"] < MaxIncidents
    /\ raised' = [raised EXCEPT !["anomaly"] = @ + 1]
    /\ InsertNumbered({})
    /\ UNCHANGED <<reidVars, loiterVars, queueVars, job, confirmed, entity, mapping, counter, failures, spoilt>>
-----------------------------------------------------------------------------
\* Association reads a frame (Scene has the rest): it may raise an incident about one
\* that is in it, or hand on an owner or a bag by its id of now.
ReadFrame ==
    /\ inbox # <<>>
    /\ inbox' = Tail(inbox)
    /\ renamed' = Override(Override(Head(inbox).personUpdates, Head(inbox).bagUpdates), renamed)

Quiet ==
    /\ ReadFrame
    /\ UNCHANGED <<reidVars, loiterVars, running, reidQueue, assocQueue, job, confirmed, rowVars, countVars>>

\* (slip: the counter is read from the table each time)
NumberAfresh == Max({0} \cup DOMAIN incidents) + 1
\* Incident.__init__: the counter is read from the table once.
Number == IF counter = -1 THEN Max({0} \cup DOMAIN incidents) + 1 ELSE counter + 1

Raise(i) ==
    /\ ReadFrame
    /\ i \in DOMAIN Head(inbox).persons \cup DOMAIN Head(inbox).bags
    /\ raised["anomaly"] + raised["association"] < MaxIncidents
    /\ raised' = [raised EXCEPT !["association"] = @ + 1]
    /\ \/ /\ counter' = Number
          /\ assocQueue' = Append(assocQueue, [incident |-> counter', about |-> i])
       \/ /\ UNCHANGED counter
          /\ assocQueue' = Append(assocQueue, [incident |-> 0, about |-> i])
    /\ UNCHANGED <<reidVars, loiterVars, running, reidQueue, job, confirmed, rowVars, failures, spoilt>>

\* Association's output thread: the entities of an incident are read only now.
WriteRow ==
    /\ assocQueue # <<>>
    /\ assocQueue' = Tail(assocQueue)
    /\ LET m == Head(assocQueue)
           now == IF m.incident > 0 /\ m.about \in DOMAIN renamed THEN renamed[m.about] ELSE m.about
           row == Row("association", raised["association"] - Len(assocQueue), now)
       IN  IF m.incident \in DOMAIN incidents
           THEN /\ missing' = missing \cup {[no |-> m.incident, by |-> "association"]}
                /\ UNCHANGED <<incidents, refs>>
           ELSE /\ incidents' = IF m.incident = 0 THEN incidents
                                ELSE Override([no \in {m.incident} |-> "association"], incidents)
                /\ refs' = refs \cup {row}
                /\ UNCHANGED missing
    /\ UNCHANGED <<reidVars, loiterVars, running, inbox, renamed, reidQueue, job, confirmed, entity, mapping, sequence, countVars>>
-----------------------------------------------------------------------------
ReidStep ==
    \/ TakeMessage \/ FindRows \/ CreateReal \/ DeleteTemp \/ WriteTrack \/ WriteLoiterer

Association == Quiet \/ WriteRow \/ \E i \in Ids : Raise(i)

Next ==
    \/ \E f \in Views :
          running /\ Identify(f)
            /\ UNCHANGED <<loiterVars, queueVars, job, confirmed, rowVars, countVars>>
    \/ Output \/ StopReid \/ ReidStep \/ Association \/ OtherIncident

Spec == RecordsInit /\ [][Next]_vars
-----------------------------------------------------------------------------
RecordsTypes ==
    /\ \A i \in DOMAIN entries : i \in PersonIds /\ entries[i].first <= entries[i].last
    /\ entity \in [Ids -> {"none", "live", "deleted"}]
    /\ confirmed \subseteq Ids /\ spoilt \subseteq Ids
    /\ mapping \in Partial(Temps, Ids \ Temps)
    /\ \A r \in refs : r \in [by : {"reid", "association"}, no : Nat, born : Ids, to : Ids]
    /\ sequence \in Nat /\ counter \in Nat \cup {-1}
    /\ failures \in 0..MaxFailures

(***************************************************************************)
(* Whenever reid's database thread has caught up, all that reid wrote      *)
(* under an id that is resolved by now is found under the real one, unless *)
(* a commit about that id failed.                                          *)
(***************************************************************************)
RowsFollow ==
    running /\ wire = NoFrame /\ job = Idle /\ reidQueue = <<>> =>
        \A r \in refs : r.by = "reid" /\ r.to \in DOMAIN resolved => r.to \in spoilt

(***************************************************************************)
(* Between any two commits: a row refers to the id it was written with or  *)
(* to the one reid resolved that to; a row that still names a temporary id *)
(* whose row is gone can be followed through entity_id_mapping to one that *)
(* is there (operations_routes.resolve_entity_id); and what reid's own     *)
(* thread wrote never needs that, though every commit of a rename may be   *)
(* the last, unless a commit about that id failed.                         *)
(***************************************************************************)
RowsResolve ==
    /\ RecordsTypes
    /\ RowsFollow
    /\ \A r \in refs :
        /\ r.to = r.born \/ (r.born \in DOMAIN resolved /\ r.to = resolved[r.born])
        /\ {r.born, r.to} \cap spoilt = {} =>
             /\ entity[r.to] = "deleted" => r.to \in DOMAIN mapping /\ entity[mapping[r.to]] = "live"
             /\ r.by = "reid" => entity[r.to] = "live"

(***************************************************************************)
(* An incident is not recorded only because its number is already the one  *)
(* of an incident that was numbered on the other side: association counts  *)
(* from what it once read, the database from its own sequence.             *)
(***************************************************************************)
LostByCollisionOnly == \A m \in missing : incidents[m.no] # m.by

(***************************************************************************)
(* A loiterer was first seen, under the real id or one resolved to it, at  *)
(* least the threshold ago, and is not reported a second time unless it    *)
(* was out of sight for longer than the window in between.                 *)
(***************************************************************************)
ReportedOnce ==
    \A r \in reports :
        /\ \E i \in {r.person} \cup {t \in DOMAIN resolved : resolved[t] = r.person} :
              \E k \in sighted[i] : k + Threshold <= r.frame
        /\ \A later \in reports :
              later.person = r.person /\ later.frame > r.frame =>
                \E now \in r.frame + 1..later.frame :
                    sighted[r.person] \cap (now - Window..now) = {}
=============================================================================
