------------------------------ MODULE Sources ------------------------------
(***************************************************************************)
(* The operator's configuration of a run: the input sources, the uploaded  *)
(* videos they read, and the models bound to them or by default and        *)
(* mounted (webapp/routes/external_routes.py, shared/utils/                *)
(* model_registry.py, shared/utils/input_sources.py).                      *)
(*                                                                         *)
(* FastAPI runs these handlers in threads, each with its database session. *)
(* They share no lock: one reads the rows, validates, and commits later,   *)
(* part of it to two YAML files.  A request is therefore one action for    *)
(* what it reads and one for each of its commits; a crash of the web       *)
(* application loses the requests in flight.                               *)
(***************************************************************************)
EXTENDS Naturals, FiniteSets, SequencesExt

CONSTANTS Requests,    \* handler threads
          Models, Builtin,   \* model keys of a stage; the workspace default
          Offered,     \* the models a client binds or mounts
          OthersBound, \* another stage has a default binding
          Entries,     \* what a client may enter as a new source
          None,
          MaxRows, MaxUploads, \* bounds: source and upload rows ever made
          MaxDisturbances      \* bound: overlaps, failures and crashes

VARIABLES sources,     \* rows of input_source_template, by id
          uploads,     \* lifecycle_state of the rows of uploaded_media, by id
          files,       \* the uploads whose file is on disk
          default,     \* model_bindings.yaml
          mounted,     \* mounted_models.yaml
          running,     \* a run was started and not stopped
          req,         \* what each handler has read
          disturbances,  \* how often requests overlapped or failed
          disturbed,   \* they did since all was quiet
          healed       \* they did not since an undisturbed save

fileVars == <<default, mounted>>
historyVars == <<disturbances, disturbed, healed>>
vars == <<sources, uploads, files, fileVars, running, req, historyVars>>

Uploads == 1..MaxUploads
Rows == 1..MaxRows
Content == [upload : Uploads \cup {None}, enabled : BOOLEAN, model : Models \cup {None}]
Row == [upload : Uploads \cup {None}, enabled : BOOLEAN, model : Models \cup {None},
        live : BOOLEAN]

Idle == [op |-> "idle"]
Busy(r) == req[r].op # "idle"
Quiet == \A r \in Requests : ~Busy(r)

Live == {i \in DOMAIN sources : sources[i].live}
Entry(i) == [upload |-> sources[i].upload, enabled |-> sources[i].enabled,
             model |-> sources[i].model]
UploadsOf(rows) == {sources[i].upload : i \in rows} \ {None}
ModelsOf(rows) == {sources[i].model : i \in rows} \ {None}

\* normalize_persisted_default_bindings brings the workspace default back when
\* no stage has one.
Default == IF default = None /\ ~OthersBound THEN Builtin ELSE default
\* build_effective_mounted_models mounts the default binding in any case.
Effective == (mounted \cup {Default}) \ {None}

\* (slip: only rows that are attached or active now are given a new state)
SyncAttached(attached, active) ==
    [u \in DOMAIN uploads |->
        CASE uploads[u] # "deleted" /\ u \in active -> "active"
          [] uploads[u] # "deleted" /\ u \in attached \ active -> "attached"
          [] OTHER -> uploads[u]]
\* Every row not deleted is given its state anew.
SyncUploads(attached, active) ==
    [u \in DOMAIN uploads |->
        CASE uploads[u] = "deleted" -> "deleted"
          [] uploads[u] # "deleted" /\ u \in active -> "active"
          [] uploads[u] # "deleted" /\ u \in attached \ active -> "attached"
          [] OTHER -> "staged"]

Disturb ==
    /\ disturbances < MaxDisturbances /\ disturbances' = disturbances + 1
    /\ disturbed' = TRUE /\ healed' = FALSE

\* A handler takes up a request; it disturbs those in flight, and they it.
Begin(r, q) ==
    /\ ~Busy(r)
    /\ req' = [req EXCEPT ![r] = q]
    /\ IF Quiet THEN disturbed' = FALSE /\ UNCHANGED <<disturbances, healed>> ELSE Disturb

Finish(r) == req' = [req EXCEPT ![r] = Idle]

Init ==
    /\ sources = <<>> /\ uploads = <<>> /\ files = {}
    /\ default = None /\ mounted = {}
    /\ running = FALSE
    /\ req = [r \in Requests |-> Idle]
    /\ disturbances = 0 /\ disturbed = FALSE /\ healed = TRUE
-----------------------------------------------------------------------------
\* PUT of the list of sources: `keep` are the rows the client still lists, from
\* a page that may be stale, `new` the entries it adds.  The append handlers
\* list the rows themselves and then do the same.
OpenSave(r, keep, new) ==
    LET list == {Entry(i) : i \in keep} \cup new
    IN  /\ \A e \in list : e.upload # None => e.upload \in DOMAIN uploads /\ uploads[e.upload] # "deleted"
        /\ Begin(r, [op |-> "save", known |-> Live, new |-> new,
                     list |-> [i \in keep |-> Entry(i)],
                     mount |-> Effective \cup ({e.model : e \in list} \ {None})])
        /\ UNCHANGED <<sources, uploads, files, fileVars, running>>

Shown(e) == [upload |-> e.upload, enabled |-> e.enabled, model |-> e.model, live |-> TRUE]

\* An entry whose row the handler knows is written to it, every other one to a
\* new row: also one the client had listed before it was deleted.
Stale(q) == {q.list[i] : i \in DOMAIN q.list \ q.known} \cup q.new
Rewritten(q) == DOMAIN q.list \cap q.known

\* The registry mirror commits in the middle of the save.
WriteSave(r) ==
    LET q == req[r]
        added == SetToSeq(Stale(q))
        base == [i \in DOMAIN sources |->
                    IF i \in Rewritten(q) THEN Shown(q.list[i]) ELSE sources[i]]
    IN  /\ q.op = "save"
        /\ Len(sources) + Len(added) <= MaxRows
        /\ sources' = base \o [k \in DOMAIN added |-> Shown(added[k])]
        /\ req' = [req EXCEPT ![r] =
                [op |-> "saved", known |-> q.known, mount |-> q.mount, lost |-> {},
                 wrote |-> Rewritten(q) \cup (Len(sources) + 1)..(Len(sources) + Len(added))]]
        /\ UNCHANGED <<uploads, files, fileVars, running, historyVars>>

\* The mirror fails and rolls the rows back with it; the save goes on.
RollBackSave(r) ==
    LET q == req[r]
    IN  /\ q.op = "save"
        /\ req' = [req EXCEPT ![r] =
                [op |-> "saved", known |-> q.known, mount |-> q.mount,
                 lost |-> {e.upload : e \in Stale(q)} \ {None}, wrote |-> Rewritten(q)]]
        /\ Disturb
        /\ UNCHANGED <<sources, uploads, files, fileVars, running>>

\* (slip: the rows are read again, and all that were not written deleted)
FinishSaveAfresh(r) ==
    LET q == req[r]
    IN  /\ q.op = "saved"
        /\ mounted' = q.mount
        /\ sources' = [i \in DOMAIN sources |-> [sources[i] EXCEPT !.live = @ /\ i \in q.wrote]]
        /\ uploads' = SyncUploads(UploadsOf(q.wrote) \cup q.lost, {})
        /\ healed' = (healed \/ ~disturbed)
        /\ Finish(r)
        /\ UNCHANGED <<files, default, running, disturbances, disturbed>>

\* What the handler knew and did not write is deleted; uploads are detached,
\* those of a run too.
FinishSave(r) ==
    LET q == req[r]
    IN  /\ q.op = "saved"
        /\ mounted' = q.mount
        /\ sources' = [i \in DOMAIN sources |->
                [sources[i] EXCEPT !.live = @ /\ i \notin q.known \ q.wrote]]
        /\ uploads' = SyncUploads(UploadsOf(q.wrote) \cup q.lost, {})
        /\ healed' = (healed \/ ~disturbed)
        /\ Finish(r)
        /\ UNCHANGED <<files, default, running, disturbances, disturbed>>
-----------------------------------------------------------------------------
\* A video is stored, then its row.
StoreUpload ==
    /\ Len(uploads) < MaxUploads
    /\ uploads' = Append(uploads, "staged")
    /\ files' = files \cup {Len(uploads) + 1}
    /\ UNCHANGED <<sources, fileVars, running, req, historyVars>>

OpenDelete(r, u) ==
    /\ uploads[u] # "deleted"
    /\ u \notin UploadsOf(Live)
    /\ Begin(r, [op |-> "delete", upload |-> u])
    /\ UNCHANGED <<sources, uploads, files, fileVars, running>>

Unlink(r) ==
    /\ req[r].op = "delete"
    /\ files' = files \ {req[r].upload}
    /\ req' = [req EXCEPT ![r].op = "unlinked"]
    /\ UNCHANGED <<sources, uploads, fileVars, running, historyVars>>

CommitDelete(r) ==
    /\ req[r].op = "unlinked"
    /\ uploads' = [uploads EXCEPT ![req[r].upload] = "deleted"]
    /\ Finish(r)
    /\ UNCHANGED <<sources, files, fileVars, running, historyVars>>
-----------------------------------------------------------------------------
\* PUT of a binding, of the source s or (None) of the workspace.
OpenBind(r, s, m) ==
    /\ Begin(r, [op |-> "bind", source |-> s, model |-> m,
                 default |-> IF s = None THEN m ELSE Default,
                 mount |-> Effective \cup ({m} \ {None})])
    /\ UNCHANGED <<sources, uploads, files, fileVars, running>>

CommitBind(r) ==
    LET q == req[r]
    IN  /\ q.op = "bind"
        /\ default' = q.default /\ mounted' = q.mount
        /\ sources' = [i \in DOMAIN sources |->
                IF i = q.source THEN [sources[i] EXCEPT !.model = q.model] ELSE sources[i]]
        /\ Finish(r)
        /\ UNCHANGED <<uploads, files, running, historyVars>>

\* collect_required_mounted_models
Required == ({Default} \cup ModelsOf(Live)) \ {None}

\* PUT of the mounted models: what is required stays unless the client insists,
\* and then is unbound and a run stopped.
OpenMount(r, set, force) ==
    LET missing == Required \ set
    IN  /\ missing # {} => force
        /\ Begin(r, [op |-> "mount", mount |-> set, missing |-> missing, known |-> Live,
                     default |-> CASE missing = {} -> default
                                   [] Default \in missing -> None
                                   [] OTHER -> Default])
        /\ UNCHANGED <<sources, uploads, files, fileVars, running>>

Unbound(q) == [i \in DOMAIN sources |->
    IF i \in q.known /\ sources[i].model \in q.missing
    THEN [sources[i] EXCEPT !.model = None] ELSE sources[i]]

CommitMount(r) ==
    LET q == req[r]
    IN  /\ q.op = "mount"
        /\ default' = IF q.missing = {} THEN default ELSE q.default
        /\ mounted' = q.mount
        /\ sources' = Unbound(q)
        /\ IF q.missing # {} /\ running
           THEN uploads' = SyncUploads(UploadsOf(Live), {}) /\ running' = FALSE
           ELSE UNCHANGED <<uploads, running>>
        /\ Finish(r)
        /\ UNCHANGED <<files, historyVars>>

\* The second file or the commit fails: the first file stays as written, the rows
\* are rolled back, the run was told to stop.
MountFails(r) ==
    LET q == req[r]
    IN  /\ q.op = "mount"
        /\ default' = IF q.missing = {} THEN default ELSE q.default
        /\ mounted' \in {mounted, q.mount}
        /\ running' = (running /\ q.missing = {})
        /\ Disturb
        /\ Finish(r)
        /\ UNCHANGED <<sources, uploads, files>>
-----------------------------------------------------------------------------
Enabled == {i \in Live : sources[i].enabled}
\* derive_source_error, and the model every stage but the detector's needs
Ready(i) ==
    /\ sources[i].upload # None =>
           uploads[sources[i].upload] # "deleted" /\ sources[i].upload \in files
    /\ sources[i].model # None \/ Default # None

Start ==
    /\ ~running /\ Enabled # {}
    /\ \A i \in Enabled : Ready(i)
    /\ \/ /\ uploads' = SyncUploads(UploadsOf(Enabled), UploadsOf(Enabled))
          /\ running' = TRUE
       \/ /\ uploads' = SyncUploads(UploadsOf(Enabled), {})   \* START not published
          /\ running' = FALSE
    /\ UNCHANGED <<sources, files, fileVars, req, historyVars>>

\* The run is stopped, or ends by itself, which the uploads are not told.
Stop ==
    /\ running /\ running' = FALSE
    /\ uploads' \in {uploads, SyncUploads(UploadsOf(Live), {})}
    /\ UNCHANGED <<sources, files, fileVars, req, historyVars>>

Crash ==
    /\ ~Quiet
    /\ req' = [r \in Requests |-> Idle]
    /\ Disturb
    /\ UNCHANGED <<sources, uploads, files, fileVars, running>>

Request(r) ==
    \/ \E keep \in SUBSET DOMAIN sources, new \in {{}} \cup {{e} : e \in Entries} : OpenSave(r, keep, new)
    \/ WriteSave(r) \/ RollBackSave(r) \/ FinishSave(r)
    \/ \E u \in DOMAIN uploads : OpenDelete(r, u)
    \/ Unlink(r) \/ CommitDelete(r)
    \/ \E s \in Live \cup {None}, m \in Offered \cup {None} : OpenBind(r, s, m)
    \/ CommitBind(r)
    \/ \E set \in SUBSET Offered, force \in BOOLEAN : OpenMount(r, set, force)
    \/ CommitMount(r) \/ MountFails(r)

Next == (\E r \in Requests : Request(r)) \/ StoreUpload \/ Start \/ Stop \/ Crash

Spec == Init /\ [][Next]_vars
-----------------------------------------------------------------------------
SourcesTypes ==
    /\ sources \in Seq(Row) /\ Len(sources) <= MaxRows
    /\ uploads \in Seq({"staged", "attached", "active", "deleted"}) /\ Len(uploads) <= MaxUploads
    /\ files \subseteq DOMAIN uploads
    /\ default \in Models \cup {None} /\ mounted \subseteq Models
    /\ disturbances \in 0..MaxDisturbances
    /\ running \in BOOLEAN /\ disturbed \in BOOLEAN /\ healed \in BOOLEAN

\* A live source reads an upload that was not deleted, and runs a mounted model.
SourcesAreServed ==
    /\ \A u \in UploadsOf(Live) : uploads[u] # "deleted"
    /\ ModelsOf(Live) \subseteq Effective

\* An upload is attached or active for a source that is there, and one an enabled
\* source reads is never offered as staged.
UploadsAreFiled == \A u \in DOMAIN uploads :
    /\ uploads[u] \in {"attached", "active"} => u \in UploadsOf(Live)
    /\ u \in UploadsOf(Enabled) => uploads[u] # "staged"

(***************************************************************************)
(* However requests overlapped, failed or crashed before: once a save went *)
(* through undisturbed, and until requests overlap or fail again, sources, *)
(* uploads and mounted models agree (replace_sources rebuilds them all).   *)
(* A deleted upload never has a file left.                                 *)
(***************************************************************************)
SavesHeal ==
    /\ SourcesTypes
    /\ \A u \in DOMAIN uploads : uploads[u] = "deleted" => u \notin files
    /\ healed /\ Quiet => SourcesAreServed /\ UploadsAreFiled

(***************************************************************************)
(* A save deletes only rows it read when it began: a source another client *)
(* adds meanwhile survives it (replace_sources, existing_rows).            *)
(***************************************************************************)
NewcomersSurvive ==
    [][\A i \in Live : i \in Live' \/ (\E r \in Requests : Busy(r) /\ ~Busy(r)' /\ i \in req[r].known)]_vars
=============================================================================
