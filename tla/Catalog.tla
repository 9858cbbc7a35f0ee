------------------------------- MODULE Catalog -------------------------------
(***************************************************************************)
(* Plugins on disk, the bundle each process reads from them and keeps for  *)
(* half a minute, and the rows the web application mirrors it in: by any   *)
(* request that asks for the bundle, once a minute at most, and by the     *)
(* request that installs a plugin of the connector zoo.                    *)
(*                                                                         *)
(* A plugin is a directory with a manifest, a file of models and a file of *)
(* connectors.  Plugins are numbered in the order of their names.          *)
(***************************************************************************)
EXTENDS Integers, FiniteSetsExt, Functions

CONSTANTS Plugins,       \* a set of numbers
          Shipped,       \* those that are there from the beginning
          WithZoo,       \* those whose manifest includes the model zoo
          Lookers,       \* requests that read the bundle
          Installers,    \* requests that install a plugin
          MaxFaults      \* bound: downloads, copies and processes that fail

VARIABLES disk,      \* the files of each plugin; none when there is no directory
          cache,     \* _REGISTRY_BUNDLE_CACHE: at most one bundle
          rows,      \* the mirror, what it has of plugins and of components
          syncing,   \* _registry_db_sync_in_progress
          recent,    \* whether the last sync is less than its interval ago
          req,       \* the requests
          faults

catalogVars == <<disk, cache, rows, syncing, recent, req, faults>>

Files == {"manifest", "models", "connectors"}
Requests == Lookers \cup Installers

\* Every plugin has a connector of its own and models under the same keys; the model zoo,
\* a package that is installed beside the plugins, has models of its own.
Model == 0
ZooModel == -1
Components == {Model, ZooModel} \cup Plugins

\* load_plugin_catalog.  A plugin whose manifest names a file that is missing is
\* listed as invalid; what was loaded of it before stays in the catalogue.  The models of
\* the zoo are in it if the caller gave them.
Status(d, p) ==
    IF "manifest" \notin d[p] THEN "missing" ELSE IF d[p] = Files THEN "active" ELSE "invalid"
Offers(d, p, zoo) ==
    (IF zoo /\ p \in WithZoo /\ "manifest" \in d[p] THEN {ZooModel} ELSE {})
        \cup (IF {"manifest", "models"} \subseteq d[p] THEN {Model} ELSE {})
        \cup (IF d[p] = Files THEN {p} ELSE {})
Offering(d, c, zoo) == {p \in Plugins : c \in Offers(d, p, zoo)}

\* Of several components with one key sync_plugin_catalog_to_db takes the first.
Load(d, zoo) ==
    [plugins |-> [p \in Plugins |-> Status(d, p)],
     components |-> [c \in Components |->
         {p \in Offering(d, c, zoo) : p = Min(Offering(d, c, zoo))}]]

\* Rows are functions of the keys that have one; in them, a component that no plugin
\* offers is missing.
NoRows == [plugins |-> <<>>, components |-> <<>>]
Idle == [at |-> "ready", plugin |-> 0, bundle |-> {}, loaded |-> NoRows]

Init ==
    /\ disk = [p \in Plugins |-> IF p \in Shipped THEN Files ELSE {}]
    /\ cache = {} /\ rows = NoRows
    /\ syncing = FALSE /\ recent = FALSE
    /\ req = [r \in Requests |-> Idle] /\ faults = 0

Goto(r, at) == req' = [req EXCEPT ![r].at = at]
End(r) == req' = [req EXCEPT ![r] = Idle]

-----------------------------------------------------------------------------
\* load_registry_bundle, with the zoo.  The cache is also emptied when mounts are saved.
Bundle == IF cache = {} THEN {Load(disk, TRUE)} ELSE cache

Expire ==
    /\ cache # {} /\ cache' = {}
    /\ UNCHANGED <<disk, rows, syncing, recent, req, faults>>

MinutePasses ==
    /\ recent /\ recent' = FALSE
    /\ UNCHANGED <<disk, cache, rows, syncing, req, faults>>

\* get_registry_bundle: one request at a time mirrors, and not too often (unless a
\* save of sources forces it).
Look(r) ==
    /\ r \in Lookers /\ req[r].at = "ready"
    /\ cache' = Bundle
    /\ \/ (syncing \/ recent) /\ UNCHANGED <<syncing, req>>
       \/ /\ ~syncing
          /\ syncing' = TRUE
          /\ req' = [req EXCEPT ![r].at = "write", ![r].bundle = Bundle, ![r].loaded = rows]
    /\ UNCHANGED <<disk, rows, recent, faults>>

-----------------------------------------------------------------------------
\* (slip: rows that are found are not brought up to date)
EnterNewOnly(new, was, missing) ==
    [k \in DOMAIN was \cup {q \in DOMAIN new : new[q] # missing} |->
        IF k \in DOMAIN was THEN was[k] ELSE new[k]]

\* sync_plugin_catalog_to_db.  The session reads the rows first; what the bundle
\* has is entered or brought up to date, and other rows are marked missing.
Enter(new, was, missing) ==
    [k \in DOMAIN was \cup {q \in DOMAIN new : new[q] # missing} |-> new[k]]

\* Its commit writes what it changed over what others committed meanwhile; a row
\* that another session entered first breaks a unique constraint.
Changed(new, was) == {k \in DOMAIN new : k \notin DOMAIN was \/ new[k] # was[k]}
Twice(now, was, new) == (DOMAIN new \ DOMAIN was) \cap DOMAIN now # {}
Over(now, was, new) ==
    [k \in DOMAIN now \cup DOMAIN new |-> IF k \in Changed(new, was) THEN new[k] ELSE now[k]]

Sync(r) ==
    LET was == req[r].loaded
        bundle == CHOOSE b \in req[r].bundle : TRUE
        plugins == Enter(bundle.plugins, was.plugins, "missing")
        components == Enter(bundle.components, was.components, {})
    IN  IF \/ Twice(rows.plugins, was.plugins, plugins)
           \/ Twice(rows.components, was.components, components)
        THEN NoRows
        ELSE [plugins |-> Over(rows.plugins, was.plugins, plugins),
              components |-> Over(rows.components, was.components, components)]

\* The end of get_registry_bundle: the interval starts again only after a success,
\* and the caller does not learn of a failure.
Mirror(r) ==
    /\ r \in Lookers /\ req[r].at = "write"
    /\ IF Sync(r) = NoRows THEN UNCHANGED <<rows, recent>>
       ELSE rows' = Sync(r) /\ recent' = TRUE
    /\ syncing' = FALSE
    /\ End(r)
    /\ UNCHANGED <<disk, cache, faults>>

-----------------------------------------------------------------------------
\* install_repo_connector_plugin: a directory that has a manifest is taken for
\* installed; otherwise the plugin is downloaded, tried in a directory of its own,
\* and takes the place of whatever is there.
Install(r) ==
    /\ r \in Installers /\ req[r].at = "ready"
    /\ \E p \in Plugins :
           req' = [req EXCEPT ![r].plugin = p,
                              ![r].at = IF "manifest" \in disk[p] THEN "load" ELSE "clear"]
    /\ UNCHANGED <<disk, cache, rows, syncing, recent, faults>>

Clear(r) ==
    /\ req[r].at = "clear"
    /\ disk' = [disk EXCEPT ![req[r].plugin] = {}]
    /\ Goto(r, "copy")
    /\ UNCHANGED <<cache, rows, syncing, recent, faults>>

\* copytree, in any order.
Copy(r) ==
    /\ req[r].at = "copy"
    /\ \E f \in Files \ disk[req[r].plugin] :
           /\ disk' = [disk EXCEPT ![req[r].plugin] = @ \cup {f}]
           /\ Goto(r, IF disk'[req[r].plugin] = Files THEN "load" ELSE "copy")
    /\ UNCHANGED <<cache, rows, syncing, recent, faults>>

\* install_repo_connector_zoo_entry mirrors what is on disk, not what is cached, and without
\* the zoo: its models are marked missing.
LoadAgain(r) ==
    /\ req[r].at = "load"
    /\ req' = [req EXCEPT ![r].at = "mirror", ![r].bundle = {Load(disk, FALSE)}, ![r].loaded = rows]
    /\ UNCHANGED <<disk, cache, rows, syncing, recent, faults>>

MirrorInstall(r) ==
    /\ req[r].at = "mirror"
    /\ rows' = IF Sync(r) = NoRows THEN rows ELSE Sync(r)
    /\ End(r)
    /\ UNCHANGED <<disk, cache, syncing, recent, faults>>

\* A download or a copy that fails; the process that dies.
Fault == faults < MaxFaults /\ faults' = faults + 1

FailInstall(r) ==
    /\ Fault
    /\ req[r].at \in {"clear", "copy"}
    /\ End(r)
    /\ UNCHANGED <<disk, cache, rows, syncing, recent>>

Crash ==
    /\ Fault
    /\ cache' = {} /\ syncing' = FALSE /\ recent' = FALSE
    /\ req' = [r \in Requests |-> Idle]
    /\ UNCHANGED <<disk, rows>>

Next ==
    \/ Expire \/ MinutePasses \/ Crash
    \/ \E r \in Lookers : Look(r) \/ Mirror(r)
    \/ \E r \in Installers :
           Install(r) \/ Clear(r) \/ Copy(r) \/ LoadAgain(r) \/ MirrorInstall(r) \/ FailInstall(r)

Spec == Init /\ [][Next]_catalogVars

-----------------------------------------------------------------------------
\* The rows agree with a bundle: what it has is offered, what it has not is missing.
AgreeWith(bundle) ==
    /\ \A p \in Plugins : IF p \in DOMAIN rows.plugins
                          THEN rows.plugins[p] = bundle.plugins[p]
                          ELSE bundle.plugins[p] = "missing"
    /\ \A c \in Components : IF c \in DOMAIN rows.components
                             THEN rows.components[c] = bundle.components[c]
                             ELSE bundle.components[c] = {}
Agree(r) == AgreeWith(Load(disk, r \in Lookers))

\* The mirror heals.  A stale bundle marks the plugin missing that was installed a
\* moment ago, an installation does so to the models of the zoo, and a sync may write only
\* half of what it meant over another one; but whoever mirrors what it reads from the disk
\* as it is, and is not overtaken, makes the rows agree with it, whatever they were: a
\* reader of the bundle all of them, an installation all but the zoo's.
SyncHeals ==
    [][\A r \in Requests :
          (/\ req[r].at \in {"write", "mirror"} /\ req'[r] = Idle /\ faults' = faults
           /\ req[r].loaded = rows /\ req[r].bundle = {Load(disk, r \in Lookers)})
              => Agree(r)']_catalogVars
=============================================================================
