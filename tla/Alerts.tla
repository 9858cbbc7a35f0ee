------------------------------- MODULE Alerts -------------------------------
(***************************************************************************)
(* The trigger rules and connector endpoints an operator saves             *)
(* (webapp/routes/external_routes.py, shared/utils/connector_endpoints.py),*)
(* the alerts and incidents the database worker raises from them           *)
(* (shared/database/database_worker.py), and the threads that deliver      *)
(* those to the connectors (shared/utils/telegram_notifications.py and its *)
(* siblings).                                                              *)
(*                                                                         *)
(* A request reads its rows in one step and commits in another; SQLAlchemy *)
(* writes only the columns it changed.  The worker has one database        *)
(* session per batch.  A delivery thread is handed rows of that session:   *)
(* each commit of the worker expires them, and once the session is closed  *)
(* an expired row cannot be read.                                          *)
(***************************************************************************)
EXTENDS Naturals, FiniteSets, FiniteSetsExt, SequencesExt

CONSTANTS Requests,   \* handler threads
          SourceIds, Kinds,   \* input sources; connector keys
          OldRules, OldEndpoints,        \* rows saved before
          RuleEntries, EndpointEntries,  \* what a client may enter
          None, Mask,
          MaxRules, MaxEndpoints, MaxSaves, MaxBatches  \* bounds: rows and saves ever made, batches of the worker

ASSUME AlertsAssumption ==
    /\ SourceIds \subseteq Nat \ {0}
    /\ None # Mask
    /\ MaxRules \in Nat /\ MaxEndpoints \in Nat /\ MaxSaves \in Nat /\ MaxBatches \in Nat

VARIABLES sources,    \* ids of the live rows of input_source_template
          endpoints,  \* rows of connector_endpoint, by id
          rules,      \* rows of trigger_rule, by id
          req,        \* what each handler has read
          saves,      \* how many saves were begun
          healed,     \* no requests overlapped since an undisturbed save of the sources
          worker,     \* the batch in hand
          raised,     \* dedupe keys of the alerts of the run
          batches,    \* how many batches were begun
          threads     \* the delivery threads, in the order of their start

apiVars == <<sources, endpoints, rules, req, saves, healed>>
workerVars == <<worker, raised, batches>>
vars == <<apiVars, workerVars, threads>>

RuleIds == 1..MaxRules
EndpointIds == 1..MaxEndpoints
Idle == [op |-> "idle"]
Busy(r) == req[r].op # "idle"
Quiet == \A r \in Requests : ~Busy(r)

Rule == [trigger : {"alert", "event"}, template : SourceIds \cup {None}, ids : SUBSET SourceIds,
         targets : {None} \cup SUBSET EndpointIds, enabled : BOOLEAN, live : BOOLEAN]
LiveIn(rows) == {i \in DOMAIN rows : rows[i].live}

Secrets == {e.config.secret : e \in EndpointEntries \cup Range(OldEndpoints)} \ {None, Mask}
Addresses == {e.config.address : e \in EndpointEntries \cup Range(OldEndpoints)}

EndpointRow == [kind : Kinds, enabled : BOOLEAN, live : BOOLEAN,
                config : [secret : Secrets \cup {None}, address : Addresses]]

\* The mask is never a stored secret, and no list of targets is none.
ASSUME RowsAssumption ==
    /\ OldRules \in Seq(Rule) /\ Len(OldRules) <= MaxRules
    /\ OldEndpoints \in Seq(EndpointRow) /\ Len(OldEndpoints) <= MaxEndpoints
    /\ RuleEntries \subseteq [trigger : {"alert", "event"}, ids : SUBSET SourceIds,
                              targets : SUBSET EndpointIds, enabled : BOOLEAN]
    /\ EndpointEntries \subseteq [kind : Kinds, enabled : BOOLEAN,
                                  config : [secret : Secrets \cup {None, Mask}, address : Addresses]]
    /\ IsFiniteSet(Kinds) /\ \A targets \in SUBSET EndpointIds : targets # None

\* The sources a rule fires for: the list when there is one, else the template.
Fires(rule) == IF rule.ids # {} THEN rule.ids ELSE {rule.template} \ {None}

Init ==
    /\ sources = SourceIds /\ endpoints = OldEndpoints /\ rules = OldRules
    /\ req = [r \in Requests |-> Idle]
    /\ saves = 0 /\ healed = TRUE
    /\ worker = [pc |-> "idle"] /\ raised = {} /\ batches = 0
    /\ threads = <<>>
-----------------------------------------------------------------------------
\* The columns a request changed, over what the row holds by now.
Written(row, read, new) == [f \in DOMAIN row |-> IF new[f] = read[f] THEN row[f] ELSE new[f]]

\* Every replace_ handler: a listed row that was read is written to, another one
\* is inserted anew, and what was read and not listed is deleted.
Replaced(rows, q) ==
    LET stale == SetToSeq(DOMAIN q.list \ DOMAIN q.read)
    IN  [i \in DOMAIN rows |->
            CASE i \notin DOMAIN q.read -> rows[i]
              [] i \in DOMAIN q.read \cap DOMAIN q.list -> Written(rows[i], q.read[i], q.list[i])
              [] OTHER -> [rows[i] EXCEPT !.live = FALSE]]
        \o [k \in DOMAIN stale |-> q.list[stale[k]]] \o q.new

Begin(r, q) ==
    /\ ~Busy(r) /\ saves < MaxSaves
    /\ saves' = saves + 1
    /\ req' = [req EXCEPT ![r] = q]
    /\ healed' = (healed /\ Quiet)
    /\ UNCHANGED <<sources, endpoints, rules, workerVars, threads>>

\* A rule as the trigger-rules page shows it, and as that handler stores it.
RuleShown(i) == [trigger |-> rules[i].trigger, ids |-> Fires(rules[i]), enabled |-> rules[i].enabled,
                 targets |-> IF rules[i].targets = None THEN {} ELSE rules[i].targets]
RuleStored(e) == [trigger |-> e.trigger, template |-> IF e.ids = {} THEN None ELSE Min(e.ids),
                  ids |-> e.ids, targets |-> e.targets, enabled |-> e.enabled, live |-> TRUE]

Selectable == {i \in LiveIn(endpoints) : endpoints[i].enabled}

\* PUT /settings/trigger-rules: only rules of the alert trigger are validated.
OpenTriggerRules(r, list, new) ==
    /\ \A e \in Range(list) \cup Range(new) :
          e.trigger = "alert" => e.ids # {} /\ e.ids \subseteq sources /\ e.targets \subseteq Selectable
    /\ Begin(r, [op |-> "rules", read |-> [i \in LiveIn(rules) |-> rules[i]],
                 list |-> [i \in DOMAIN list |-> RuleStored(list[i])],
                 new |-> [k \in DOMAIN new |-> RuleStored(new[k])]])

\* PUT /settings/alert-rules: one source each, no targets, and the list of sources
\* is left as it was.
OpenAlertRules(r, list, new) ==
    LET known == {i \in LiveIn(rules) : rules[i].trigger = "alert"}
        Stored(e, ids) == [trigger |-> "alert", template |-> e.template, ids |-> ids, targets |-> None,
                           enabled |-> e.enabled, live |-> TRUE]
    IN  /\ \A e \in Range(list) \cup Range(new) : e.template \in sources
        /\ Begin(r, [op |-> "rules", read |-> [i \in known |-> rules[i]],
                     list |-> [i \in DOMAIN list |->
                        Stored(list[i], IF i \in known THEN rules[i].ids ELSE {})],
                     new |-> [k \in DOMAIN new |-> Stored(new[k], {})]])

CommitRules(r) ==
    /\ req[r].op = "rules"
    /\ rules' = Replaced(rules, req[r])
    /\ Len(rules') <= MaxRules
    /\ req' = [req EXCEPT ![r] = Idle]
    /\ UNCHANGED <<sources, endpoints, saves, healed, workerVars, threads>>

\* (slip: only the mask keeps the stored secret, an empty field clears it)
MergeMaskOnly(stored, entered) ==
    [secret |-> IF entered.secret = Mask THEN stored.secret ELSE entered.secret,
     address |-> entered.address]
\* merge_connector_endpoint_secret_config: the mask or nothing keeps the secret.
MergeSecret(stored, entered) ==
    [secret |-> IF entered.secret \in {None, Mask} THEN stored.secret ELSE entered.secret,
     address |-> entered.address]
Blank == [secret |-> None, address |-> None]

\* An endpoint as its page shows it.
EndpointShown(i) == [kind |-> endpoints[i].kind, enabled |-> endpoints[i].enabled,
    config |-> [address |-> endpoints[i].config.address,
                secret |-> IF endpoints[i].config.secret = None THEN None ELSE Mask]]

\* PUT of the endpoints of one kind or (None) of all.
OpenEndpoints(r, kind, list, new) ==
    LET known == {i \in LiveIn(endpoints) : kind \in {None, endpoints[i].kind}}
        Stored(e, config) == [kind |-> e.kind, enabled |-> e.enabled, live |-> TRUE,
                              config |-> MergeSecret(config, e.config)]
    IN  /\ \A e \in Range(list) \cup Range(new) : kind \in {None, e.kind}
        /\ Begin(r, [op |-> "endpoints", entered |-> [i \in DOMAIN list |-> list[i].config.secret],
                     read |-> [i \in known |-> endpoints[i]],
                     list |-> [i \in DOMAIN list |->
                        Stored(list[i], IF i \in known THEN endpoints[i].config ELSE Blank)],
                     new |-> [k \in DOMAIN new |-> Stored(new[k], Blank)]])

CommitEndpoints(r) ==
    /\ req[r].op = "endpoints"
    /\ endpoints' = Replaced(endpoints, req[r])
    /\ Len(endpoints') <= MaxEndpoints
    /\ req' = [req EXCEPT ![r] = Idle]
    /\ UNCHANGED <<sources, rules, saves, healed, workerVars, threads>>

\* (slip: a rule is deleted only when all its sources are gone)
DeadOnly(rule, live) == Fires(rule) # {} /\ Fires(rule) \cap live = {}
\* A rule that names a source which is gone.
Dangling(rule, live) == ~(Fires(rule) \subseteq live)

\* A save of the sources (Sources has its steps) commits them with the rules it
\* deletes; the sources that are left are told apart, those added are not.
SaveSources(left) ==
    /\ saves < MaxSaves
    /\ saves' = saves + 1
    /\ sources' = left
    /\ rules' = [i \in DOMAIN rules |->
            IF Dangling(rules[i], left) THEN [rules[i] EXCEPT !.live = FALSE] ELSE rules[i]]
    /\ healed' = Quiet
    /\ UNCHANGED <<endpoints, req, workerVars, threads>>
-----------------------------------------------------------------------------
Matching(trigger, source) ==
    {i \in LiveIn(rules) : /\ rules[i].trigger = trigger /\ rules[i].enabled
                           /\ IF source = None THEN Fires(rules[i]) = {} ELSE source \in Fires(rules[i])}

\* A batch opens a session: a track seen by a source, or an event of its own.
Track(source) ==
    /\ worker.pc = "idle" /\ batches < MaxBatches
    /\ worker' = [pc |-> "rules", source |-> source, todo |-> Matching("alert", source)]
    /\ batches' = batches + 1
    /\ UNCHANGED <<apiVars, raised, threads>>

\* The rows its session holds expire with every commit.
Expired == [t \in DOMAIN threads |->
    IF threads[t].attached THEN [threads[t] EXCEPT !.fresh = {}, !.touched = TRUE] ELSE threads[t]]

\* create_alert_incident commits a new alert, unless its dedupe key is known.
RaiseAlert ==
    /\ worker.pc = "rules" /\ worker.todo # {}
    /\ LET rule == Min(worker.todo)
           key == <<rule, worker.source>>
       IN  IF key \in raised
           THEN /\ worker' = [worker EXCEPT !.todo = @ \ {rule}]
                /\ UNCHANGED <<raised, threads>>
           ELSE /\ raised' = raised \cup {key}
                /\ worker' = [worker EXCEPT !.pc = "queue"]
                /\ threads' = Expired
    /\ UNCHANGED <<apiVars, batches>>

\* An incident of its own is committed: an anomaly, one with a trigger of its own
\* (loitering, an unattended bag), or another.
RaiseEvent(source, kind) ==
    /\ worker.pc = "idle" /\ batches < MaxBatches
    /\ worker' = [pc |-> "event", source |-> source, kind |-> kind]
    /\ batches' = batches + 1
    /\ UNCHANGED <<apiVars, raised, threads>>

Explicit(matching) == {i \in matching : rules[i].targets # None}
TargetsOf(matching) == UNION {rules[i].targets : i \in Explicit(matching)}

\* (slip: an empty list of targets is no list)
TriggerTargetsOrAll(matching) ==
    IF TargetsOf(matching) = {} THEN None ELSE TargetsOf(matching)
\* resolve_trigger_delivery_target_ids
TriggerTargets(matching) ==
    IF Explicit(matching) = {} THEN None ELSE TargetsOf(matching)
\* resolve_source_delivery_target_ids
SourceTargets(source) ==
    LET targets == TargetsOf(Matching("alert", source) \cup Matching("event", source))
    IN  IF source = None \/ targets = {} THEN None ELSE targets

\* queue_trigger_notifications: the rows are read, which refreshes those a thread
\* of this session holds, and each kind that has one gets a thread.
Queue(targets) ==
    LET rows == {e \in Selectable : targets = None \/ e \in targets}
        Of(kind) == {e \in rows : endpoints[e].kind = kind}
        refreshed == [t \in DOMAIN threads |->
            IF threads[t].attached
            THEN [threads[t] EXCEPT !.fresh = @ \cup (threads[t].rows \cap Selectable)] ELSE threads[t]]
        started == SetToSeq({kind \in Kinds : Of(kind) # {}})
    IN  threads' = refreshed \o [k \in DOMAIN started |->
            [rows |-> Of(started[k]), todo |-> Of(started[k]), fresh |-> Of(started[k]),
             attached |-> TRUE, touched |-> FALSE, done |-> FALSE]]

\* The rule is read again, also one that was deleted meanwhile.
QueueAlert ==
    /\ worker.pc = "queue"
    /\ Queue(rules[Min(worker.todo)].targets)
    /\ worker' = [worker EXCEPT !.pc = "rules", !.todo = @ \ {Min(@)}]
    /\ UNCHANGED <<apiVars, raised, batches>>

\* An anomaly falls back on the targets of all rules of its source, and may raise
\* alerts of its own.
QueueEvent ==
    /\ worker.pc = "event"
    /\ LET own == TriggerTargets(Matching("event", worker.source))
       IN  Queue(CASE worker.kind = "other" -> None
                   [] worker.kind = "anomaly" /\ own = None -> SourceTargets(worker.source)
                   [] OTHER -> own)
    /\ worker' = IF worker.kind = "anomaly"
                 THEN [pc |-> "rules", source |-> worker.source,
                       todo |-> Matching("alert", worker.source)]
                 ELSE [pc |-> "rest"]
    /\ UNCHANGED <<apiVars, raised, batches>>

\* What the batch has left is written: the instance of the track, model logs.
WriteRest ==
    /\ worker.pc = "rest" \/ (worker.pc = "rules" /\ worker.todo = {})
    /\ worker' = [pc |-> "close"]
    /\ threads' = Expired
    /\ UNCHANGED <<apiVars, raised, batches>>

\* The last batch may end without another commit.
CloseSession ==
    /\ worker.pc \in {"rest", "close"}
    /\ worker' = [pc |-> "idle"]
    /\ threads' = [t \in DOMAIN threads |-> [threads[t] EXCEPT !.attached = FALSE]]
    /\ UNCHANGED <<apiVars, raised, batches>>
-----------------------------------------------------------------------------
\* The rows come in the order of their ids.  One is read and sent to, with its
\* retries; a refusal is logged and the next row follows.  An expired row is loaded
\* again, on the worker's session.
Deliver(t) ==
    /\ ~threads[t].done /\ threads[t].todo # {}
    /\ threads[t].attached \/ Min(threads[t].todo) \in threads[t].fresh
    /\ threads' = [threads EXCEPT ![t].todo = @ \ {Min(@)}]
    /\ UNCHANGED <<apiVars, workerVars>>

Ended(thread) == [thread EXCEPT !.done = TRUE, !.attached = FALSE, !.fresh = {}]

\* Reading an expired row raises when its session is closed, or in use by the
\* worker; that is outside the loop's handler and ends the thread.
LoseRow(t) ==
    /\ ~threads[t].done /\ threads[t].todo # {}
    /\ Min(threads[t].todo) \notin threads[t].fresh
    /\ threads' = [threads EXCEPT ![t] = Ended(@)]
    /\ UNCHANGED <<apiVars, workerVars>>

EndThread(t) ==
    /\ ~threads[t].done /\ threads[t].todo = {}
    /\ threads' = [threads EXCEPT ![t] = Ended(@)]
    /\ UNCHANGED <<apiVars, workerVars>>
-----------------------------------------------------------------------------
\* What a client sends: a page of the rows ever made, that may be stale, with some
\* left out, one edited, or one entry more.
Pages(page, entries) ==
    {<<[i \in keep |-> page[i]], <<>>>> : keep \in SUBSET DOMAIN page}
    \cup {<<page, <<e>>>> : e \in entries}
    \cup {<<[page EXCEPT ![i] = e], <<>>>> : i \in DOMAIN page, e \in entries}

RulePage == [i \in DOMAIN rules |-> RuleShown(i)]
AlertPage == [i \in DOMAIN rules |-> [template |-> rules[i].template, enabled |-> rules[i].enabled]]
EndpointPage == [i \in DOMAIN endpoints |-> EndpointShown(i)]
AlertEntries == [template : SourceIds, enabled : {TRUE}]

Request(r) ==
    \/ \E page \in Pages(RulePage, RuleEntries) : OpenTriggerRules(r, page[1], page[2])
    \/ \E page \in Pages(AlertPage, AlertEntries) : OpenAlertRules(r, page[1], page[2])
    \/ \E kind \in Kinds \cup {None}, page \in Pages(EndpointPage, EndpointEntries) :
          OpenEndpoints(r, kind, page[1], page[2])
    \/ CommitRules(r) \/ CommitEndpoints(r)

Worker ==
    \/ \E source \in SourceIds : Track(source)
    \/ \E source \in SourceIds \cup {None}, kind \in {"anomaly", "timed", "other"} :
          RaiseEvent(source, kind)
    \/ RaiseAlert \/ QueueAlert \/ QueueEvent \/ WriteRest \/ CloseSession

Notifier(t) == Deliver(t) \/ LoseRow(t) \/ EndThread(t)

Next ==
    \/ \E r \in Requests : Request(r)
    \/ \E left \in SUBSET sources : SaveSources(left)
    \/ Worker
    \/ \E t \in DOMAIN threads : Notifier(t)

Spec == Init /\ [][Next]_vars
-----------------------------------------------------------------------------
AlertsTypes ==
    /\ sources \subseteq SourceIds
    /\ endpoints \in Seq(EndpointRow) /\ rules \in Seq(Rule)
    /\ Len(endpoints) <= MaxEndpoints /\ Len(rules) <= MaxRules
    /\ saves \in 0..MaxSaves /\ batches \in 0..MaxBatches /\ healed \in BOOLEAN
    /\ raised \subseteq RuleIds \X (SourceIds \cup {None})

(***************************************************************************)
(* Once the sources were saved undisturbed, and until requests overlap     *)
(* again, no alert rule fires for a source that is gone, whichever of the  *)
(* two rule pages last wrote it (replace_sources deletes by the sources a  *)
(* rule fires for; the two pages validate against the sources they read).  *)
(***************************************************************************)
RulesHeal ==
    /\ AlertsTypes
    /\ healed /\ Quiet =>
          \A i \in LiveIn(rules) : rules[i].trigger = "alert" => Fires(rules[i]) \subseteq sources

(***************************************************************************)
(* The mask a page shows in place of a secret is never stored, and a save  *)
(* that enters no new secret for an endpoint leaves its secret alone,      *)
(* unless another request wrote the endpoint since this one had read it.   *)
(***************************************************************************)
SecretSurvives ==
    [][/\ \A i \in DOMAIN endpoints' : endpoints'[i].config.secret # Mask
       /\ \A i \in DOMAIN endpoints :
            endpoints'[i].config.secret # endpoints[i].config.secret =>
              \E r \in Requests :
                 /\ Busy(r) /\ ~Busy(r)'
                 /\ \/ req[r].entered[i] = endpoints'[i].config.secret /\ req[r].entered[i] # None
                    \/ req[r].read[i] # endpoints[i]]_vars

\* The rules behind what the worker is about to notify of.
Fired == CASE worker.pc = "queue" -> {Min(worker.todo)}
           [] worker.pc = "event" /\ worker.kind # "other" -> Matching("event", worker.source)
           [] OTHER -> {}

(***************************************************************************)
(* docs/demo_trigger_connectors.md:113 "an empty list means no connector   *)
(* is selected": when a rule of the trigger has its connectors chosen, be  *)
(* it none, what fires reaches none but those chosen, and never one that   *)
(* is disabled or deleted by then.                                         *)
(***************************************************************************)
ChosenConnectorsOnly ==
    [][\A t \in DOMAIN threads' \ DOMAIN threads : \A e \in threads'[t].rows :
          LET fired == {i \in Fired : rules[i].targets # None}
          IN  /\ endpoints[e].live /\ endpoints[e].enabled
              /\ fired # {} => \E i \in fired : e \in rules[i].targets]_vars

(***************************************************************************)
(* A delivery thread ends without having tried all its connectors only if  *)
(* the worker wrote to its session after it had handed the rows over: no   *)
(* connector that refuses keeps the others from being tried.               *)
(***************************************************************************)
NoSilentLoss == \A t \in DOMAIN threads :
    threads[t].done /\ threads[t].todo # {} => threads[t].touched

\* What fires reaches the connectors that were chosen, and each of them is tried.
DeliveredAsChosen == ChosenConnectorsOnly /\ []NoSilentLoss
=============================================================================
