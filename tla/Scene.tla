------------------------------- MODULE Scene -------------------------------
(***************************************************************************)
(* The association worker's picture of the scene: who is there under which *)
(* id, whose bag is whose, which bags stand alone, who holds a gun, and    *)
(* the maps from persons and bags to incidents (association/               *)
(* manager_classes.py, object_classes.py, the loop of association/main.py).*)
(*                                                                         *)
(* Persons and bags are objects shared by the managers.  An object is named *)
(* by the id it was made under, which its `data` keeps; its `id` attribute *)
(* changes when a temporary one is promoted.  The phases of a frame are    *)
(* actions of their own: the output thread reads the incidents meanwhile.  *)
(* Every KeyError ends the thread, as nothing in the loop catches it.      *)
(***************************************************************************)
EXTENDS ReidIds

CONSTANTS None,
          OwnerThreshold,  \* association_threshold, in frames nearby
          GunThreshold,    \* threat_threshold, in frames with a gun
          UnattendedTime,  \* unattended_time, in frames
          MaxIncidents     \* bound: incidents raised

ASSUME SceneAssumption ==
    /\ OwnerThreshold \in Nat /\ GunThreshold \in Nat /\ UnattendedTime \in Nat
    /\ MaxIncidents \in Nat
    /\ TempPersons \cap RealPersons = {} /\ TempBags \cap RealBags = {}
    /\ PersonIds \cap BagIds = {} /\ None \notin PersonIds \cup BagIds

VARIABLES pc,          \* the phase of the loop, or "dead"
          history,     \* of "lost" frames, "renamed" objects, "twice" resolved incidents
          persons, tempPersons, tempToId, idGuesses,   \* PersonManager
          threat,      \* gun_threat of each person object
          bags, tempBags, bag,    \* BagManager; the bag objects
          incident,    \* every Incident raised
          managed,     \* IncidentManager.incidents
          personIncidents, incidentPersons, bagIncident,   \* its maps
          fresh,       \* how many new_incidents this frame has
          output, outputDead      \* the output thread

personVars == <<persons, tempPersons, tempToId, idGuesses>>
storeVars == <<bags, tempBags>>
mapVars == <<managed, personIncidents, incidentPersons, bagIncident>>
outputVars == <<output, outputDead>>
vars == <<reidVars, pc, history, personVars, threat, storeVars, bag, incident, fresh,
          mapVars, outputVars>>

Ids == 1..MaxIncidents
Capped(n, top) == IF n > top THEN top ELSE n

\* Scores and times saturate just past the limit they are compared with; times
\* are ages, in frames.  The cameras of an object are the one of this frame.
Bag == [owner : PersonIds \cup {None}, owners : SUBSET PersonIds,
        scores : [PersonIds -> 0..OwnerThreshold + 1],
        alone : 0..UnattendedTime + 1,   \* since last_time_attended
        gone : 0..UnattendedTime + 1,    \* since data.last_timestamp
        unattended : BOOLEAN, hits : 0..2, firstCheck : BOOLEAN]
NewBag == [owner |-> None, owners |-> {}, scores |-> [p \in PersonIds |-> 0],
           alone |-> 0, gone |-> 0, unattended |-> FALSE, hits |-> 0, firstCheck |-> FALSE]

\* people, bag: the entities; roles: the ids their roles are filed under;
\* confirmed: an operator moved the status from UNCONFIRMED.
Incident == [kind : {"GUN", "BAG"}, bag : BagIds \cup {None}, people : SUBSET PersonIds,
             roles : SUBSET (PersonIds \cup BagIds), resolved : BOOLEAN, confirmed : BOOLEAN]

SceneTypes ==
    /\ wire \in Frame \cup {NoFrame}
    /\ pc \in {"fetch", "bags", "owners", "unattended", "guns", "incidents", "ids", "dead"}
    /\ history \subseteq {"lost", "renamed", "twice"}
    /\ persons \in Partial(RealPersons, PersonIds) /\ tempPersons \subseteq TempPersons
    /\ tempToId \in Partial(TempPersons, RealPersons)
    /\ idGuesses \in Partial(TempPersons, RealPersons)
    /\ threat \in [PersonIds -> 0..GunThreshold + 1]
    /\ bags \in Partial(RealBags, BagIds) /\ tempBags \subseteq TempBags
    /\ bag \in [BagIds -> Bag]
    /\ incident \in Seq(Incident) /\ Len(incident) <= MaxIncidents
    /\ managed \subseteq DOMAIN incident /\ fresh \in 0..Len(incident)
    /\ personIncidents \in [PersonIds -> SUBSET Ids]
    /\ incidentPersons \in [managed -> (SUBSET PersonIds) \ {{}}]
    /\ bagIncident \in Partial(BagIds, Ids)
    /\ output \in Seq(Ids) /\ outputDead \in BOOLEAN

Init ==
    /\ ReidInit
    /\ pc = "fetch" /\ history = {}
    /\ persons = <<>> /\ tempPersons = {} /\ tempToId = <<>> /\ idGuesses = <<>>
    /\ threat = [p \in PersonIds |-> 0]
    /\ bags = <<>> /\ tempBags = {} /\ bag = [b \in BagIds |-> NewBag]
    /\ incident = <<>> /\ managed = {} /\ fresh = 0
    /\ personIncidents = [p \in PersonIds |-> {}]
    /\ incidentPersons = <<>> /\ bagIncident = <<>>
    /\ output = <<>> /\ outputDead = FALSE

-----------------------------------------------------------------------------
\* The object an id names (PersonManager.__call__), and the id attribute of one.
KnownPerson(id) == id \in tempPersons \cup DOMAIN persons
PersonOf(id) == IF id \in TempPersons THEN id ELSE persons[id]
BagOf(id) == IF id \in TempBags THEN id ELSE bags[id]
IdIn(store, object) ==
    IF object \in Range(store) THEN CHOOSE id \in DOMAIN store : store[id] = object
    ELSE object
PersonId(p) == IdIn(persons, p)
BagId(b) == IdIn(bags, b)

Visible == DOMAIN wire.persons
VisibleBags == {BagOf(id) : id \in DOMAIN wire.bags}
CamOfBag(b) == wire.bags[CHOOSE id \in DOMAIN wire.bags : BagOf(id) = b]
StandsWith(p, b) == wire.persons[p] = CamOfBag(b)

\* A permanent id not yet known takes over the object of one of the temporary
\* ids it replaces; the others are merged into it.
Heirs(store, updates) ==
    {h \in [Range(updates) \ DOMAIN store -> DOMAIN updates] :
        \A id \in DOMAIN h : updates[h[id]] = id}
Promoted(store, heir, tracks) ==
    Override(store, Override(heir, [id \in tracks |-> id]))
Absorbed(object, store, updates) == {t \in DOMAIN updates : t # object /\ store[updates[t]] = object}

\* A KeyError ends the thread.
Die(why) ==
    /\ pc' = "dead"
    /\ history' = history \cup why
    /\ UNCHANGED <<reidVars, personVars, threat, storeVars, bag, incident, fresh, mapVars, outputVars>>

\* A frame does not reach association when one of its messages is lost.
LoseFrame ==
    /\ pc = "fetch" /\ wire # NoFrame
    /\ wire' = NoFrame
    /\ history' = history \cup {"lost"}
    /\ UNCHANGED <<frames, seen, resolved, pc, personVars, threat, storeVars, bag, incident, fresh,
                   mapVars, outputVars>>

\* The loop ends when the output thread is found dead.
NoticeDeath == pc = "fetch" /\ outputDead /\ Die({})

\* PersonManager.update.  (gun_threat's decay, a tenth of the time, is left out.)
UpdatePersons ==
    /\ pc = "fetch" /\ wire # NoFrame /\ ~outputDead
    /\ DOMAIN wire.personUpdates \subseteq tempPersons
    /\ \E heir \in Heirs(persons, wire.personUpdates) :
           persons' = Promoted(persons, heir, Visible \cap RealPersons)
    /\ threat' = [p \in PersonIds |->
           LET merged == Absorbed(p, persons', wire.personUpdates) \cup {p}
           IN  Capped(SumFunctionOnSet(threat, merged), GunThreshold + 1)]
    /\ tempPersons' = (tempPersons \ DOMAIN wire.personUpdates) \cup (Visible \cap TempPersons)
    /\ tempToId' = Override(wire.personUpdates, tempToId)
    /\ idGuesses' = LET all == Override(wire.guesses, idGuesses)
                    IN  Restrict(all, DOMAIN all \ DOMAIN wire.personUpdates)
    /\ history' = IF wire.personUpdates = <<>> THEN history ELSE history \cup {"renamed"}
    /\ pc' = "bags"
    /\ UNCHANGED <<reidVars, storeVars, bag, incident, fresh, mapVars, outputVars>>

\* The temporary track was in a frame that never came.
UnknownPerson ==
    /\ pc = "fetch" /\ wire # NoFrame /\ ~outputDead
    /\ ~(DOMAIN wire.personUpdates \subseteq tempPersons)
    /\ Die({})

\* Bag.merge
Merge(b, other) ==
    LET hits == Capped(b.hits + other.hits, 2)
        scores == [p \in PersonIds |-> IF other.scores[p] > 0 THEN other.scores[p] ELSE b.scores[p]]
    IN  IF b.owner # None THEN [b EXCEPT !.hits = hits]
        ELSE IF other.owner = None THEN [b EXCEPT !.hits = hits, !.scores = scores]
        ELSE [other EXCEPT !.hits = hits, !.scores = scores,
                           !.gone = b.gone, !.firstCheck = b.firstCheck]

\* A bag with the others that turned out to be the same one merged into it.
MergedBag(old, b, others) == FoldSet(LAMBDA t, m : Merge(m, old[t]), old[b], others)

\* TrackedObject.update, and the time since the last frame
Seen(b) == [b EXCEPT !.gone = 0, !.hits = Capped(@ + 1, 2)]
Aged(b) == [b EXCEPT !.alone = Capped(@ + 1, UnattendedTime + 1),
                     !.gone = Capped(@ + 1, UnattendedTime + 1)]

\* BagManager.update.
UpdateBags ==
    /\ pc = "bags"
    /\ DOMAIN wire.bagUpdates \subseteq tempBags
    /\ \E heir \in Heirs(bags, wire.bagUpdates) :
           bags' = Promoted(bags, heir, DOMAIN wire.bags \cap RealBags)
    /\ LET old == [b \in BagIds |->
                      IF b \in tempBags \cup Range(bags) THEN Aged(bag[b]) ELSE bag[b]]
           merged(b) == MergedBag(old, b, Absorbed(b, bags', wire.bagUpdates))
           visible == {IF id \in TempBags THEN id ELSE bags'[id] : id \in DOMAIN wire.bags}
       IN  bag' = [b \in BagIds |-> IF b \in visible THEN Seen(merged(b)) ELSE merged(b)]
    /\ tempBags' = (tempBags \ DOMAIN wire.bagUpdates) \cup (DOMAIN wire.bags \cap TempBags)
    /\ history' = IF wire.bagUpdates = <<>> THEN history ELSE history \cup {"renamed"}
    /\ pc' = "owners"
    /\ UNCHANGED <<reidVars, personVars, threat, incident, fresh, mapVars, outputVars>>

UnknownBag ==
    /\ pc = "bags"
    /\ ~(DOMAIN wire.bagUpdates \subseteq tempBags)
    /\ Die({})

-----------------------------------------------------------------------------
\* get_new_bag_owners: what a bag without an owner may become, given the objects
\* in its radius.  A score past the threshold decides; else, once, the best of
\* the persons still known.
Best(scores, among) ==
    {p \in among : scores[p] > 0 /\ \A q \in among : scores[q] <= scores[p]}
Found(b, near) ==
    LET scores == [p \in PersonIds |->
                     Capped(b.scores[p] + (IF p \in near THEN 1 ELSE 0), OwnerThreshold + 1)]
        sure == {p \in Best(scores, PersonIds) : scores[p] > OwnerThreshold}
        checks == ~b.firstCheck /\ b.hits > 1
        likely == IF checks THEN Best(scores, {p \in PersonIds : KnownPerson(p)}) ELSE {}
        candidates == IF sure # {} THEN sure ELSE likely
        scored == [b EXCEPT !.scores = scores, !.firstCheck = @ \/ checks]
    IN  IF candidates = {} THEN {scored}
        ELSE {[scored EXCEPT !.owner = PersonOf(p), !.owners = {PersonOf(p)}] : p \in candidates}

\* get_person_array names persons by the id kept in their data, the one their
\* object was made under.
Around(b) == {PersonOf(p) : p \in {q \in Visible : StandsWith(q, b)}}
Ownerless == {b \in VisibleBags : bag[b].owner = None}

FindOwners ==
    /\ pc = "owners"
    /\ IF Visible = {} THEN UNCHANGED bag
       ELSE \E near \in [Ownerless -> SUBSET {p \in PersonIds : KnownPerson(p)}] :
              /\ \A b \in Ownerless : near[b] \subseteq Around(b)
              /\ \E found \in [Ownerless -> UNION {Found(bag[b], near[b]) : b \in Ownerless}] :
                    /\ \A b \in Ownerless : found[b] \in Found(bag[b], near[b])
                    /\ bag' = Override(found, bag)
    /\ pc' = "unattended"
    /\ UNCHANGED <<reidVars, history, personVars, threat, storeVars, incident, fresh, mapVars, outputVars>>

\* A person promoted since is looked up under the old id.
OldIdNearby ==
    /\ pc = "owners"
    /\ \E b \in Ownerless : \E p \in Around(b) : ~KnownPerson(p)
    /\ Die({})

-----------------------------------------------------------------------------
\* The maps of IncidentManager when incidents with these people are raised, all
\* at once by its update, and the entities as they are filed by their ids.
Raise(kind, b, people) ==
    [kind |-> kind, bag |-> b, people |-> people, resolved |-> FALSE, confirmed |-> FALSE,
     roles |-> {PersonId(p) : p \in people} \cup (IF b = None THEN {} ELSE {BagId(b)})]
Add(new) ==
    /\ Len(incident) + Cardinality(new) <= MaxIncidents
    /\ incident' = incident \o SetToSeq(new)
    /\ fresh' = fresh + Cardinality(new)

\* (slip: the bag stays unattended)
ForgottenBag(b) == [b EXCEPT !.alone = b.gone]
\* UnattendedBag.resolve
ResolvedBag(b) == [b EXCEPT !.alone = b.gone, !.unattended = FALSE]

\* get_new_unattended_bags.  The owner under a temporary id stands by his bag
\* under that very id; the scan of the bags ends with the first such bag.
HasTempOwner(b) == bag[b].owner # None /\ PersonId(bag[b].owner) \in TempPersons
TempOwnerStands(b) ==
    HasTempOwner(b) /\ PersonId(bag[b].owner) \in {p \in Visible : StandsWith(p, b)}
\* The owner under a real id, or someone guessed to be him.
Guess(p) == IF p \in DOMAIN idGuesses THEN idGuesses[p] ELSE p
Attended(b) ==
    IF bag[b].owner = None THEN TRUE
    ELSE ~HasTempOwner(b) /\ \E p \in Visible : Guess(p) = PersonId(bag[b].owner) /\ StandsWith(p, b)

\* The owner of a bag after the scan: one whose temporary id was replaced
\* gives way to the person of the permanent id.
Owner(b) ==
    LET id == PersonId(bag[b].owner)
    IN  IF HasTempOwner(b) /\ id \notin Visible /\ id \in DOMAIN tempToId
        THEN persons[tempToId[id]] ELSE bag[b].owner

Scanned(B) ==
    LET standing == {b \in B : TempOwnerStands(b)}
    IN  IF standing = {} THEN {[last |-> None, bags |-> B]}
        ELSE [last : standing, bags : SUBSET (B \ standing)]

ScanBags ==
    /\ pc = "unattended"
    /\ \E scan \in Scanned({b \in VisibleBags : bag[b].hits > 1}) :
        LET left == {b \in scan.bags : ~Attended(b) /\ bag[b].alone > UnattendedTime}
            raised == {b \in left : ~bag[b].unattended}
            back == {b \in scan.bags \ left : bag[b].unattended}
            ended == {bagIncident[BagId(b)] : b \in back}
        IN  /\ {BagId(b) : b \in back} \subseteq DOMAIN bagIncident
            /\ ended \subseteq managed
            /\ bag' = [b \in BagIds |->
                  IF b = scan.last THEN [bag[b] EXCEPT !.alone = 0]
                  ELSE IF b \notin scan.bags THEN bag[b]
                  ELSE IF b \in back THEN [ResolvedBag(bag[b]) EXCEPT !.owner = Owner(b)]
                  ELSE [bag[b] EXCEPT !.owner = Owner(b),
                                      !.alone = IF Attended(b) THEN 0 ELSE @,
                                      !.unattended = @ \/ b \in raised]]
            /\ bagIncident' = Restrict(bagIncident, DOMAIN bagIncident \ {BagId(b) : b \in back})
            /\ LET resolved1 == [i \in DOMAIN incident |->
                                   [incident[i] EXCEPT !.resolved = @ \/ i \in ended]]
                   new == {Raise("BAG", b, bag[b].owners) : b \in raised}
               IN  /\ Len(incident) + Cardinality(new) <= MaxIncidents
                   /\ incident' = resolved1 \o SetToSeq(new)
                   /\ fresh' = Cardinality(new)
    /\ pc' = "guns"
    /\ UNCHANGED <<reidVars, history, personVars, threat, storeVars, managed, personIncidents,
                   incidentPersons, outputVars>>

\* resolve_bag of a bag whose incident is filed under another id, or gone.
UnfiledBag ==
    /\ pc = "unattended"
    /\ \E scan \in Scanned({b \in VisibleBags : bag[b].hits > 1}) : \E b \in scan.bags :
           /\ bag[b].unattended
           /\ Attended(b) \/ bag[b].alone <= UnattendedTime
           /\ BagId(b) \in DOMAIN bagIncident => bagIncident[BagId(b)] \notin managed
    /\ Die({})

\* (slip: the person is looked up in the map of the incidents)
HasGunIncidentKey(id) ==
    id \in DOMAIN incidentPersons /\ \E i \in managed : incident[i].kind = "GUN"
\* get_new_gunmen: those a gun is seen with, unless they have such an incident.
HasGunIncident(id) ==
    \E i \in personIncidents[id] \cap managed : incident[i].kind = "GUN"
SeeGuns ==
    /\ pc = "guns"
    /\ LET armed == {PersonOf(p) : p \in {q \in wire.guns : ~HasGunIncident(q)}}
           now == [p \in PersonIds |->
                      Capped(threat[p] + (IF p \in armed THEN 1 ELSE 0), GunThreshold + 1)]
       IN  /\ threat' = now
           /\ Add({Raise("GUN", None, {p}) : p \in {q \in armed : now[q] > GunThreshold}})
    /\ pc' = "incidents"
    /\ UNCHANGED <<reidVars, history, personVars, storeVars, bag, mapVars, outputVars>>

-----------------------------------------------------------------------------
\* IncidentManager.update with at most one message of an operator (Incidents has
\* them all): first what the system resolved, then the message, then the new ones.
Messages == {<<>>} \cup (managed \X {"CONFIRMED", "RESOLVED"})
Resolving(message) == IF message # <<>> /\ message[2] = "RESOLVED" THEN {message[1]} ELSE {}
SystemResolved == {i \in managed : incident[i].resolved /\ ~incident[i].confirmed}
Fresh == Len(incident) - fresh + 1..Len(incident)

UpdateIncidents ==
    /\ pc = "incidents"
    /\ \E message \in Messages :
        LET ended == Resolving(message)
            deleted == SystemResolved \cup ended
            kept == managed \ deleted
            people == [i \in Fresh |-> {PersonId(p) : p \in incident[i].people}]
            filed == {i \in Fresh : incident[i].kind = "BAG"}
        IN  /\ ended \cap SystemResolved = {}
            /\ incident' = [i \in DOMAIN incident |->
                 [incident[i] EXCEPT !.resolved = i \in ended,
                                     !.confirmed = @ \/ message = <<i, "CONFIRMED">>]]
            /\ threat' = [p \in PersonIds |->
                 IF \E i \in ended : incident[i].kind = "GUN" /\ p \in incident[i].people
                 THEN 0 ELSE threat[p]]
            /\ bag' = [b \in BagIds |->
                 IF \E i \in ended : incident[i].bag = b THEN ResolvedBag(bag[b]) ELSE bag[b]]
            /\ managed' = kept \cup Fresh
            /\ personIncidents' = [p \in PersonIds |->
                 (personIncidents[p] \ deleted) \cup {i \in Fresh : p \in people[i]}]
            /\ incidentPersons' = Override(people, Restrict(incidentPersons, kept))
            /\ bagIncident' =
                 Override([b \in {BagId(incident[i].bag) : i \in filed} |->
                              CHOOSE i \in filed : BagId(incident[i].bag) = b], bagIncident)
    /\ pc' = "ids"
    /\ UNCHANGED <<reidVars, history, personVars, storeVars, fresh, outputVars>>

\* Resolved by the system and by a message: deleted twice.
DeletedTwice ==
    /\ pc = "incidents"
    /\ SystemResolved # {}
    /\ Die({"twice"})

\* (slip: the entities keep the object that was merged)
KeepEntities(i, updates) == incident[i].people
\* The entities after update_ids: an object still under the temporary id is
\* replaced by the person of the permanent one.
Entities(i, updates) ==
    {IF PersonId(p) \in DOMAIN updates THEN persons[updates[PersonId(p)]] ELSE p :
        p \in incident[i].people}

\* update_ids, and the output queue is given the frame's incidents.
UpdateIds ==
    /\ pc = "ids"
    /\ LET updates == [t \in {u \in DOMAIN wire.personUpdates : personIncidents[u] # {}} |->
                          wire.personUpdates[t]]
           touched == UNION {personIncidents[t] : t \in DOMAIN updates}
           new(ids) == {IF p \in DOMAIN updates THEN updates[p] ELSE p : p \in ids}
       IN  /\ incident' = [i \in DOMAIN incident |->
                 IF i \notin touched THEN incident[i]
                 ELSE [incident[i] EXCEPT !.people = Entities(i, updates), !.roles = new(@)]]
           /\ incidentPersons' = [i \in managed |->
                 IF i \in touched THEN new(incidentPersons[i]) ELSE incidentPersons[i]]
           /\ personIncidents' = [p \in PersonIds |->
                 IF p \in DOMAIN updates THEN {}
                 ELSE personIncidents[p] \cup
                      UNION {personIncidents[t] : t \in {u \in DOMAIN updates : updates[u] = p}}]
    /\ output' = output \o [n \in 1..fresh |-> Len(incident) - fresh + n]
    /\ fresh' = 0 /\ wire' = NoFrame /\ pc' = "fetch"
    /\ UNCHANGED <<frames, seen, resolved, history, personVars, threat, storeVars, bag, managed,
                   bagIncident, outputDead>>

\* The output thread writes an incident: the role of every entity is looked up
\* under its present id, whatever the association thread is doing.
Filed(i) ==
    /\ \A p \in incident[i].people : PersonId(p) \in incident[i].roles
    /\ incident[i].bag # None => BagId(incident[i].bag) \in incident[i].roles
Publish ==
    /\ output # <<>> /\ ~outputDead
    /\ output' = Tail(output)
    /\ outputDead' = ~Filed(Head(output))
    /\ UNCHANGED <<reidVars, pc, history, personVars, threat, storeVars, bag, incident, fresh, mapVars>>

Reid == \E f \in Views : Identify(f)
            /\ UNCHANGED <<pc, history, personVars, threat, storeVars, bag, incident, fresh,
                           mapVars, outputVars>>
Association ==
    \/ NoticeDeath \/ UpdatePersons \/ UnknownPerson \/ UpdateBags \/ UnknownBag
    \/ FindOwners \/ OldIdNearby \/ ScanBags \/ UnfiledBag \/ SeeGuns
    \/ UpdateIncidents \/ DeletedTwice \/ UpdateIds

Next == Reid \/ LoseFrame \/ Association \/ Publish
Spec == Init /\ [][Next]_vars

-----------------------------------------------------------------------------
\* The two maps between persons and incidents are inverse, and name managed
\* incidents only, in every phase (manager_classes.py:328-399): a remove or a pop
\* of either never misses.
MapsAgree ==
    \A p \in PersonIds, i \in Ids :
        i \in personIncidents[p] <=> i \in managed /\ p \in incidentPersons[i]

\* Between frames every managed incident has its people filed under the ids they
\* go by, however they were promoted and merged (manager_classes.py:380-399).
PeopleAreFiled ==
    pc = "fetch" => \A i \in managed :
        {PersonId(p) : p \in incident[i].people} = incidentPersons[i]

SceneConsistent == SceneTypes /\ MapsAgree /\ PeopleAreFiled

\* The lookups of the loop fail only where a frame was lost, an incident resolved
\* twice, or a promoted object is in view: its bag, or he near a bag without owner
\* (manager_classes.py:74, 200, 367, 414).  Nothing else ends the worker.
DiesForCause ==
    [][pc # "dead" /\ pc' = "dead"
          => \/ history' \cap {"lost", "twice"} # {}
             \/ outputDead /\ "renamed" \in history
             \/ \E b \in VisibleBags : BagId(b) # b
             \/ Ownerless # {} /\ \E p \in Visible : PersonOf(p) # p]_vars

\* A bag keeps its owner for life; only his new id replaces the temporary one
\* (manager_classes.py:190-264).
OwnerForLife ==
    [][\A b \in BagIds :
          bag[b].owner # None /\ bag'[b].owner # bag[b].owner
              => /\ bag[b].owner \in DOMAIN tempToId
                 /\ bag'[b].owner = persons[tempToId[bag[b].owner]]]_vars

\* No bag is reported while the object that is its owner is seen beside it.
NotReportedBesideOwner ==
    [][\A b \in BagIds :
          pc = "unattended" /\ bag'[b].unattended /\ ~bag[b].unattended
              => ~\E p \in Visible : PersonOf(p) = bag[b].owner /\ StandsWith(p, b)]_vars

\* Someone with a gun incident gets another one only in the frame that gives him
\* his permanent id, when his incidents are still filed under the old one.
OneGunIncident ==
    [][\A i \in DOMAIN incident' \ DOMAIN incident :
          \A j \in managed, p \in PersonIds :
             /\ incident'[i].kind = "GUN" /\ incident[j].kind = "GUN"
             /\ p \in incident'[i].people \cap incident[j].people
             => p \in Range(persons) /\ PersonId(p) \in Range(wire.personUpdates)]_vars

\* Bags keep their owners, and what is reported is new: a bag left alone, a gun that is
\* not yet known.
ReportedForCause == OwnerForLife /\ NotReportedBesideOwner /\ OneGunIncident
=============================================================================
