---------------------------- MODULE SettingsProofs ----------------------------
(***************************************************************************)
(* What an operator sets, and what the system makes of it, for any number  *)
(* of requests, rows and batches.  Of the alerts: Consistency, with what a *)
(* handler has read still being so while no requests overlap, and with     *)
(* what a delivery thread can still read.  Of the sources: however         *)
(* requests disturb each other, a save that goes through alone brings      *)
(* sources, uploads and mounted models into agreement; what a handler has  *)
(* read stays true for as long as nothing disturbs it, and between the two *)
(* commits of a save the rows are ahead of the rest.                       *)
(***************************************************************************)
EXTENDS MCSettings, FiniteSetTheorems, NaturalsInduction, WellFoundedInduction, TLAPS

-----------------------------------------------------------------------------
(* The alerts. *)

Sources == SourceIds \cup {None}
Thread == [rows : SUBSET EndpointIds, todo : SUBSET EndpointIds, fresh : SUBSET EndpointIds,
           attached : BOOLEAN, touched : BOOLEAN, done : BOOLEAN]

\* A page of rows: those read, those listed, and the new ones.
PageOf(q, n, R) ==
    /\ DOMAIN q.read \subseteq 1..n /\ \A i \in DOMAIN q.read : q.read[i] \in R
    /\ DOMAIN q.list \subseteq 1..n /\ \A i \in DOMAIN q.list : q.list[i] \in R
    /\ q.new \in Seq(R)

\* The secret an endpoint is to hold, given the one that was read.
Kept(stored, entered) == IF entered \in {None, Mask} THEN stored ELSE entered

\* What a handler has read, with m endpoints and n rules there.
Asked(q, m, n) ==
    /\ q.op \in {"idle", "rules", "endpoints"}
    /\ q.op = "rules" => PageOf(q, n, Rule)
    /\ q.op = "endpoints" =>
          /\ PageOf(q, m, EndpointRow)
          /\ \A i \in DOMAIN q.list \cap DOMAIN q.read :
                q.list[i].config.secret = Kept(q.read[i].config.secret, q.entered[i])

Typed ==
    /\ AlertsTypes
    /\ req = [r \in Requests |-> req[r]]
    /\ \A r \in Requests : Asked(req[r], Len(endpoints), Len(rules))

\* The batch of the worker.
Working ==
    /\ worker.pc \in {"idle", "rules", "queue", "event", "rest", "close"}
    /\ worker.pc \in {"rules", "queue"} =>
          worker \in [pc : {"rules", "queue"}, source : Sources, todo : SUBSET RuleIds]
    /\ worker.pc = "queue" => worker.todo # {}
    /\ worker.pc = "event" => worker.source \in Sources

\* Rows that were not sent to yet can be read, unless the worker wrote since.
Delivering ==
    /\ threads \in Seq(Thread)
    /\ \A t \in DOMAIN threads :
          /\ ~threads[t].done /\ ~threads[t].touched => threads[t].todo \subseteq threads[t].fresh
          /\ threads[t].done /\ threads[t].todo # {} => threads[t].touched

\* An alert rule fires for sources that are there.
Grounded(rule) == rule.trigger = "alert" => Fires(rule) \subseteq sources

\* A handler's rules are still as it read them, and stand for sources that are there.
Fresh(q) ==
    q.op = "rules" =>
        /\ \A i \in DOMAIN q.read : q.read[i] = rules[i]
        /\ \A i \in DOMAIN q.list : Grounded(q.list[i])
        /\ \A k \in DOMAIN q.new : Grounded(q.new[k])

Healing ==
    healed =>
        /\ \A r, s \in Requests : Busy(r) /\ Busy(s) => r = s
        /\ \A r \in Requests : Fresh(req[r])
        /\ \A i \in LiveIn(rules) : Grounded(rules[i])

Consistency == Typed /\ Working /\ Delivering /\ Healing

-----------------------------------------------------------------------------
(* The operators of the model. *)

\* The order of the numbers as a set of pairs.
LessThan == {pair \in Nat \X Nat : pair[1] < pair[2]}

\* A set of numbers has a least.
LEMMA LeastIs ==
    ASSUME NEW S, S \subseteq Nat, S # {}
    PROVE  Min(S) \in S
<1>1. IsWellFoundedOn(LessThan, Nat)
  BY NatLessThanWellFounded, Zenon DEF OpToRel, LessThan
<1>2. PICK m \in S : \A k \in S : ~(<<k, m>> \in LessThan)
  BY <1>1, WFMin
<1>3. \A k \in S : k \in Nat /\ m \in Nat /\ ~(k < m)
  BY <1>2 DEF LessThan
<1>4. \E x \in S : \A y \in S : x =< y
  BY <1>3
<1> QED BY <1>4 DEF Min

\* What is written over a row keeps its type, and replaces a row that is still as read.
LEMMA RuleWritten ==
    ASSUME NEW row \in Rule, NEW read \in Rule, NEW new \in Rule
    PROVE  Written(row, read, new) \in Rule /\ (read = row => Written(row, read, new) = new)
<1> DEFINE w == Written(row, read, new)
           fields == {"trigger", "template", "ids", "targets", "enabled", "live"}
<1>1. DOMAIN row = fields /\ w = [f \in fields |-> IF new[f] = read[f] THEN row[f] ELSE new[f]]
  BY DEF Rule, Written
<1>2. /\ w.trigger \in {row.trigger, new.trigger} /\ w.template \in {row.template, new.template}
      /\ w.ids \in {row.ids, new.ids} /\ w.targets \in {row.targets, new.targets}
      /\ w.enabled \in {row.enabled, new.enabled} /\ w.live \in {row.live, new.live}
  BY <1>1
<1>3. w = [trigger |-> w.trigger, template |-> w.template, ids |-> w.ids, targets |-> w.targets,
           enabled |-> w.enabled, live |-> w.live]
  BY <1>1
<1>4. w \in Rule
  <2> HIDE DEF w
  <2> QED BY <1>2, <1>3 DEF Rule
<1>5. read = row => w = new
  <2>1. new = [f \in fields |-> new[f]]
    BY DEF Rule
  <2> QED BY <1>1, <2>1
<1> QED BY <1>4, <1>5

\* The same of an endpoint, of which the secret is one with its configuration.
LEMMA EndpointWritten ==
    ASSUME NEW row \in EndpointRow, NEW read \in EndpointRow, NEW new \in EndpointRow
    PROVE  /\ Written(row, read, new) \in EndpointRow
           /\ read = row => Written(row, read, new) = new
<1> DEFINE w == Written(row, read, new)
           fields == {"kind", "enabled", "live", "config"}
<1>1. DOMAIN row = fields /\ w = [f \in fields |-> IF new[f] = read[f] THEN row[f] ELSE new[f]]
  BY DEF EndpointRow, Written
<1>2. /\ w.kind \in {row.kind, new.kind} /\ w.enabled \in {row.enabled, new.enabled}
      /\ w.live \in {row.live, new.live} /\ w.config \in {row.config, new.config}
  BY <1>1
<1>3. w = [kind |-> w.kind, enabled |-> w.enabled, live |-> w.live, config |-> w.config]
  BY <1>1
<1>4. w \in EndpointRow
  <2> HIDE DEF w
  <2> QED BY <1>2, <1>3 DEF EndpointRow
<1>5. read = row => w = new
  <2>1. new = [f \in fields |-> new[f]]
    BY DEF EndpointRow
  <2> QED BY <1>1, <2>1
<1> QED BY <1>4, <1>5

\* A set is listed.
LEMMA SetToSeqLists ==
    ASSUME NEW S, IsFiniteSet(S)
    PROVE  SetToSeq(S) \in Seq(S)
<1>1. Cardinality(S) \in Nat /\ \E f \in [1..Cardinality(S) -> S] : IsInjective(f)
  BY FS_CardinalityType DEF ExistsBijection, Bijection, Injection
<1>2. SetToSeq(S) \in [1..Cardinality(S) -> S]
  BY <1>1 DEF SetToSeq
<1> QED BY <1>1, <1>2

\* One list after the other.
LEMMA ConcatIs ==
    ASSUME NEW S, NEW a \in Seq(S), NEW b \in Seq(S)
    PROVE  /\ a \o b \in Seq(S) /\ Len(a \o b) = Len(a) + Len(b) /\ DOMAIN (a \o b) = 1..Len(a) + Len(b)
           /\ \A i \in 1..Len(a) : (a \o b)[i] = a[i]
           /\ \A i \in Len(a) + 1..Len(a) + Len(b) :
                 (a \o b)[i] = b[i - Len(a)] /\ i - Len(a) \in 1..Len(b)
  OBVIOUS

\* Every replace_ handler: the rows keep their type; one that was not read stays, one that
\* was listed too is written to, one that was not is deleted; the others are new.
LEMMA ReplacedIs ==
    ASSUME NEW R, NEW rows \in Seq(R), NEW q, PageOf(q, Len(rows), R),
           \A row, read, new \in R : Written(row, read, new) \in R,
           \A row \in R : [row EXCEPT !.live = FALSE] \in R
    PROVE  /\ Replaced(rows, q) \in Seq(R) /\ DOMAIN rows \subseteq DOMAIN Replaced(rows, q)
           /\ Len(rows) <= Len(Replaced(rows, q))
           /\ \A i \in DOMAIN rows :
                 /\ i \notin DOMAIN q.read => Replaced(rows, q)[i] = rows[i]
                 /\ i \in DOMAIN q.read \cap DOMAIN q.list =>
                       Replaced(rows, q)[i] = Written(rows[i], q.read[i], q.list[i])
                 /\ i \in DOMAIN q.read \ DOMAIN q.list =>
                       Replaced(rows, q)[i] = [rows[i] EXCEPT !.live = FALSE]
           /\ \A i \in DOMAIN Replaced(rows, q) \ DOMAIN rows :
                 \/ \E j \in DOMAIN q.list : Replaced(rows, q)[i] = q.list[j]
                 \/ \E k \in DOMAIN q.new : Replaced(rows, q)[i] = q.new[k]
<1> DEFINE others == DOMAIN q.list \ DOMAIN q.read
           stale == SetToSeq(others)
           standing == [i \in DOMAIN rows |->
                      CASE i \notin DOMAIN q.read -> rows[i]
                        [] i \in DOMAIN q.read \cap DOMAIN q.list -> Written(rows[i], q.read[i],
                        q.list[i])
                        [] OTHER -> [rows[i] EXCEPT !.live = FALSE]]
           again == [k \in DOMAIN stale |-> q.list[stale[k]]]
           n == Len(rows)
<1>1. /\ n \in Nat /\ DOMAIN rows = 1..n /\ \A i \in DOMAIN rows : rows[i] \in R
      /\ DOMAIN q.read \subseteq 1..n /\ \A i \in DOMAIN q.read : q.read[i] \in R
      /\ DOMAIN q.list \subseteq 1..n /\ \A i \in DOMAIN q.list : q.list[i] \in R
      /\ q.new \in Seq(R)
  BY DEF PageOf
<1>2. stale \in Seq(others)
  <2>1. IsFiniteSet(1..n) /\ others \in SUBSET (1..n)
    <3>1. 1 \in Int /\ n \in Int
      BY <1>1
    <3>2. IsFiniteSet(1..n)
      BY <3>1, FS_Interval
    <3> QED BY <1>1, <3>2
  <2>2. IsFiniteSet(others)
    BY <2>1, FS_Subset
  <2> HIDE DEF others
  <2> QED BY <2>2, SetToSeqLists
<1>3. again \in Seq(R) /\ \A k \in DOMAIN again : \E j \in DOMAIN q.list : again[k] = q.list[j]
  <2>1. DOMAIN stale = 1..Len(stale) /\ Len(stale) \in Nat
        /\ \A k \in DOMAIN stale : stale[k] \in others
    <3> HIDE DEF stale, others
    <3> QED BY <1>2
  <2>2. \A k \in DOMAIN stale : again[k] = q.list[stale[k]] /\ again[k] \in R
    BY <1>1, <2>1
  <2>3. again \in [1..Len(stale) -> R]
    BY <2>1, <2>2
  <2> HIDE DEF again, stale
  <2>4. again \in Seq(R) /\ DOMAIN again = DOMAIN stale
    BY <2>1, <2>3
  <2> QED BY <2>1, <2>2, <2>4
<1>4. /\ standing \in Seq(R) /\ Len(standing) = n
      /\ \A i \in DOMAIN rows :
            /\ i \notin DOMAIN q.read => standing[i] = rows[i]
            /\ i \in DOMAIN q.read \cap DOMAIN q.list => standing[i] = Written(rows[i], q.read[i],
               q.list[i])
            /\ i \in DOMAIN q.read \ DOMAIN q.list => standing[i] = [rows[i] EXCEPT !.live = FALSE]
  <2>1. ASSUME NEW i \in DOMAIN rows
        PROVE  /\ standing[i] \in R
               /\ i \notin DOMAIN q.read => standing[i] = rows[i]
               /\ i \in DOMAIN q.read \cap DOMAIN q.list => standing[i] = Written(rows[i], q.read[i],
                  q.list[i])
               /\ i \in DOMAIN q.read \ DOMAIN q.list => standing[i] = [rows[i] EXCEPT !.live = FALSE]
    <3>1. CASE i \notin DOMAIN q.read
      BY <1>1, <3>1
    <3>2. CASE i \in DOMAIN q.read \cap DOMAIN q.list
      BY <1>1, <3>2
    <3>3. CASE i \in DOMAIN q.read \ DOMAIN q.list
      BY <1>1, <3>3
    <3> QED BY <3>1, <3>2, <3>3
  <2>2. DOMAIN standing = 1..n /\ standing = [i \in 1..n |-> standing[i]]
    BY <1>1
  <2> HIDE DEF standing
  <2>3. standing \in [1..n -> R]
    BY <1>1, <2>1, <2>2
  <2> QED BY <1>1, <2>1, <2>3
<1>5. Replaced(rows, q) = (standing \o again) \o q.new
  BY DEF Replaced
<1> HIDE DEF standing, again
<1> DEFINE both == standing \o again
<1>6. /\ both \in Seq(R) /\ Len(both) = n + Len(again) /\ DOMAIN both = 1..n + Len(again)
      /\ \A i \in 1..n : both[i] = standing[i]
      /\ \A i \in n + 1..n + Len(again) : both[i] = again[i - n] /\ i - n \in 1..Len(again)
  <2>1. /\ standing \o again \in Seq(R) /\ Len(standing \o again) = Len(standing) + Len(again)
        /\ DOMAIN (standing \o again) = 1..Len(standing) + Len(again)
        /\ \A i \in 1..Len(standing) : (standing \o again)[i] = standing[i]
        /\ \A i \in Len(standing) + 1..Len(standing) + Len(again) :
              (standing \o again)[i] = again[i - Len(standing)] /\ i - Len(standing) \in 1..Len(again)
    <3>1. standing \in Seq(R) /\ again \in Seq(R)
      BY <1>3, <1>4
    <3> QED BY ONLY <3>1, ConcatIs
  <2> QED BY <1>4, <2>1
<1> HIDE DEF both
<1> DEFINE all == both \o q.new
<1>7. /\ all \in Seq(R) /\ Len(all) = Len(both) + Len(q.new) /\ DOMAIN all = 1..Len(both) + Len(q.new)
      /\ \A i \in 1..Len(both) : all[i] = both[i]
      /\ \A i \in Len(both) + 1..Len(both) + Len(q.new) :
            all[i] = q.new[i - Len(both)] /\ i - Len(both) \in 1..Len(q.new)
  BY ONLY <1>1, <1>6, ConcatIs
<1>8. all = Replaced(rows, q)
  BY <1>5 DEF both
<1> HIDE DEF all, n
<1>9. Len(again) \in Nat /\ DOMAIN again = 1..Len(again) /\ Len(q.new) \in Nat
      /\ DOMAIN q.new = 1..Len(q.new)
  BY <1>1, <1>3
<1>10. DOMAIN rows \subseteq DOMAIN all /\ n <= Len(all) /\ \A i \in DOMAIN rows : all[i] = standing[i]
  BY <1>1, <1>6, <1>7, <1>9
<1>11. ASSUME NEW i \in DOMAIN all \ DOMAIN rows
       PROVE  (\E j \in DOMAIN q.list : all[i] = q.list[j])
              \/ (\E k \in DOMAIN q.new : all[i] = q.new[k])
  <2>1. CASE i <= n + Len(again)
    <3>1. i \in n + 1..n + Len(again)
      BY <1>1, <1>6, <1>7, <1>9, <2>1
    <3>2. all[i] = again[i - n] /\ i - n \in DOMAIN again
      BY <1>1, <1>6, <1>7, <1>9, <3>1
    <3> QED BY <1>3, <3>2
  <2>2. CASE ~(i <= n + Len(again))
    <3>1. i \in Len(both) + 1..Len(both) + Len(q.new)
      BY <1>1, <1>6, <1>7, <1>9, <2>2
    <3>2. all[i] = q.new[i - Len(both)] /\ i - Len(both) \in DOMAIN q.new
      BY <1>7, <1>9, <3>1
    <3> QED BY <3>2
  <2> QED BY <2>1, <2>2
<1> QED BY <1>4, <1>7, <1>8, <1>10, <1>11 DEF n

-----------------------------------------------------------------------------
(* What a handler reads. *)
Page(p, n, S) ==
    /\ DOMAIN p[1] \subseteq 1..n /\ \A i \in DOMAIN p[1] : p[1][i] \in S
    /\ p[2] \in Seq(S)

\* What a client sends are entries of the page, and such as it may enter.
LEMMA PagesAre ==
    ASSUME NEW n \in Nat, NEW S, NEW page, DOMAIN page = 1..n, \A i \in 1..n : page[i] \in S,
           NEW entries, entries \subseteq S, NEW p \in Pages(page, entries)
    PROVE  Page(p, n, S)
<1>1. CASE \E keep \in SUBSET DOMAIN page : p = <<[i \in keep |-> page[i]], <<>>>>
  BY <1>1 DEF Page
<1>2. CASE \E e \in entries : p = <<page, <<e>>>>
  BY <1>2 DEF Page
<1>3. CASE \E i \in DOMAIN page, e \in entries : p = <<[page EXCEPT ![i] = e], <<>>>>
  <2>1. PICK i \in DOMAIN page, e \in entries : p = <<[page EXCEPT ![i] = e], <<>>>>
    BY <1>3
  <2>2. DOMAIN [page EXCEPT ![i] = e] = 1..n /\ \A j \in 1..n : [page EXCEPT ![i] = e][j] \in S
    BY <2>1
  <2> QED BY <2>1, <2>2 DEF Page
<1> QED BY <1>1, <1>2, <1>3 DEF Pages

RuleEntry == [trigger : {"alert", "event"}, ids : SUBSET SourceIds,
              targets : SUBSET EndpointIds, enabled : BOOLEAN]
AlertEntry == [template : Sources, enabled : BOOLEAN]
EndpointEntry == [kind : Kinds, enabled : BOOLEAN,
                  config : [secret : Secrets \cup {None, Mask}, address : Addresses]]

\* The parts of the types.
LEMMA TypesAre ==
    ASSUME Typed
    PROVE  /\ rules \in Seq(Rule) /\ Len(rules) \in Nat /\ DOMAIN rules = 1..Len(rules)
           /\ endpoints \in Seq(EndpointRow) /\ Len(endpoints) \in Nat
           /\ DOMAIN endpoints = 1..Len(endpoints)
           /\ \A i \in DOMAIN rules : rules[i] \in Rule
           /\ \A i \in DOMAIN endpoints : endpoints[i] \in EndpointRow
           /\ sources \subseteq SourceIds
           /\ DOMAIN rules \subseteq RuleIds /\ DOMAIN endpoints \subseteq EndpointIds
<1>1. /\ rules \in Seq(Rule) /\ endpoints \in Seq(EndpointRow) /\ sources \subseteq SourceIds
      /\ Len(rules) <= MaxRules /\ Len(endpoints) <= MaxEndpoints
  BY DEF Typed, AlertsTypes
<1> QED BY <1>1, AlertsAssumption DEF RuleIds, EndpointIds

\* The fields of rows.
LEMMA FieldsOf ==
    /\ \A rule \in Rule : /\ rule.trigger \in {"alert", "event"} /\ rule.template \in Sources
                          /\ rule.ids \subseteq SourceIds /\ rule.enabled \in BOOLEAN
                          /\ rule.live \in BOOLEAN /\ rule.targets \in {None} \cup SUBSET EndpointIds
    /\ \A e \in EndpointRow : /\ e.kind \in Kinds /\ e.enabled \in BOOLEAN /\ e.live \in BOOLEAN
                              /\ e.config \in [secret : Secrets \cup {None}, address : Addresses]
                              /\ e.config.secret \in Secrets \cup {None}
                                 /\ e.config.address \in Addresses
  BY DEF Rule, EndpointRow, Sources

\* The pages show what a client may enter.
LEMMA PagesShow ==
    ASSUME Typed
    PROVE  /\ \A p \in Pages(RulePage, RuleEntries) : Page(p, Len(rules), RuleEntry)
           /\ \A p \in Pages(AlertPage, AlertEntries) : Page(p, Len(rules), AlertEntry)
           /\ \A p \in Pages(EndpointPage, EndpointEntries) : Page(p, Len(endpoints), EndpointEntry)
<1>1. /\ Len(rules) \in Nat /\ DOMAIN rules = 1..Len(rules)
      /\ Len(endpoints) \in Nat /\ DOMAIN endpoints = 1..Len(endpoints)
  BY TypesAre
<1>2. \A i \in 1..Len(rules) : RulePage[i] \in RuleEntry
  <2> SUFFICES ASSUME NEW i \in 1..Len(rules) PROVE RuleShown(i) \in RuleEntry
    BY <1>1 DEF RulePage
  <2>1. /\ rules[i].trigger \in {"alert", "event"} /\ rules[i].template \in Sources
        /\ rules[i].ids \subseteq SourceIds /\ rules[i].enabled \in BOOLEAN
        /\ rules[i].targets \in {None} \cup SUBSET EndpointIds
    BY <1>1, TypesAre, FieldsOf
  <2>2. Fires(rules[i]) \subseteq SourceIds
    BY <2>1 DEF Fires, Sources
  <2>3. (IF rules[i].targets = None THEN {} ELSE rules[i].targets) \in SUBSET EndpointIds
    BY <2>1
  <2> QED BY <2>1, <2>2, <2>3 DEF RuleShown, RuleEntry
<1>3. \A i \in 1..Len(rules) : AlertPage[i] \in AlertEntry
  BY <1>1, TypesAre, FieldsOf DEF AlertPage, AlertEntry
<1>4. \A i \in 1..Len(endpoints) : EndpointPage[i] \in EndpointEntry
  <2> SUFFICES ASSUME NEW i \in 1..Len(endpoints) PROVE EndpointShown(i) \in EndpointEntry
    BY <1>1 DEF EndpointPage
  <2>1. /\ endpoints[i].kind \in Kinds /\ endpoints[i].enabled \in BOOLEAN
        /\ endpoints[i].config.address \in Addresses
    BY <1>1, TypesAre, FieldsOf
  <2> QED BY <2>1 DEF EndpointShown, EndpointEntry
<1>5. DOMAIN RulePage = 1..Len(rules) /\ RuleEntries \subseteq RuleEntry
  BY <1>1, RowsAssumption DEF RulePage, RuleEntry
<1>6. DOMAIN AlertPage = 1..Len(rules) /\ AlertEntries \subseteq AlertEntry
  BY <1>1 DEF AlertPage, AlertEntries, AlertEntry, Sources
<1>7. DOMAIN EndpointPage = 1..Len(endpoints) /\ EndpointEntries \subseteq EndpointEntry
  BY <1>1, RowsAssumption DEF EndpointPage, EndpointEntry
<1>8. ASSUME NEW p \in Pages(RulePage, RuleEntries) PROVE Page(p, Len(rules), RuleEntry)
  BY <1>1, <1>2, <1>5, PagesAre
<1>9. ASSUME NEW p \in Pages(AlertPage, AlertEntries) PROVE Page(p, Len(rules), AlertEntry)
  BY <1>1, <1>3, <1>6, PagesAre
<1>10. ASSUME NEW p \in Pages(EndpointPage, EndpointEntries) PROVE Page(p, Len(endpoints),
              EndpointEntry)
  BY <1>1, <1>4, <1>7, PagesAre
<1> QED BY <1>8, <1>9, <1>10

\* A rule the trigger-rules page stores.
LEMMA RuleStoredIs ==
    ASSUME NEW e \in RuleEntry
    PROVE  /\ RuleStored(e) \in Rule /\ RuleStored(e).trigger = e.trigger
           /\ Fires(RuleStored(e)) = e.ids
<1>1. /\ e.trigger \in {"alert", "event"} /\ e.ids \subseteq SourceIds
      /\ e.targets \subseteq EndpointIds /\ e.enabled \in BOOLEAN
  BY DEF RuleEntry
<1>2. (IF e.ids = {} THEN None ELSE Min(e.ids)) \in Sources
  <2>1. CASE e.ids = {}
    BY <2>1 DEF Sources
  <2>2. CASE e.ids # {}
    <3>1. Min(e.ids) \in e.ids
      BY <1>1, <2>2, LeastIs, AlertsAssumption
    <3> QED BY <1>1, <2>2, <3>1 DEF Sources
  <2> QED BY <2>1, <2>2
<1> DEFINE t == IF e.ids = {} THEN None ELSE Min(e.ids)
<1>3. RuleStored(e) = [trigger |-> e.trigger, template |-> t, ids |-> e.ids, targets |-> e.targets,
                       enabled |-> e.enabled, live |-> TRUE]
  BY DEF RuleStored
<1>4. e.ids = {} => t = None
  OBVIOUS
<1> HIDE DEF t
<1>5. RuleStored(e) \in Rule
  BY <1>1, <1>2, <1>3 DEF Rule, Sources, t
<1>6. Fires(RuleStored(e)) = e.ids
  BY <1>3, <1>4 DEF Fires
<1> QED BY <1>3, <1>5, <1>6

\* A handler that begins alone has read what there is.
LEMMA BeginKeeps ==
    ASSUME Consistency, NEW r \in Requests, NEW q, Asked(q, Len(endpoints), Len(rules)),
           healed /\ Quiet => Fresh(q), Begin(r, q)
    PROVE  Consistency'
<1> USE DEF Consistency
<1>1. /\ saves < MaxSaves /\ saves' = saves + 1 /\ req' = [req EXCEPT ![r] = q]
      /\ healed' = (healed /\ Quiet)
      /\ UNCHANGED <<sources, endpoints, rules, worker, raised, batches, threads>>
  BY DEF Begin, workerVars
<1>2. /\ req' = [s \in Requests |-> req'[s]] /\ req'[r] = q
      /\ \A s \in Requests \ {r} : req'[s] = req[s]
  BY <1>1 DEF Typed
<1>3. Typed'
  <2>1. saves' \in 0..MaxSaves
    BY <1>1, AlertsAssumption DEF Typed, AlertsTypes
  <2>2. healed' \in BOOLEAN
    BY <1>1
  <2>3. AlertsTypes'
    BY <1>1, <2>1, <2>2 DEF Typed, AlertsTypes
  <2>4. \A s \in Requests : Asked(req'[s], Len(endpoints), Len(rules))
    BY <1>2 DEF Typed
  <2> QED BY <1>1, <1>2, <2>3, <2>4 DEF Typed
<1>4. Working' /\ Delivering'
  BY <1>1 DEF Working, Delivering
<1>5. Healing'
  <2> SUFFICES ASSUME healed, Quiet PROVE Healing'
    BY <1>1 DEF Healing
  <2>1. \A s \in Requests : req[s].op = "idle"
    BY DEF Quiet, Busy
  <2>2. \A s, t \in Requests : Busy(s)' /\ Busy(t)' => s = t
    BY <1>2, <2>1 DEF Busy
  <2>3. \A rule : Grounded(rule) => Grounded(rule)'
    BY <1>1 DEF Grounded
  <2>4. \A s \in Requests \ {r} : req[s]'.op = "idle"
    BY <1>2, <2>1
  <2>5. \A s \in Requests \ {r} : Fresh(req[s])'
    BY <2>4 DEF Fresh
  <2>6. Fresh(req[r])'
    <3>1. Fresh(q) /\ req[r]' = q /\ rules' = rules
      BY <1>1, <1>2
    <3> QED BY <2>3, <3>1 DEF Fresh
  <2>7. \A i \in LiveIn(rules)' : Grounded(rules[i])'
    BY <1>1 DEF Healing, Grounded, LiveIn
  <2> QED BY <2>2, <2>5, <2>6, <2>7 DEF Healing
<1> QED BY <1>3, <1>4, <1>5

\* The trigger-rules page, validated against the sources there are.
LEMMA OpenTriggerRulesKeeps ==
    ASSUME Consistency, NEW r \in Requests, NEW p \in Pages(RulePage, RuleEntries),
           OpenTriggerRules(r, p[1], p[2])
    PROVE  Consistency'
<1> DEFINE list == p[1]
           new == p[2]
           q == [op |-> "rules", read |-> [i \in LiveIn(rules) |-> rules[i]],
                 list |-> [i \in DOMAIN list |-> RuleStored(list[i])],
                 new |-> [k \in DOMAIN new |-> RuleStored(new[k])]]
<1>1. /\ \A e \in Range(list) \cup Range(new) :
             e.trigger = "alert" => e.ids # {} /\ e.ids \subseteq sources
             /\ e.targets \subseteq Selectable
      /\ Begin(r, q)
  BY DEF OpenTriggerRules
<1>2. /\ DOMAIN list \subseteq 1..Len(rules) /\ \A i \in DOMAIN list : list[i] \in RuleEntry
      /\ new \in Seq(RuleEntry)
  BY PagesShow DEF Page, Consistency
<1>3. /\ \A i \in DOMAIN list : list[i] \in Range(list)
      /\ \A k \in DOMAIN new : new[k] \in Range(new) /\ new[k] \in RuleEntry
  BY <1>2 DEF Range
<1>4. /\ q.op = "rules" /\ DOMAIN q.read = LiveIn(rules) /\ DOMAIN q.list = DOMAIN list
      /\ DOMAIN q.new = DOMAIN new
      /\ \A i \in LiveIn(rules) : q.read[i] = rules[i]
      /\ \A i \in DOMAIN list : q.list[i] = RuleStored(list[i])
      /\ \A k \in DOMAIN new : q.new[k] = RuleStored(new[k])
      /\ q.new = [k \in DOMAIN new |-> RuleStored(new[k])]
  OBVIOUS
<1> HIDE DEF q
<1>5. \A e \in RuleEntry : RuleStored(e) \in Rule /\ (e \in Range(list) \cup Range(new)
      => Grounded(RuleStored(e)))
  BY <1>1, RuleStoredIs DEF Grounded
<1>6. q.new \in Seq(Rule)
  <2>1. DOMAIN new = 1..Len(new) /\ Len(new) \in Nat
        /\ \A k \in DOMAIN new : RuleStored(new[k]) \in Rule
    BY <1>2, <1>3, <1>5
  <2>2. q.new \in [1..Len(new) -> Rule]
    BY <1>4, <2>1
  <2> QED BY <2>1, <2>2
<1>7. Asked(q, Len(endpoints), Len(rules))
  BY <1>2, <1>4, <1>5, <1>6, TypesAre DEF Consistency, Asked, PageOf, LiveIn
<1>8. Fresh(q)
  BY <1>2, <1>3, <1>4, <1>5 DEF Fresh
<1> QED BY <1>1, <1>7, <1>8, BeginKeeps

\* A rule the alert-rules page stores, with the list of sources it is left.
AlertStored(e, ids) == [trigger |-> "alert", template |-> e.template, ids |-> ids, targets |-> None,
                        enabled |-> e.enabled, live |-> TRUE]

LEMMA AlertStoredIs ==
    ASSUME NEW e \in AlertEntry, NEW ids \in SUBSET SourceIds
    PROVE  /\ AlertStored(e, ids) \in Rule
           /\ ids \subseteq sources /\ e.template \in sources => Grounded(AlertStored(e, ids))
<1>1. e.template \in Sources /\ e.enabled \in BOOLEAN
  BY DEF AlertEntry
<1>2. AlertStored(e, ids) \in Rule
  BY <1>1 DEF AlertStored, Rule, Sources
<1>3. Fires(AlertStored(e, ids)) = IF ids # {} THEN ids ELSE {e.template} \ {None}
  BY DEF AlertStored, Fires
<1> QED BY <1>2, <1>3 DEF Grounded

\* The alert-rules page, whose rules keep the list of sources another page gave them.
LEMMA OpenAlertRulesKeeps ==
    ASSUME Consistency, NEW r \in Requests, NEW p \in Pages(AlertPage, AlertEntries),
           OpenAlertRules(r, p[1], p[2])
    PROVE  Consistency'
<1> DEFINE list == p[1]
           new == p[2]
           known == {i \in LiveIn(rules) : rules[i].trigger = "alert"}
           ids(i) == IF i \in known THEN rules[i].ids ELSE {}
           q == [op |-> "rules", read |-> [i \in known |-> rules[i]],
                 list |-> [i \in DOMAIN list |-> AlertStored(list[i], ids(i))],
                 new |-> [k \in DOMAIN new |-> AlertStored(new[k], {})]]
<1>1. /\ \A e \in Range(list) \cup Range(new) : e.template \in sources
      /\ Begin(r, q)
  BY DEF OpenAlertRules, AlertStored
<1>2. /\ DOMAIN list \subseteq 1..Len(rules) /\ \A i \in DOMAIN list : list[i] \in AlertEntry
      /\ new \in Seq(AlertEntry)
  BY PagesShow DEF Page, Consistency
<1>3. /\ \A i \in DOMAIN list : list[i] \in Range(list)
      /\ \A k \in DOMAIN new : new[k] \in Range(new) /\ new[k] \in AlertEntry
  BY <1>2 DEF Range
<1>4. /\ q.op = "rules" /\ DOMAIN q.read = known /\ DOMAIN q.list = DOMAIN list
      /\ DOMAIN q.new = DOMAIN new
      /\ \A i \in known : q.read[i] = rules[i]
      /\ \A i \in DOMAIN list : q.list[i] = AlertStored(list[i], ids(i))
      /\ \A k \in DOMAIN new : q.new[k] = AlertStored(new[k], {})
      /\ q.new = [k \in DOMAIN new |-> AlertStored(new[k], {})]
  OBVIOUS
<1> HIDE DEF q
<1>5. \A i : ids(i) \in SUBSET SourceIds
  BY TypesAre, FieldsOf DEF LiveIn, Consistency
<1>6. \A i \in DOMAIN list : q.list[i] \in Rule
  BY <1>2, <1>4, <1>5, AlertStoredIs
<1>7. \A k \in DOMAIN new : AlertStored(new[k], {}) \in Rule
  BY <1>3, AlertStoredIs
<1>8. q.new \in Seq(Rule)
  <2>1. DOMAIN new = 1..Len(new) /\ Len(new) \in Nat
    BY <1>2
  <2>2. q.new \in [1..Len(new) -> Rule]
    BY <1>4, <1>7, <2>1
  <2> QED BY <2>1, <2>2
<1>9. known \subseteq 1..Len(rules) /\ \A i \in known : rules[i] \in Rule
  BY TypesAre DEF LiveIn, Consistency
<1>10. Asked(q, Len(endpoints), Len(rules))
  <2> HIDE DEF known, ids
  <2> QED BY <1>2, <1>4, <1>6, <1>8, <1>9 DEF Asked, PageOf
<1>11. ASSUME healed, Quiet PROVE Fresh(q)
  <2>1. \A i \in known : Fires(rules[i]) \subseteq sources
    BY <1>11 DEF Consistency, Healing, Grounded
  <2>2. \A i : ids(i) \subseteq sources
    BY <2>1 DEF Fires
  <2>3. \A i \in DOMAIN list : list[i].template \in sources
    BY <1>1, <1>3
  <2>4. \A k \in DOMAIN new : new[k].template \in sources
    BY <1>1, <1>3
  <2> HIDE DEF known, ids
  <2>5. \A i \in DOMAIN list : Grounded(q.list[i])
    BY <1>2, <1>4, <1>5, <2>2, <2>3, AlertStoredIs
  <2>6. \A k \in DOMAIN new : Grounded(q.new[k])
    BY <1>3, <1>4, <2>4, AlertStoredIs
  <2> QED BY <1>4, <2>5, <2>6 DEF Fresh
<1> QED BY <1>1, <1>10, <1>11, BeginKeeps

\* What an endpoint's page stores.
EndpointStored(e, config) == [kind |-> e.kind, enabled |-> e.enabled, live |-> TRUE,
                              config |-> MergeSecret(config, e.config)]

Config == [secret : Secrets \cup {None}, address : Addresses]

LEMMA EndpointStoredIs ==
    ASSUME NEW e \in EndpointEntry, NEW config, config.secret \in Secrets \cup {None}
    PROVE  /\ EndpointStored(e, config) \in EndpointRow
           /\ EndpointStored(e, config).config.secret = Kept(config.secret, e.config.secret)
<1>1. /\ e.kind \in Kinds /\ e.enabled \in BOOLEAN
      /\ e.config.secret \in Secrets \cup {None, Mask} /\ e.config.address \in Addresses
  BY DEF EndpointEntry
<1>2. MergeSecret(config, e.config) = [secret |-> Kept(config.secret, e.config.secret),
                                       address |-> e.config.address]
  BY DEF MergeSecret, Kept
<1>3. Kept(config.secret, e.config.secret) \in Secrets \cup {None}
  BY <1>1 DEF Kept
<1>4. EndpointStored(e, config) \in EndpointRow
  BY <1>1, <1>2, <1>3 DEF EndpointStored, EndpointRow
<1>5. EndpointStored(e, config).config.secret = Kept(config.secret, e.config.secret)
  BY <1>2 DEF EndpointStored
<1> QED BY <1>4, <1>5

\* The endpoints' pages, where the mask or nothing keeps a secret.
LEMMA OpenEndpointsKeeps ==
    ASSUME Consistency, NEW r \in Requests, NEW kind, NEW p \in Pages(EndpointPage, EndpointEntries),
           OpenEndpoints(r, kind, p[1], p[2])
    PROVE  Consistency'
<1> DEFINE list == p[1]
           new == p[2]
           known == {i \in LiveIn(endpoints) : kind \in {None, endpoints[i].kind}}
           config(i) == IF i \in known THEN endpoints[i].config ELSE Blank
           q == [op |-> "endpoints", entered |-> [i \in DOMAIN list |-> list[i].config.secret],
                 read |-> [i \in known |-> endpoints[i]],
                 list |-> [i \in DOMAIN list |-> EndpointStored(list[i], config(i))],
                 new |-> [k \in DOMAIN new |-> EndpointStored(new[k], Blank)]]
<1>1. Begin(r, q)
  BY DEF OpenEndpoints, EndpointStored
<1>2. /\ DOMAIN list \subseteq 1..Len(endpoints) /\ \A i \in DOMAIN list : list[i] \in EndpointEntry
      /\ new \in Seq(EndpointEntry)
  BY PagesShow DEF Page, Consistency
<1>3. \A k \in DOMAIN new : new[k] \in EndpointEntry
  BY <1>2
<1>4. /\ q.op = "endpoints" /\ DOMAIN q.read = known /\ DOMAIN q.list = DOMAIN list
      /\ \A i \in DOMAIN list : q.entered[i] = list[i].config.secret
      /\ \A i \in known : q.read[i] = endpoints[i]
      /\ \A i \in DOMAIN list : q.list[i] = EndpointStored(list[i], config(i))
      /\ q.new = [k \in DOMAIN new |-> EndpointStored(new[k], Blank)]
  OBVIOUS
<1> HIDE DEF q
<1>5. \A i \in known : endpoints[i] \in EndpointRow /\ i \in 1..Len(endpoints)
  BY TypesAre DEF LiveIn, Consistency
<1>6. /\ Blank.secret \in Secrets \cup {None}
      /\ \A i : config(i).secret \in Secrets \cup {None}
      /\ \A i \in known : config(i) = endpoints[i].config
  <2>1. Blank.secret \in Secrets \cup {None}
    BY DEF Blank
  <2> HIDE DEF known
  <2>2. \A i \in known : endpoints[i].config.secret \in Secrets \cup {None}
    BY <1>5, FieldsOf
  <2> QED BY <2>1, <2>2
<1> HIDE DEF known, config
<1>7. \A i \in DOMAIN list : /\ q.list[i] \in EndpointRow
                             /\ q.list[i].config.secret = Kept(config(i).secret, list[i].config.secret)
  BY <1>2, <1>4, <1>6, EndpointStoredIs
<1>8. q.new \in Seq(EndpointRow)
  <2>1. DOMAIN new = 1..Len(new) /\ Len(new) \in Nat
    BY <1>2
  <2>2. \A k \in DOMAIN new : EndpointStored(new[k], Blank) \in EndpointRow
    BY <1>3, <1>6, EndpointStoredIs
  <2>3. q.new \in [1..Len(new) -> EndpointRow]
    BY <1>4, <2>1, <2>2
  <2> QED BY <2>1, <2>3
<1>9. PageOf(q, Len(endpoints), EndpointRow)
  BY <1>2, <1>4, <1>5, <1>7, <1>8 DEF PageOf
<1>10. \A i \in DOMAIN q.list \cap DOMAIN q.read :
          q.list[i].config.secret = Kept(q.read[i].config.secret, q.entered[i])
  BY <1>4, <1>6, <1>7
<1>11. Asked(q, Len(endpoints), Len(rules))
  BY <1>4, <1>9, <1>10 DEF Asked
<1>12. Fresh(q)
  BY <1>4 DEF Fresh
<1> QED BY <1>1, <1>11, <1>12, BeginKeeps

-----------------------------------------------------------------------------
(* What a handler commits. *)

\* What was read of fewer rows was read of more.
LEMMA AskedGrows ==
    ASSUME NEW q, NEW m \in Nat, NEW n \in Nat, NEW mNow \in Nat, NEW nNow \in Nat,
           m <= mNow, n <= nNow, Asked(q, m, n)
    PROVE  Asked(q, mNow, nNow)
<1>1. 1..m \subseteq 1..mNow /\ 1..n \subseteq 1..nNow
  OBVIOUS
<1> QED BY <1>1 DEF Asked, PageOf

\* Once nobody is busy but one, and that one is done, there is nothing read.
LEMMA DoneAlone ==
    ASSUME Consistency, NEW r \in Requests, Busy(r), req' = [req EXCEPT ![r] = Idle]
    PROVE  /\ req' = [s \in Requests |-> req'[s]] /\ req'[r] = Idle
           /\ \A s \in Requests \ {r} : req'[s] = req[s]
           /\ healed => \A s \in Requests : req'[s].op = "idle"
<1>1. /\ req' = [s \in Requests |-> req'[s]] /\ req'[r] = Idle
      /\ \A s \in Requests \ {r} : req'[s] = req[s]
  BY DEF Consistency, Typed
<1>2. healed => \A s \in Requests \ {r} : req[s].op = "idle"
  BY DEF Consistency, Healing, Busy
<1> QED BY <1>1, <1>2 DEF Idle

LEMMA RowsDie ==
    /\ \A row \in Rule : [row EXCEPT !.live = FALSE] \in Rule
    /\ \A row \in EndpointRow : [row EXCEPT !.live = FALSE] \in EndpointRow
<1>1. ASSUME NEW row \in Rule PROVE [row EXCEPT !.live = FALSE] \in Rule
  BY DEF Rule
<1>2. ASSUME NEW row \in EndpointRow PROVE [row EXCEPT !.live = FALSE] \in EndpointRow
  BY DEF EndpointRow
<1> QED BY <1>1, <1>2

LEMMA CommitRulesKeeps ==
    ASSUME Consistency, NEW r \in Requests, CommitRules(r)
    PROVE  Consistency'
<1> DEFINE q == req[r]
<1>1. /\ q.op = "rules" /\ rules' = Replaced(rules, q) /\ Len(rules') <= MaxRules
      /\ req' = [req EXCEPT ![r] = Idle]
      /\ UNCHANGED <<sources, endpoints, saves, healed, worker, raised, batches, threads>>
  BY DEF CommitRules, workerVars
<1>2. PageOf(q, Len(rules), Rule) /\ Asked(q, Len(endpoints), Len(rules))
  BY <1>1 DEF Consistency, Typed, Asked
<1>3. \A row, read, new \in Rule : Written(row, read, new) \in Rule
  BY RuleWritten
<1>4. rules \in Seq(Rule) /\ Len(rules) \in Nat /\ Len(endpoints) \in Nat
      /\ \A i \in DOMAIN rules : rules[i] \in Rule
  BY TypesAre DEF Consistency
<1>5. /\ rules' \in Seq(Rule) /\ DOMAIN rules \subseteq DOMAIN rules' /\ Len(rules) <= Len(rules')
      /\ \A i \in DOMAIN rules :
            /\ i \notin DOMAIN q.read => rules'[i] = rules[i]
            /\ i \in DOMAIN q.read \cap DOMAIN q.list => rules'[i] = Written(rules[i], q.read[i],
               q.list[i])
            /\ i \in DOMAIN q.read \ DOMAIN q.list => rules'[i] = [rules[i] EXCEPT !.live = FALSE]
      /\ \A i \in DOMAIN rules' \ DOMAIN rules :
            (\E j \in DOMAIN q.list : rules'[i] = q.list[j])
            \/ (\E k \in DOMAIN q.new : rules'[i] = q.new[k])
  <2> DEFINE all == Replaced(rules, q)
  <2> HIDE DEF q
  <2>1. \A row \in Rule : [row EXCEPT !.live = FALSE] \in Rule
    BY RowsDie
  <2>2. /\ all \in Seq(Rule) /\ DOMAIN rules \subseteq DOMAIN all /\ Len(rules) <= Len(all)
        /\ \A i \in DOMAIN rules :
              /\ i \notin DOMAIN q.read => all[i] = rules[i]
              /\ i \in DOMAIN q.read \cap DOMAIN q.list => all[i] = Written(rules[i], q.read[i],
                 q.list[i])
              /\ i \in DOMAIN q.read \ DOMAIN q.list => all[i] = [rules[i] EXCEPT !.live = FALSE]
        /\ \A i \in DOMAIN all \ DOMAIN rules :
              (\E j \in DOMAIN q.list : all[i] = q.list[j])
              \/ (\E k \in DOMAIN q.new : all[i] = q.new[k])
    BY ONLY <1>2, <1>3, <1>4, <2>1, ReplacedIs
  <2>3. rules' = all
    BY <1>1
  <2> HIDE DEF all
  <2> QED BY ONLY <2>2, <2>3
<1> HIDE DEF q
<1>6. Busy(r)
  BY <1>1 DEF Busy, q
<1>7. /\ req' = [s \in Requests |-> req'[s]] /\ req'[r] = Idle
      /\ \A s \in Requests \ {r} : req'[s] = req[s]
      /\ healed => \A s \in Requests : req'[s].op = "idle"
  BY <1>1, <1>6, DoneAlone
<1>8. Typed'
  <2>1. AlertsTypes'
    BY <1>1, <1>5 DEF Consistency, Typed, AlertsTypes
  <2>2. Len(rules') \in Nat
    BY <1>5
  <2>3. \A s \in Requests : Asked(req'[s], Len(endpoints), Len(rules'))
    <3>1. Asked(req'[r], Len(endpoints), Len(rules'))
      BY <1>7 DEF Asked, Idle
    <3>2. \A s \in Requests \ {r} : Asked(req'[s], Len(endpoints), Len(rules))
      BY <1>7 DEF Consistency, Typed
    <3>3. \A s \in Requests \ {r} : Asked(req'[s], Len(endpoints), Len(rules'))
      BY <1>4, <1>5, <2>2, <3>2, AskedGrows
    <3> QED BY <3>1, <3>3
  <2> QED BY <1>1, <1>7, <2>1, <2>3 DEF Typed
<1>9. Working' /\ Delivering'
  BY <1>1 DEF Consistency, Working, Delivering
<1>10. Healing'
  <2> SUFFICES ASSUME healed PROVE Healing'
    BY <1>1 DEF Healing
  <2>1. Fresh(q)
    BY DEF Consistency, Healing, q
  <2>2. \A rule : Grounded(rule) => Grounded(rule)'
    BY <1>1 DEF Grounded
  <2>3. ASSUME NEW i \in DOMAIN rules', rules'[i].live PROVE Grounded(rules'[i])
    <3>1. CASE i \in DOMAIN rules \ DOMAIN q.read
      <4>1. rules'[i] = rules[i]
        BY <1>5, <3>1
      <4> QED BY <2>3, <3>1, <4>1 DEF Consistency, Healing, LiveIn
    <3>2. CASE i \in DOMAIN rules \cap DOMAIN q.read \cap DOMAIN q.list
      <4>1. /\ rules'[i] = Written(rules[i], q.read[i], q.list[i]) /\ q.read[i] = rules[i]
            /\ Grounded(q.list[i]) /\ q.list[i] \in Rule /\ rules[i] \in Rule
        BY <1>1, <1>2, <1>4, <1>5, <2>1, <3>2 DEF Fresh, PageOf
      <4>2. rules'[i] = q.list[i]
        BY <4>1, RuleWritten
      <4> QED BY <4>1, <4>2
    <3>3. CASE i \in DOMAIN rules \cap (DOMAIN q.read \ DOMAIN q.list)
      <4>1. rules'[i] = [rules[i] EXCEPT !.live = FALSE] /\ rules[i] \in Rule
        BY <1>4, <1>5, <3>3
      <4>2. rules'[i].live = FALSE
        BY <4>1 DEF Rule
      <4> QED BY <2>3, <4>2
    <3>4. CASE i \notin DOMAIN rules
      BY <1>1, <1>5, <2>1, <2>3, <3>4 DEF Fresh
    <3> QED BY <3>1, <3>2, <3>3, <3>4
  <2>4. \A i \in LiveIn(rules)' : Grounded(rules[i])'
    BY <1>1, <2>3 DEF LiveIn, Grounded
  <2>5. \A s \in Requests : Fresh(req[s])'
    BY <1>7 DEF Fresh
  <2>6. \A s, t \in Requests : Busy(s)' /\ Busy(t)' => s = t
    BY <1>7 DEF Busy
  <2> QED BY <2>4, <2>5, <2>6 DEF Healing
<1> QED BY <1>8, <1>9, <1>10 DEF Consistency

LEMMA CommitEndpointsKeeps ==
    ASSUME Consistency, NEW r \in Requests, CommitEndpoints(r)
    PROVE  Consistency'
<1> DEFINE q == req[r]
<1>1. /\ q.op = "endpoints" /\ endpoints' = Replaced(endpoints, q) /\ Len(endpoints') <= MaxEndpoints
      /\ req' = [req EXCEPT ![r] = Idle]
      /\ UNCHANGED <<sources, rules, saves, healed, worker, raised, batches, threads>>
  BY DEF CommitEndpoints, workerVars
<1>2. PageOf(q, Len(endpoints), EndpointRow)
  BY <1>1 DEF Consistency, Typed, Asked
<1>3. \A row, read, new \in EndpointRow : Written(row, read, new) \in EndpointRow
  BY EndpointWritten
<1>4. endpoints \in Seq(EndpointRow) /\ Len(rules) \in Nat /\ Len(endpoints) \in Nat
  BY TypesAre DEF Consistency
<1>5. endpoints' \in Seq(EndpointRow) /\ Len(endpoints) <= Len(endpoints')
  <2> HIDE DEF q
  <2> QED BY <1>1, <1>2, <1>3, <1>4, RowsDie, ReplacedIs
<1>6. Busy(r)
  BY <1>1 DEF Busy
<1> HIDE DEF q
<1>7. /\ req' = [s \in Requests |-> req'[s]] /\ req'[r] = Idle
      /\ \A s \in Requests \ {r} : req'[s] = req[s]
      /\ healed => \A s \in Requests : req'[s].op = "idle"
  BY <1>1, <1>6, DoneAlone
<1>8. Typed'
  <2>1. AlertsTypes'
    BY <1>1, <1>5 DEF Consistency, Typed, AlertsTypes
  <2>2. Len(endpoints') \in Nat
    BY <1>5
  <2>3. \A s \in Requests : Asked(req'[s], Len(endpoints'), Len(rules))
    <3>1. Asked(req'[r], Len(endpoints'), Len(rules))
      BY <1>7 DEF Asked, Idle
    <3>2. \A s \in Requests \ {r} : Asked(req'[s], Len(endpoints), Len(rules))
      BY <1>7 DEF Consistency, Typed
    <3>3. \A s \in Requests \ {r} : Asked(req'[s], Len(endpoints'), Len(rules))
      BY <1>4, <1>5, <2>2, <3>2, AskedGrows
    <3> QED BY <3>1, <3>3
  <2> QED BY <1>1, <1>7, <2>1, <2>3 DEF Typed
<1>9. Working' /\ Delivering'
  BY <1>1 DEF Consistency, Working, Delivering
<1>10. Healing'
  <2> SUFFICES ASSUME healed PROVE Healing'
    BY <1>1 DEF Healing
  <2>1. \A i \in LiveIn(rules)' : Grounded(rules[i])'
    BY <1>1 DEF Consistency, Healing, LiveIn, Grounded
  <2>2. \A s \in Requests : Fresh(req[s])'
    BY <1>7 DEF Fresh
  <2>3. \A s, t \in Requests : Busy(s)' /\ Busy(t)' => s = t
    BY <1>7 DEF Busy
  <2> QED BY <2>1, <2>2, <2>3 DEF Healing
<1> QED BY <1>8, <1>9, <1>10 DEF Consistency

\* A save of the sources deletes the rules that name one which is gone.
LEMMA SaveSourcesKeeps ==
    ASSUME Consistency, NEW left \in SUBSET sources, SaveSources(left)
    PROVE  Consistency'
<1>1. /\ saves < MaxSaves /\ saves' = saves + 1 /\ sources' = left
      /\ rules' = [i \in DOMAIN rules |->
              IF Dangling(rules[i], left) THEN [rules[i] EXCEPT !.live = FALSE] ELSE rules[i]]
      /\ healed' = Quiet
      /\ UNCHANGED <<endpoints, req, worker, raised, batches, threads>>
  BY DEF SaveSources, workerVars
<1>2. /\ rules \in Seq(Rule) /\ Len(rules) \in Nat /\ DOMAIN rules = 1..Len(rules)
      /\ \A i \in DOMAIN rules : rules[i] \in Rule
  BY TypesAre DEF Consistency
<1>3. /\ DOMAIN rules' = 1..Len(rules)
      /\ \A i \in DOMAIN rules : rules'[i] = IF Dangling(rules[i], left)
                                             THEN [rules[i] EXCEPT !.live = FALSE] ELSE rules[i]
  BY <1>1, <1>2
<1>4. \A i \in DOMAIN rules : rules'[i] \in Rule
  BY <1>2, <1>3, RowsDie
<1>5. rules' \in Seq(Rule) /\ Len(rules') = Len(rules)
  <2>1. rules' = [i \in 1..Len(rules) |-> rules'[i]]
    BY <1>1, <1>2
  <2>2. rules' \in [1..Len(rules) -> Rule]
    BY <1>2, <1>4, <2>1
  <2> QED BY <1>2, <2>2
<1>6. Typed'
  <2>1. saves' \in 0..MaxSaves
    BY <1>1, AlertsAssumption DEF Consistency, Typed, AlertsTypes
  <2>2. sources' \subseteq SourceIds /\ healed' \in BOOLEAN
    BY <1>1 DEF Consistency, Typed, AlertsTypes, Quiet
  <2>3. AlertsTypes'
    BY <1>1, <1>5, <2>1, <2>2 DEF Consistency, Typed, AlertsTypes
  <2> QED BY <1>1, <1>5, <2>3 DEF Consistency, Typed
<1>7. Working' /\ Delivering'
  BY <1>1 DEF Consistency, Working, Delivering
<1>8. Healing'
  <2> SUFFICES ASSUME Quiet PROVE Healing'
    BY <1>1 DEF Healing
  <2>1. \A s \in Requests : req'[s].op = "idle"
    BY <1>1 DEF Quiet, Busy
  <2>2. ASSUME NEW i \in DOMAIN rules, rules'[i].live PROVE Fires(rules'[i]) \subseteq sources'
    <3>1. CASE Dangling(rules[i], left)
      <4>1. rules'[i] = [rules[i] EXCEPT !.live = FALSE] /\ rules[i] \in Rule
        BY <1>2, <1>3, <3>1
      <4>2. rules'[i].live = FALSE
        BY <4>1 DEF Rule
      <4> QED BY <2>2, <4>2
    <3>2. CASE ~Dangling(rules[i], left)
      BY <1>1, <1>3, <3>2 DEF Dangling
    <3> QED BY <3>1, <3>2
  <2>3. \A i \in LiveIn(rules)' : Grounded(rules[i])'
    BY <1>2, <1>3, <2>2 DEF LiveIn, Grounded
  <2>4. \A s \in Requests : Fresh(req[s])'
    BY <2>1 DEF Fresh
  <2>5. \A s, t \in Requests : Busy(s)' /\ Busy(t)' => s = t
    BY <2>1 DEF Busy
  <2> QED BY <2>3, <2>4, <2>5 DEF Healing
<1> QED BY <1>6, <1>7, <1>8 DEF Consistency

-----------------------------------------------------------------------------
(* The worker and the threads that deliver. *)

\* What the worker does leaves the settings as they are.
LEMMA SettingsStay ==
    ASSUME Consistency, UNCHANGED apiVars, raised' \subseteq RuleIds \X Sources,
           batches' \in 0..MaxBatches
    PROVE  Typed' /\ Healing'
<1>1. UNCHANGED <<sources, endpoints, rules, req, saves, healed>>
  BY DEF apiVars
<1>2. Typed'
  BY <1>1 DEF Consistency, Typed, AlertsTypes, Sources
<1>3. Healing'
  BY <1>1 DEF Consistency, Healing, LiveIn, Busy, Grounded, Fresh
<1> QED BY <1>2, <1>3

LEMMA BatchesCount ==
    ASSUME Consistency
    PROVE  /\ raised \subseteq RuleIds \X Sources /\ batches \in 0..MaxBatches
           /\ batches < MaxBatches => batches + 1 \in 0..MaxBatches
  BY AlertsAssumption DEF Consistency, Typed, AlertsTypes, Sources

LEMMA MatchingAre ==
    ASSUME Consistency, NEW trigger, NEW source
    PROVE  Matching(trigger, source) \subseteq DOMAIN rules /\ Matching(trigger,
           source) \subseteq RuleIds
  BY TypesAre DEF Matching, LiveIn, Consistency

\* The rule in hand.
LEMMA RuleInHand ==
    ASSUME Consistency, worker.pc \in {"rules", "queue"}, worker.todo # {}
    PROVE  /\ worker \in [pc : {"rules", "queue"}, source : Sources, todo : SUBSET RuleIds]
           /\ Min(worker.todo) \in worker.todo /\ Min(worker.todo) \in RuleIds
           /\ worker.source \in Sources
<1>1. worker \in [pc : {"rules", "queue"}, source : Sources, todo : SUBSET RuleIds]
  BY DEF Consistency, Working
<1>2. worker.todo \subseteq RuleIds /\ RuleIds \subseteq Nat /\ worker.source \in Sources
  BY <1>1, AlertsAssumption DEF RuleIds
<1>3. Min(worker.todo) \in worker.todo
  BY <1>2, LeastIs
<1> QED BY <1>1, <1>2, <1>3

LEMMA TrackKeeps ==
    ASSUME Consistency, NEW source \in SourceIds, Track(source)
    PROVE  Consistency'
<1>1. /\ worker' = [pc |-> "rules", source |-> source, todo |-> Matching("alert", source)]
      /\ batches < MaxBatches /\ batches' = batches + 1
      /\ UNCHANGED <<apiVars, raised, threads>>
  BY DEF Track
<1>2. Typed' /\ Healing'
  BY <1>1, BatchesCount, SettingsStay
<1>3. Working'
  BY <1>1, MatchingAre DEF Working, Sources
<1>4. Delivering'
  BY <1>1 DEF Consistency, Delivering
<1> QED BY <1>2, <1>3, <1>4 DEF Consistency

LEMMA RaiseEventKeeps ==
    ASSUME Consistency, NEW source \in Sources, NEW kind, RaiseEvent(source, kind)
    PROVE  Consistency'
<1>1. /\ worker' = [pc |-> "event", source |-> source, kind |-> kind]
      /\ batches < MaxBatches /\ batches' = batches + 1
      /\ UNCHANGED <<apiVars, raised, threads>>
  BY DEF RaiseEvent
<1>2. Typed' /\ Healing'
  BY <1>1, BatchesCount, SettingsStay
<1>3. Working'
  BY <1>1 DEF Working
<1>4. Delivering'
  BY <1>1 DEF Consistency, Delivering
<1> QED BY <1>2, <1>3, <1>4 DEF Consistency

\* A thread whose record changed in one of these ways.
LEMMA ThreadIs ==
    ASSUME NEW t \in Thread
    PROVE  /\ t.rows \subseteq EndpointIds /\ t.todo \subseteq EndpointIds
              /\ t.fresh \subseteq EndpointIds
           /\ t.attached \in BOOLEAN /\ t.touched \in BOOLEAN /\ t.done \in BOOLEAN
  BY DEF Thread

\* Threads that stay as many, each as it should be.
LEMMA ThreadsStay ==
    ASSUME Delivering, DOMAIN threads' = DOMAIN threads,
           threads' = [t \in DOMAIN threads |-> threads'[t]],
           \A t \in DOMAIN threads :
              /\ threads'[t] \in Thread
              /\ ~threads'[t].done /\ ~threads'[t].touched
                 => threads'[t].todo \subseteq threads'[t].fresh
              /\ threads'[t].done /\ threads'[t].todo # {} => threads'[t].touched
    PROVE  Delivering'
<1>1. DOMAIN threads = 1..Len(threads) /\ Len(threads) \in Nat
  BY DEF Delivering
<1>2. threads' \in [1..Len(threads) -> Thread]
  BY <1>1
<1>3. threads' \in Seq(Thread)
  BY <1>1, <1>2
<1> QED BY <1>3 DEF Delivering

\* A commit of the worker: no row can be read until it was read again.
LEMMA ExpiredKeeps ==
    ASSUME Delivering, threads' = Expired
    PROVE  Delivering'
<1>1. DOMAIN threads' = DOMAIN threads /\ threads' = [t \in DOMAIN threads |-> threads'[t]]
  BY DEF Expired
<1>2. ASSUME NEW t \in DOMAIN threads
      PROVE  /\ threads'[t] \in Thread
             /\ ~threads'[t].done /\ ~threads'[t].touched
                => threads'[t].todo \subseteq threads'[t].fresh
             /\ threads'[t].done /\ threads'[t].todo # {} => threads'[t].touched
  <2>1. threads[t] \in Thread
    BY DEF Delivering
  <2>2. CASE threads[t].attached
    <3>1. threads'[t] = [threads[t] EXCEPT !.fresh = {}, !.touched = TRUE]
      BY <2>2 DEF Expired
    <3> QED BY <2>1, <3>1 DEF Thread
  <2>3. CASE ~threads[t].attached
    <3>1. threads'[t] = threads[t]
      BY <2>3 DEF Expired
    <3> QED BY <2>1, <3>1 DEF Delivering
  <2> QED BY <2>2, <2>3
<1> QED BY <1>1, <1>2, ThreadsStay

LEMMA RaiseAlertKeeps ==
    ASSUME Consistency, RaiseAlert
    PROVE  Consistency'
<1> DEFINE rule == Min(worker.todo)
           key == <<rule, worker.source>>
<1>1. /\ worker.pc = "rules" /\ worker.todo # {} /\ UNCHANGED <<apiVars, batches>>
      /\ IF key \in raised
         THEN worker' = [worker EXCEPT !.todo = worker.todo \ {rule}] /\ UNCHANGED <<raised, threads>>
         ELSE /\ raised' = raised \cup {key} /\ worker' = [worker EXCEPT !.pc = "queue"]
              /\ threads' = Expired
  BY DEF RaiseAlert
<1>2. /\ worker \in [pc : {"rules", "queue"}, source : Sources, todo : SUBSET RuleIds]
      /\ rule \in RuleIds /\ worker.source \in Sources
  BY <1>1, RuleInHand
<1> HIDE DEF rule
<1>3. raised' \subseteq RuleIds \X Sources
  BY <1>1, <1>2, BatchesCount
<1>4. batches' \in 0..MaxBatches
  BY <1>1, BatchesCount
<1>5. Typed' /\ Healing'
  BY <1>1, <1>3, <1>4, SettingsStay
<1>6. Working'
  BY <1>1, <1>2 DEF Working
<1>7. Delivering'
  <2>1. CASE threads' = Expired
    BY <2>1, ExpiredKeeps DEF Consistency
  <2>2. CASE UNCHANGED threads
    BY <2>2 DEF Consistency, Delivering
  <2> QED BY <1>1, <2>1, <2>2
<1> QED BY <1>5, <1>6, <1>7 DEF Consistency

\* What a notification reaches: rows that can be picked, of the targets if there are any.
Reached(e, targets) == e \in Selectable /\ (targets = None \/ e \in targets)

NewThreadsReach(new, targets) ==
    \A t \in DOMAIN new \ DOMAIN threads : \A e \in new[t].rows : Reached(e, targets)

\* A notification hands threads rows that were just read.
LEMMA QueueIs ==
    ASSUME Consistency, NEW targets, Queue(targets)
    PROVE  Delivering' /\ NewThreadsReach(threads', targets)
<1> DEFINE rows == {e \in Selectable : targets = None \/ e \in targets}
           Of(kind) == {e \in rows : endpoints[e].kind = kind}
           refreshed == [t \in DOMAIN threads |->
               IF threads[t].attached
               THEN [threads[t] EXCEPT !.fresh = threads[t].fresh \cup (threads[t].rows \cap Selectable)]
               ELSE threads[t]]
           kinds == {kind \in Kinds : Of(kind) # {}}
           started == SetToSeq(kinds)
           begun == [k \in DOMAIN started |->
               [rows |-> Of(started[k]), todo |-> Of(started[k]), fresh |-> Of(started[k]),
                attached |-> TRUE, touched |-> FALSE, done |-> FALSE]]
<1>1. threads' = refreshed \o begun
  BY DEF Queue
<1>2. Selectable \subseteq EndpointIds
  BY TypesAre DEF Selectable, LiveIn, Consistency
<1>3. \A kind : Of(kind) \subseteq rows /\ rows \subseteq EndpointIds
  BY <1>2
<1>4. threads \in Seq(Thread) /\ Len(threads) \in Nat /\ DOMAIN threads = 1..Len(threads)
  BY DEF Consistency, Delivering
<1> DEFINE Fine(thread) ==
      /\ thread \in Thread
      /\ ~thread.done /\ ~thread.touched => thread.todo \subseteq thread.fresh
      /\ thread.done /\ thread.todo # {} => thread.touched
<1>5. ASSUME NEW t \in DOMAIN threads PROVE Fine(refreshed[t])
  <2>1. threads[t] \in Thread /\ Fine(threads[t])
    BY <1>4 DEF Consistency, Delivering
  <2>2. CASE threads[t].attached
    <3> DEFINE more == threads[t].fresh \cup (threads[t].rows \cap Selectable)
    <3>1. refreshed[t] = [threads[t] EXCEPT !.fresh = more]
      BY <2>2
    <3>2. more \in SUBSET EndpointIds /\ threads[t].fresh \subseteq more
      BY <1>2, <2>1, ThreadIs
    <3> HIDE DEF more, refreshed
    <3> QED BY <2>1, <3>1, <3>2 DEF Thread
  <2>3. CASE ~threads[t].attached
    BY <2>1, <2>3
  <2> QED BY <2>2, <2>3
<1>6. started \in Seq(kinds)
  <2>1. IsFiniteSet(kinds)
    BY RowsAssumption, FS_Subset
  <2> HIDE DEF kinds
  <2> QED BY <2>1, SetToSeqLists
<1>7. ASSUME NEW k \in DOMAIN started PROVE Fine(begun[k]) /\ begun[k].rows \subseteq rows
  <2> DEFINE of == Of(started[k])
  <2>1. of \in SUBSET EndpointIds /\ of \subseteq rows
    BY <1>3
  <2>2. begun[k] = [rows |-> of, todo |-> of, fresh |-> of, attached |-> TRUE, touched |-> FALSE,
        done |-> FALSE]
    OBVIOUS
  <2> HIDE DEF of, begun, rows
  <2> QED BY <2>1, <2>2 DEF Thread
<1>8. Len(started) \in Nat /\ DOMAIN started = 1..Len(started)
  <2> HIDE DEF started, kinds
  <2> QED BY <1>6
<1>9. begun \in Seq(Thread) /\ DOMAIN begun = 1..Len(started) /\ Len(begun) = Len(started)
  <2>1. DOMAIN begun = 1..Len(started) /\ begun = [k \in 1..Len(started) |-> begun[k]]
    BY <1>8
  <2> HIDE DEF begun, started
  <2>2. begun \in [1..Len(started) -> Thread]
    BY <1>7, <1>8, <2>1
  <2> QED BY <1>8, <2>1, <2>2
<1>10. refreshed \in Seq(Thread) /\ Len(refreshed) = Len(threads)
  <2>1. DOMAIN refreshed = 1..Len(threads) /\ refreshed = [t \in 1..Len(threads) |-> refreshed[t]]
    BY <1>4
  <2> HIDE DEF refreshed
  <2>2. refreshed \in [1..Len(threads) -> Thread]
    BY <1>4, <1>5, <2>1
  <2> QED BY <1>4, <2>1, <2>2
<1> HIDE DEF refreshed, begun, rows, started
<1> DEFINE all == refreshed \o begun
<1>11. /\ all \in Seq(Thread) /\ Len(all) = Len(refreshed) + Len(begun)
       /\ DOMAIN all = 1..Len(refreshed) + Len(begun)
       /\ \A i \in 1..Len(refreshed) : all[i] = refreshed[i]
       /\ \A i \in Len(refreshed) + 1..Len(refreshed) + Len(begun) :
             all[i] = begun[i - Len(refreshed)] /\ i - Len(refreshed) \in 1..Len(begun)
  <2>1. refreshed \in Seq(Thread) /\ begun \in Seq(Thread)
    BY <1>9, <1>10
  <2> QED BY ONLY <2>1, ConcatIs
<1>12. threads' = all
  BY <1>1
<1> HIDE DEF all
<1>13. ASSUME NEW i \in DOMAIN all PROVE Fine(all[i]) /\ (i \notin DOMAIN threads
              => all[i].rows \subseteq rows)
  <2> HIDE DEF Fine
  <2>1. CASE i <= Len(threads)
    <3>1. i \in DOMAIN threads /\ all[i] = refreshed[i]
      BY <1>4, <1>8, <1>9, <1>10, <1>11, <2>1
    <3> QED BY <1>5, <3>1
  <2>2. CASE ~(i <= Len(threads))
    <3>1. i - Len(threads) \in DOMAIN started /\ all[i] = begun[i - Len(threads)]
      BY <1>4, <1>8, <1>9, <1>10, <1>11, <2>2
    <3> QED BY <1>7, <3>1
  <2> QED BY <2>1, <2>2
<1>14. Delivering'
  BY <1>11, <1>12, <1>13 DEF Delivering
<1>15. NewThreadsReach(all, targets)
  BY <1>13 DEF NewThreadsReach, Reached, rows
<1> QED BY <1>12, <1>14, <1>15

LEMMA QueueAlertKeeps ==
    ASSUME Consistency, QueueAlert
    PROVE  Consistency'
<1>1. /\ worker.pc = "queue" /\ Queue(rules[Min(worker.todo)].targets)
      /\ worker' = [worker EXCEPT !.pc = "rules", !.todo = worker.todo \ {Min(worker.todo)}]
      /\ UNCHANGED <<apiVars, raised, batches>>
  BY DEF QueueAlert
<1>2. Typed' /\ Healing'
  BY <1>1, BatchesCount, SettingsStay
<1>3. Working'
  <2>1. worker.todo # {}
    BY <1>1 DEF Consistency, Working
  <2>2. worker \in [pc : {"rules", "queue"}, source : Sources, todo : SUBSET RuleIds]
    BY <1>1, <2>1, RuleInHand
  <2> QED BY <1>1, <2>2 DEF Working
<1>4. Delivering'
  BY <1>1, QueueIs
<1> QED BY <1>2, <1>3, <1>4 DEF Consistency

\* The targets of an event.
EventTargets ==
    LET own == TriggerTargets(Matching("event", worker.source))
    IN  CASE worker.kind = "other" -> None
          [] worker.kind = "anomaly" /\ own = None -> SourceTargets(worker.source)
          [] OTHER -> own

LEMMA QueueEventKeeps ==
    ASSUME Consistency, QueueEvent
    PROVE  Consistency'
<1>1. /\ worker.pc = "event" /\ Queue(EventTargets)
      /\ worker' = IF worker.kind = "anomaly"
                   THEN [pc |-> "rules", source |-> worker.source,
                         todo |-> Matching("alert", worker.source)]
                   ELSE [pc |-> "rest"]
      /\ UNCHANGED <<apiVars, raised, batches>>
  BY DEF QueueEvent, EventTargets
<1>2. Typed' /\ Healing'
  BY <1>1, BatchesCount, SettingsStay
<1>3. Working'
  <2>1. CASE worker.kind = "anomaly"
    <3>1. worker' = [pc |-> "rules", source |-> worker.source, todo |-> Matching("alert",
          worker.source)]
      BY <1>1, <2>1
    <3>2. worker.source \in Sources /\ Matching("alert", worker.source) \in SUBSET RuleIds
      BY <1>1, MatchingAre DEF Consistency, Working
    <3> QED BY <3>1, <3>2 DEF Working
  <2>2. CASE worker.kind # "anomaly"
    BY <1>1, <2>2 DEF Working
  <2> QED BY <2>1, <2>2
<1>4. Delivering'
  BY <1>1, QueueIs
<1> QED BY <1>2, <1>3, <1>4 DEF Consistency

LEMMA WriteRestKeeps ==
    ASSUME Consistency, WriteRest
    PROVE  Consistency'
<1>1. worker' = [pc |-> "close"] /\ threads' = Expired /\ UNCHANGED <<apiVars, raised, batches>>
  BY DEF WriteRest
<1>2. Typed' /\ Healing'
  BY <1>1, BatchesCount, SettingsStay
<1>3. Working'
  BY <1>1 DEF Working
<1>4. Delivering'
  BY <1>1, ExpiredKeeps DEF Consistency
<1> QED BY <1>2, <1>3, <1>4 DEF Consistency

LEMMA CloseSessionKeeps ==
    ASSUME Consistency, CloseSession
    PROVE  Consistency'
<1>1. /\ worker' = [pc |-> "idle"] /\ UNCHANGED <<apiVars, raised, batches>>
      /\ threads' = [t \in DOMAIN threads |-> [threads[t] EXCEPT !.attached = FALSE]]
  BY DEF CloseSession
<1>2. Typed' /\ Healing'
  BY <1>1, BatchesCount, SettingsStay
<1>3. Working'
  BY <1>1 DEF Working
<1>4. Delivering'
  <2>1. DOMAIN threads' = DOMAIN threads /\ threads' = [t \in DOMAIN threads |-> threads'[t]]
    BY <1>1
  <2>2. ASSUME NEW t \in DOMAIN threads
        PROVE  /\ threads'[t] \in Thread
               /\ ~threads'[t].done /\ ~threads'[t].touched
                  => threads'[t].todo \subseteq threads'[t].fresh
               /\ threads'[t].done /\ threads'[t].todo # {} => threads'[t].touched
    <3>1. threads'[t] = [threads[t] EXCEPT !.attached = FALSE] /\ threads[t] \in Thread
      BY <1>1 DEF Consistency, Delivering
    <3>2. /\ ~threads[t].done /\ ~threads[t].touched => threads[t].todo \subseteq threads[t].fresh
          /\ threads[t].done /\ threads[t].todo # {} => threads[t].touched
      BY DEF Consistency, Delivering
    <3> QED BY <3>1, <3>2 DEF Thread
  <2> QED BY <2>1, <2>2, ThreadsStay DEF Consistency
<1> QED BY <1>2, <1>3, <1>4 DEF Consistency

\* One thread changed, in the way a thread may.
LEMMA ThreadChanges ==
    ASSUME Consistency, NEW t \in DOMAIN threads, NEW new \in Thread,
           threads' = [threads EXCEPT ![t] = new],
           ~new.done /\ ~new.touched => new.todo \subseteq new.fresh,
           new.done /\ new.todo # {} => new.touched,
           UNCHANGED <<apiVars, workerVars>>
    PROVE  Consistency'
<1>1. UNCHANGED <<apiVars, worker, raised, batches>>
  BY DEF workerVars
<1>2. Typed' /\ Healing'
  BY <1>1, BatchesCount, SettingsStay
<1>3. Working'
  BY <1>1 DEF Consistency, Working
<1>4. Delivering'
  <2>1. DOMAIN threads' = DOMAIN threads /\ threads' = [s \in DOMAIN threads |-> threads'[s]]
    BY DEF Consistency, Delivering
  <2>2. ASSUME NEW s \in DOMAIN threads
        PROVE  /\ threads'[s] \in Thread
               /\ ~threads'[s].done /\ ~threads'[s].touched
                  => threads'[s].todo \subseteq threads'[s].fresh
               /\ threads'[s].done /\ threads'[s].todo # {} => threads'[s].touched
    <3>1. CASE s = t
      <4>1. threads'[s] = new
        BY <3>1
      <4> QED BY <4>1
    <3>2. CASE s # t
      <4>1. threads'[s] = threads[s]
        BY <3>2
      <4> QED BY <4>1 DEF Consistency, Delivering
    <3> QED BY <3>1, <3>2
  <2> QED BY <2>1, <2>2, ThreadsStay DEF Consistency
<1> QED BY <1>2, <1>3, <1>4 DEF Consistency

\* A thread that does not end without having tried all while its rows could be read.
LEMMA NotifierKeeps ==
    ASSUME Consistency, NEW t \in DOMAIN threads, Notifier(t)
    PROVE  Consistency'
<1> DEFINE thread == threads[t]
<1>1. /\ thread \in Thread
      /\ ~thread.done /\ ~thread.touched => thread.todo \subseteq thread.fresh
      /\ thread.done /\ thread.todo # {} => thread.touched
  BY DEF Consistency, Delivering
<1>2. thread.todo # {} => Min(thread.todo) \in thread.todo
  <2>1. thread.todo \subseteq Nat
    BY <1>1, ThreadIs, AlertsAssumption DEF EndpointIds
  <2> QED BY <2>1, LeastIs
<1>3. CASE Deliver(t)
  <2> DEFINE left == thread.todo \ {Min(thread.todo)}
             new == [thread EXCEPT !.todo = left]
  <2>1. threads' = [threads EXCEPT ![t] = new] /\ ~thread.done /\ UNCHANGED <<apiVars, workerVars>>
    BY <1>3 DEF Deliver
  <2>2. left \in SUBSET EndpointIds /\ left \subseteq thread.todo
    BY <1>1, ThreadIs
  <2>3. /\ new \in Thread /\ new.done = thread.done /\ new.touched = thread.touched
        /\ new.todo = left /\ new.fresh = thread.fresh
    <3> HIDE DEF left, thread
    <3> QED BY <1>1, <2>2 DEF Thread
  <2> HIDE DEF new, left
  <2>4. ~new.done /\ ~new.touched => new.todo \subseteq new.fresh
    BY <1>1, <2>2, <2>3
  <2>5. new.done /\ new.todo # {} => new.touched
    BY <2>1, <2>3
  <2> QED BY <2>1, <2>3, <2>4, <2>5, ThreadChanges
<1>4. CASE LoseRow(t) \/ EndThread(t)
  <2> DEFINE new == Ended(thread)
  <2>1. threads' = [threads EXCEPT ![t] = new] /\ UNCHANGED <<apiVars, workerVars>> /\ ~thread.done
    BY <1>4 DEF LoseRow, EndThread
  <2>2. thread.todo # {} => Min(thread.todo) \notin thread.fresh
    BY <1>4 DEF LoseRow, EndThread
  <2>3. thread.todo # {} => thread.touched
    BY <1>1, <1>2, <2>1, <2>2
  <2>4. /\ new \in Thread /\ new.done = TRUE /\ new.touched = thread.touched /\ new.todo = thread.todo
    <3> HIDE DEF thread
    <3> QED BY <1>1 DEF Thread, Ended
  <2> HIDE DEF new
  <2>5. (~new.done /\ ~new.touched => new.todo \subseteq new.fresh) /\ (new.done /\ new.todo # {}
        => new.touched)
    BY <2>3, <2>4
  <2> QED BY <2>1, <2>4, <2>5, ThreadChanges
<1> QED BY <1>3, <1>4 DEF Notifier

-----------------------------------------------------------------------------
LEMMA Initially == Init => Consistency
<1> SUFFICES ASSUME Init PROVE Consistency
  OBVIOUS
<1>1. /\ sources = SourceIds /\ endpoints = OldEndpoints /\ rules = OldRules
      /\ req = [r \in Requests |-> Idle] /\ saves = 0 /\ healed = TRUE
      /\ worker = [pc |-> "idle"] /\ raised = {} /\ batches = 0 /\ threads = <<>>
  BY DEF Init
<1>2. Typed
  <2>1. AlertsTypes
    BY <1>1, RowsAssumption, AlertsAssumption DEF AlertsTypes
  <2> QED BY <1>1, <2>1 DEF Typed, Asked, Idle
<1>3. Working
  BY <1>1 DEF Working
<1>4. Delivering
  BY <1>1 DEF Delivering
<1>5. Healing
  <2>1. \A r \in Requests : req[r].op = "idle"
    BY <1>1 DEF Idle
  <2>2. \A i \in LiveIn(rules) : Grounded(rules[i])
    <3> SUFFICES ASSUME NEW i \in DOMAIN OldRules PROVE Fires(OldRules[i]) \subseteq SourceIds
      BY <1>1 DEF LiveIn, Grounded
    <3>1. OldRules[i] \in Rule
      BY RowsAssumption
    <3>2. OldRules[i].ids \subseteq SourceIds /\ OldRules[i].template \in Sources
      BY <3>1, FieldsOf
    <3> QED BY <3>2 DEF Fires, Sources
  <2> QED BY <2>1, <2>2 DEF Healing, Busy, Fresh
<1> QED BY <1>2, <1>3, <1>4, <1>5 DEF Consistency

LEMMA StepKeeps == Consistency /\ [Next]_vars => Consistency'
<1> SUFFICES ASSUME Consistency, [Next]_vars PROVE Consistency'
  OBVIOUS
<1>1. ASSUME NEW r \in Requests, Request(r) PROVE Consistency'
  <2>1. CASE \E page \in Pages(RulePage, RuleEntries) : OpenTriggerRules(r, page[1], page[2])
    BY <2>1, OpenTriggerRulesKeeps
  <2>2. CASE \E page \in Pages(AlertPage, AlertEntries) : OpenAlertRules(r, page[1], page[2])
    BY <2>2, OpenAlertRulesKeeps
  <2>3. CASE \E kind \in Kinds \cup {None}, page \in Pages(EndpointPage, EndpointEntries) :
                OpenEndpoints(r, kind, page[1], page[2])
    BY <2>3, OpenEndpointsKeeps
  <2>4. CASE CommitRules(r)
    BY <2>4, CommitRulesKeeps
  <2>5. CASE CommitEndpoints(r)
    BY <2>5, CommitEndpointsKeeps
  <2> QED BY <1>1, <2>1, <2>2, <2>3, <2>4, <2>5 DEF Request
<1>2. ASSUME NEW left \in SUBSET sources, SaveSources(left) PROVE Consistency'
  BY <1>2, SaveSourcesKeeps
<1>3. CASE Worker
  <2>1. CASE \E source \in SourceIds : Track(source)
    BY <2>1, TrackKeeps
  <2>2. CASE \E source \in SourceIds \cup {None}, kind \in {"anomaly", "timed",
             "other"} : RaiseEvent(source, kind)
    BY <2>2, RaiseEventKeeps DEF Sources
  <2>3. CASE RaiseAlert \/ QueueAlert \/ QueueEvent \/ WriteRest \/ CloseSession
    BY <2>3, RaiseAlertKeeps, QueueAlertKeeps, QueueEventKeeps, WriteRestKeeps, CloseSessionKeeps
  <2> QED BY <1>3, <2>1, <2>2, <2>3 DEF Worker
<1>4. ASSUME NEW t \in DOMAIN threads, Notifier(t) PROVE Consistency'
  BY <1>4, NotifierKeeps
<1>5. CASE UNCHANGED vars
  <2>1. UNCHANGED <<apiVars, worker, raised, batches, threads>>
    BY <1>5 DEF vars, workerVars
  <2>2. Typed' /\ Healing'
    BY <2>1, BatchesCount, SettingsStay
  <2> QED BY <2>1, <2>2 DEF Consistency, Working, Delivering
<1> QED BY <1>1, <1>2, <1>3, <1>4, <1>5 DEF Next

\* The invariant holds in every state.
LEMMA AlwaysConsistent == Spec => []Consistency
  BY Initially, StepKeeps, PTL DEF Spec

(***************************************************************************)
(* After the sources were saved undisturbed, and until requests overlap    *)
(* again, alert rules fire for sources that are there only, whichever of   *)
(* the two pages wrote them: what a page read is still so when it commits, *)
(* and the list of sources it does not show was valid when it was read.    *)
(***************************************************************************)
THEOREM RulesAlwaysHeal == Spec => []RulesHeal
<1>1. Consistency => RulesHeal
  BY DEF Consistency, Typed, Healing, Grounded, RulesHeal
<1> QED BY <1>1, AlwaysConsistent, PTL

\* A secret changes by a page that enters one, or that had read another row.
LEMMA SecretChanges ==
    ASSUME Consistency, NEW r \in Requests, CommitEndpoints(r), NEW i \in DOMAIN endpoints,
           endpoints'[i].config.secret # endpoints[i].config.secret
    PROVE  /\ Busy(r) /\ ~Busy(r)'
           /\ \/ req[r].entered[i] = endpoints'[i].config.secret /\ req[r].entered[i] # None
              \/ req[r].read[i] # endpoints[i]
<1> DEFINE q == req[r]
<1>1. /\ q.op = "endpoints" /\ endpoints' = Replaced(endpoints, q) /\ req' = [req EXCEPT ![r] = Idle]
  BY DEF CommitEndpoints
<1>2. Busy(r) /\ ~Busy(r)'
  <2>1. req'[r] = Idle
    BY <1>1 DEF Consistency, Typed
  <2> QED BY <1>1, <2>1 DEF Busy, Idle
<1>3. /\ PageOf(q, Len(endpoints), EndpointRow)
      /\ \A j \in DOMAIN q.list \cap DOMAIN q.read :
            q.list[j].config.secret = Kept(q.read[j].config.secret, q.entered[j])
  BY <1>1 DEF Consistency, Typed, Asked
<1>4. \A row, read, new \in EndpointRow : Written(row, read, new) \in EndpointRow
  BY EndpointWritten
<1>5. \A row \in EndpointRow : [row EXCEPT !.live = FALSE] \in EndpointRow
  BY RowsDie
<1>6. endpoints \in Seq(EndpointRow) /\ endpoints[i] \in EndpointRow
  BY TypesAre DEF Consistency
<1> DEFINE all == Replaced(endpoints, q)
<1>7. /\ i \notin DOMAIN q.read => all[i] = endpoints[i]
      /\ i \in DOMAIN q.read \cap DOMAIN q.list => all[i] = Written(endpoints[i], q.read[i], q.list[i])
      /\ i \in DOMAIN q.read \ DOMAIN q.list => all[i] = [endpoints[i] EXCEPT !.live = FALSE]
  <2> HIDE DEF q
  <2>1. endpoints \in Seq(EndpointRow) /\ PageOf(q, Len(endpoints), EndpointRow)
    BY <1>3, <1>6
  <2>2. /\ all \in Seq(EndpointRow) /\ DOMAIN endpoints \subseteq DOMAIN all
           /\ Len(endpoints) <= Len(all)
        /\ \A j \in DOMAIN endpoints :
              /\ j \notin DOMAIN q.read => all[j] = endpoints[j]
              /\ j \in DOMAIN q.read \cap DOMAIN q.list => all[j] = Written(endpoints[j], q.read[j],
                 q.list[j])
              /\ j \in DOMAIN q.read \ DOMAIN q.list => all[j] = [endpoints[j] EXCEPT !.live = FALSE]
        /\ \A j \in DOMAIN all \ DOMAIN endpoints :
              (\E l \in DOMAIN q.list : all[j] = q.list[l])
              \/ (\E k \in DOMAIN q.new : all[j] = q.new[k])
    BY ONLY <1>4, <1>5, <2>1, ReplacedIs
  <2> HIDE DEF all
  <2> QED BY <2>2
<1>8. all = endpoints'
  BY <1>1
<1> HIDE DEF all, q
<1>9. [endpoints[i] EXCEPT !.live = FALSE].config = endpoints[i].config
  BY <1>6 DEF EndpointRow
<1>10. i \in DOMAIN q.read \cap DOMAIN q.list
  BY <1>7, <1>8, <1>9
<1>11. SUFFICES ASSUME q.read[i] = endpoints[i]
                PROVE  q.entered[i] = endpoints'[i].config.secret /\ q.entered[i] # None
  BY <1>2 DEF q
<1>12. q.list[i] \in EndpointRow
  BY <1>3, <1>10 DEF PageOf
<1>13. endpoints'[i] = q.list[i]
  BY <1>6, <1>7, <1>8, <1>10, <1>11, <1>12, EndpointWritten
<1>14. endpoints'[i].config.secret = Kept(endpoints[i].config.secret, q.entered[i])
  BY <1>3, <1>10, <1>11, <1>13
<1> QED BY <1>14 DEF Kept

\* Only a page of endpoints writes endpoints.
LEMMA OnlyPagesWriteEndpoints ==
    ASSUME [Next]_vars, endpoints' # endpoints
    PROVE  \E r \in Requests : CommitEndpoints(r)
<1>1. ASSUME NEW r \in Requests, Request(r) PROVE CommitEndpoints(r)
  BY <1>1 DEF Request, OpenTriggerRules, OpenAlertRules, OpenEndpoints, Begin, CommitRules
<1>2. ~\E left \in SUBSET sources : SaveSources(left)
  BY DEF SaveSources
<1>3. ~Worker
  BY DEF Worker, Track, RaiseEvent, RaiseAlert, QueueAlert, QueueEvent, WriteRest, CloseSession, apiVars
<1>4. ~\E t \in DOMAIN threads : Notifier(t)
  BY DEF Notifier, Deliver, LoseRow, EndThread, apiVars
<1>5. ~UNCHANGED vars
  BY DEF vars, apiVars
<1> QED BY <1>1, <1>2, <1>3, <1>4, <1>5 DEF Next

(***************************************************************************)
(* What a page shows in place of a secret is never stored, and an operator *)
(* who enters no new secret leaves the stored one alone, unless another    *)
(* wrote the endpoint since the page was read, for any number of           *)
(* endpoints, secrets and requests.                                        *)
(***************************************************************************)
THEOREM SecretAlwaysSurvives == Spec => SecretSurvives
<1> DEFINE A == /\ \A i \in DOMAIN endpoints' : endpoints'[i].config.secret # Mask
                /\ \A i \in DOMAIN endpoints :
                     endpoints'[i].config.secret # endpoints[i].config.secret =>
                       \E r \in Requests :
                          /\ Busy(r) /\ ~Busy(r)'
                          /\ \/ req[r].entered[i] = endpoints'[i].config.secret /\ req[r].entered[i] # None
                             \/ req[r].read[i] # endpoints[i]
<1>1. Consistency /\ Consistency' /\ [Next]_vars => [A]_vars
  <2> SUFFICES ASSUME Consistency, Consistency', [Next]_vars PROVE A
    OBVIOUS
  <2>1. \A i \in DOMAIN endpoints' : endpoints'[i].config.secret # Mask
    <3>1. (\A i \in DOMAIN endpoints : endpoints[i].config.secret # Mask)'
      <4>1. Mask \notin Secrets \cup {None}
        BY AlertsAssumption DEF Secrets
      <4>2. endpoints' \in Seq(EndpointRow)
        BY DEF Consistency, Typed, AlertsTypes
      <4>3. \A i \in DOMAIN endpoints' : endpoints'[i] \in EndpointRow
        BY <4>2
      <4> QED BY <4>1, <4>3, FieldsOf
    <3> QED BY <3>1
  <2>2. ASSUME NEW i \in DOMAIN endpoints, endpoints'[i].config.secret # endpoints[i].config.secret
        PROVE  \E r \in Requests :
                  /\ Busy(r) /\ ~Busy(r)'
                  /\ \/ req[r].entered[i] = endpoints'[i].config.secret /\ req[r].entered[i] # None
                     \/ req[r].read[i] # endpoints[i]
    <3>1. PICK r \in Requests : CommitEndpoints(r)
      BY <2>2, OnlyPagesWriteEndpoints
    <3> QED BY <2>2, <3>1, SecretChanges
  <2> QED BY <2>1, <2>2
<1> QED BY <1>1, AlwaysConsistent, PTL DEF Spec, SecretSurvives

\* The threads a step starts reach rows that were chosen.
LEMMA ChosenWhenQueued ==
    ASSUME Consistency, [Next]_vars, NEW t \in DOMAIN threads' \ DOMAIN threads,
           NEW e \in threads'[t].rows
    PROVE  LET fired == {i \in Fired : rules[i].targets # None}
           IN  /\ endpoints[e].live /\ endpoints[e].enabled
               /\ fired # {} => \E i \in fired : e \in rules[i].targets
<1> DEFINE fired == {i \in Fired : rules[i].targets # None}
<1>1. CASE QueueAlert
  <2> DEFINE rule == Min(worker.todo)
  <2>1. worker.pc = "queue" /\ Queue(rules[rule].targets)
    BY <1>1 DEF QueueAlert
  <2>2. NewThreadsReach(threads', rules[rule].targets)
    BY <2>1, QueueIs
  <2>3. Fired = {rule}
    BY <2>1 DEF Fired
  <2>4. Reached(e, rules[rule].targets)
    BY <2>2 DEF NewThreadsReach
  <2> HIDE DEF rule
  <2> QED BY <2>3, <2>4 DEF Reached, Selectable, LiveIn
<1>2. CASE QueueEvent
  <2> DEFINE matching == Matching("event", worker.source)
  <2>1. worker.pc = "event" /\ Queue(EventTargets)
    BY <1>2 DEF QueueEvent, EventTargets
  <2>2. Reached(e, EventTargets)
    BY <2>1, QueueIs DEF NewThreadsReach
  <2>3. endpoints[e].live /\ endpoints[e].enabled
    BY <2>2 DEF Reached, Selectable, LiveIn
  <2>4. ASSUME fired # {} PROVE \E i \in fired : e \in rules[i].targets
    <3>1. worker.kind # "other" /\ Fired = matching
      BY <2>1, <2>4 DEF Fired
    <3>2. fired = Explicit(matching)
      BY <3>1 DEF Explicit
    <3>3. \A i \in fired : rules[i].targets \subseteq EndpointIds
      BY <3>2, TypesAre, FieldsOf DEF Explicit, Matching, LiveIn, Consistency
    <3>4. TargetsOf(matching) \in SUBSET EndpointIds
      BY <3>2, <3>3 DEF TargetsOf
    <3>5. TargetsOf(matching) # None
      BY <3>4, RowsAssumption
    <3>6. TriggerTargets(matching) = TargetsOf(matching)
      BY <2>4, <3>2 DEF TriggerTargets
    <3>7. EventTargets = TargetsOf(matching)
      BY <3>1, <3>5, <3>6 DEF EventTargets
    <3>8. e \in TargetsOf(matching)
      BY <2>2, <3>5, <3>7 DEF Reached
    <3> QED BY <3>2, <3>8 DEF TargetsOf
  <2> QED BY <2>3, <2>4
<1>3. CASE ~QueueAlert /\ ~QueueEvent
  <2>1. DOMAIN threads' # DOMAIN threads
    OBVIOUS
  <2>2. ASSUME NEW r \in Requests, Request(r) PROVE threads' = threads
    BY <2>2 DEF Request, OpenTriggerRules, OpenAlertRules, OpenEndpoints, Begin, CommitRules,
       CommitEndpoints
  <2>3. \A left \in SUBSET sources : SaveSources(left) => threads' = threads
    BY DEF SaveSources
  <2>4. Worker => DOMAIN threads' = DOMAIN threads
    BY <1>3 DEF Worker, Track, RaiseEvent, RaiseAlert, WriteRest, CloseSession, Expired
  <2>5. ASSUME NEW s \in DOMAIN threads, Notifier(s) PROVE DOMAIN threads' = DOMAIN threads
    BY <2>5 DEF Notifier, Deliver, LoseRow, EndThread
  <2>6. UNCHANGED vars => threads' = threads
    BY DEF vars
  <2> QED BY <2>1, <2>2, <2>3, <2>4, <2>5, <2>6 DEF Next
<1> QED BY <1>1, <1>2, <1>3

(***************************************************************************)
(* When a rule of the trigger has its connectors chosen, be it none, what  *)
(* fires reaches none but those, and no disabled or deleted one; and a     *)
(* thread that was handed connectors tries each, unless the worker wrote   *)
(* to its session meanwhile.                                               *)
(***************************************************************************)
THEOREM AlwaysDeliveredAsChosen == Spec => DeliveredAsChosen
<1> DEFINE A == \A t \in DOMAIN threads' \ DOMAIN threads : \A e \in threads'[t].rows :
                   LET fired == {i \in Fired : rules[i].targets # None}
                   IN  /\ endpoints[e].live /\ endpoints[e].enabled
                       /\ fired # {} => \E i \in fired : e \in rules[i].targets
<1>1. Consistency /\ [Next]_vars => [A]_vars
  BY ChosenWhenQueued
<1>2. Consistency => NoSilentLoss
  BY DEF Consistency, Delivering, NoSilentLoss
<1> QED BY <1>1, <1>2, AlwaysConsistent, PTL DEF Spec, DeliveredAsChosen, ChosenConnectorsOnly

-----------------------------------------------------------------------------
(* The sources, with their uploads and the models they run. *)

MediaStates == {"staged", "attached", "active", "deleted"}
Ops == {"idle", "save", "saved", "delete", "unlinked", "bind", "mount"}

\* What a client may list, with uploads up to `media`.
Listed(e, media) == e \in Src!Content /\ e.upload \in (1..media) \cup {None}

\* What a handler has read, with rows up to `rows` and uploads up to `media`.
SourcesAsked(q, rows, media) ==
    /\ q.op \in Ops
    /\ q.op \in {"save", "saved", "bind", "mount"} => q.mount \subseteq Models
    /\ q.op = "save" => /\ IsFiniteSet(q.new) /\ \A e \in q.new : Listed(e, media)
                        /\ DOMAIN q.list \subseteq 1..rows
                        /\ \A i \in DOMAIN q.list : Listed(q.list[i], media)
    /\ q.op \in {"delete", "unlinked"} => q \in [op : {"delete", "unlinked"}, upload : 1..media]
    /\ q.op = "bind" => q.model \in Models \cup {None}
    /\ q.op \in {"bind", "mount"} => q.default \in Models \cup {None}

SourcesTyped ==
    /\ Src!SourcesTypes
    /\ \A i \in DOMAIN inputs : inputs[i].upload \in DOMAIN uploads \cup {None}
    /\ asked = [r \in Requests |-> asked[r]]
    /\ \A r \in Requests : SourcesAsked(asked[r], Len(inputs), Len(uploads))

\* An upload that was deleted, or is about to be, has no file left.
FilesGone ==
    /\ \A u \in DOMAIN uploads : uploads[u] = "deleted" => u \notin files
    /\ \A r \in Requests : asked[r].op = "unlinked" => asked[r].upload \notin files

\* As long as nothing disturbs them, requests come one at a time.
OneAtATime ==
    /\ mended => ~disturbed
    /\ ~disturbed => \A r, s \in Requests : Src!Busy(r) /\ Src!Busy(s) => r = s

\* An entry whose upload was not deleted and whose model is among those mounted.
Served(e, mount) ==
    /\ e.upload # None => uploads[e.upload] # "deleted"
    /\ e.model \in mount \cup {None}

\* What a handler has read is still so.
SourcesFresh(q) ==
    /\ q.op = "save" =>
          /\ q.known = Src!Live
          /\ \A e \in q.new : Served(e, q.mount)
          /\ \A i \in DOMAIN q.list : Served(q.list[i], q.mount)
    /\ q.op = "saved" =>
          /\ q.lost = {} /\ q.wrote \subseteq Src!Live /\ Src!Live \subseteq q.known \cup q.wrote
          /\ \A i \in q.wrote : Served(inputs[i], q.mount)
    /\ q.op \in {"delete", "unlinked"} => q.upload \notin Src!UploadsOf(Src!Live)
    /\ q.op = "bind" => Src!Effective \subseteq q.mount /\ q.model \in q.mount \cup {None}
    /\ q.op = "mount" => q.known = Src!Live /\ q.missing = Src!Required \ q.mount

AllFresh == ~disturbed => \A r \in Requests : SourcesFresh(asked[r])

\* Between the two commits of a save the rows are ahead of the rest.
Agree ==
    mended /\ (\A r \in Requests : asked[r].op # "saved") =>
        Src!SourcesAreServed /\ Src!UploadsAreFiled

SourcesConsistency == SourcesTyped /\ FilesGone /\ OneAtATime /\ AllFresh /\ Agree

-----------------------------------------------------------------------------
(* The operators of the model. *)

\* A set is listed with all its entries its own.
LEMMA SourcesSetToSeqLists ==
    ASSUME NEW S, IsFiniteSet(S)
    PROVE  Src!SetToSeq(S) \in Seq(S)
<1>0. Src!Cardinality(S) = Cardinality(S)
  BY DEF Src!Cardinality, Cardinality
<1>1. Cardinality(S) \in Nat /\ \E f \in [1..Cardinality(S) -> S] : IsInjective(f)
  BY FS_CardinalityType DEF ExistsBijection, Bijection, Injection
<1>2. Src!SetToSeq(S) \in [1..Cardinality(S) -> S]
  BY <1>1, <1>0 DEF Src!SetToSeq, Src!IsInjective, IsInjective
<1> QED BY <1>1, <1>2

\* SyncUploads deletes no upload and brings none back, stages none that is attached,
\* and attaches no other.
LEMMA SyncIs ==
    ASSUME uploads \in Seq(MediaStates), NEW attached, NEW active
    PROVE  /\ Src!SyncUploads(attached, active) \in Seq(MediaStates)
           /\ Len(Src!SyncUploads(attached, active)) = Len(uploads)
           /\ DOMAIN Src!SyncUploads(attached, active) = DOMAIN uploads
           /\ \A u \in DOMAIN uploads :
                 /\ Src!SyncUploads(attached, active)[u] = "deleted" <=> uploads[u] = "deleted"
                 /\ Src!SyncUploads(attached, active)[u] \in {"attached", "active"}
                    => u \in attached \cup active
                 /\ u \in attached \cup active => Src!SyncUploads(attached, active)[u] # "staged"
<1> DEFINE new == Src!SyncUploads(attached, active)
<1>1. /\ new = [u \in DOMAIN uploads |-> new[u]] /\ DOMAIN new = DOMAIN uploads
      /\ DOMAIN uploads = 1..Len(uploads) /\ Len(uploads) \in Nat
  BY DEF Src!SyncUploads
<1>2. ASSUME NEW u \in DOMAIN uploads
      PROVE  /\ new[u] \in MediaStates
             /\ new[u] = "deleted" <=> uploads[u] = "deleted"
             /\ new[u] \in {"attached", "active"} => u \in attached \cup active
             /\ u \in attached \cup active => new[u] # "staged"
  <2>1. CASE uploads[u] = "deleted"
    BY <2>1 DEF Src!SyncUploads, MediaStates
  <2>2. CASE uploads[u] # "deleted" /\ u \in active
    BY <2>2 DEF Src!SyncUploads, MediaStates
  <2>3. CASE uploads[u] # "deleted" /\ u \in attached \ active
    BY <2>3 DEF Src!SyncUploads, MediaStates
  <2>4. CASE uploads[u] # "deleted" /\ u \notin active /\ u \notin attached
    BY <2>4 DEF Src!SyncUploads, MediaStates
  <2> QED BY <2>1, <2>2, <2>3, <2>4
<1> HIDE DEF new
<1>3. new \in [1..Len(uploads) -> MediaStates]
  BY <1>1, <1>2
<1>4. new \in Seq(MediaStates) /\ Len(new) = Len(uploads)
  BY <1>1, <1>3
<1> QED BY <1>1, <1>2, <1>4 DEF new

\* What was read stays within the rows and uploads there are.
LEMMA SourcesAskedGrows ==
    ASSUME NEW q, NEW n \in Nat, NEW k \in Nat, NEW i \in Nat, NEW j \in Nat, n <= i, k <= j,
           SourcesAsked(q, n, k)
    PROVE  SourcesAsked(q, i, j)
<1>1. \A e : Listed(e, k) => Listed(e, j)
  BY DEF Listed
<1>2. 1..n \subseteq 1..i /\ 1..k \subseteq 1..j
  OBVIOUS
<1> QED BY <1>1, <1>2 DEF SourcesAsked

\* The parts of the types.
LEMMA SourcesTypesAre ==
    ASSUME SourcesTyped
    PROVE  /\ inputs \in Seq(Src!Row) /\ Len(inputs) \in Nat /\ DOMAIN inputs = 1..Len(inputs)
           /\ uploads \in Seq(MediaStates) /\ Len(uploads) \in Nat /\ DOMAIN uploads = 1..Len(uploads)
           /\ \A i \in DOMAIN inputs :
                 /\ inputs[i] \in Src!Row /\ inputs[i].live \in BOOLEAN /\ inputs[i].enabled \in BOOLEAN
                 /\ inputs[i].model \in Models \cup {None}
                 /\ inputs[i].upload \in DOMAIN uploads \cup {None}
           /\ Src!Default \in Models \cup {None} /\ Src!Effective \subseteq Models
              /\ mounted \subseteq Src!Effective
           /\ Src!Required \subseteq Models
<1>1. inputs \in Seq(Src!Row) /\ uploads \in Seq(MediaStates)
  BY DEF SourcesTyped, Src!SourcesTypes, MediaStates
<1>2. \A i \in DOMAIN inputs : inputs[i] \in Src!Row
  BY <1>1
<1>3. Src!Default \in Models \cup {None} /\ mounted \subseteq Models /\ None \notin Models
  BY SourcesAssumption DEF SourcesTyped, Src!SourcesTypes, Src!Default
<1>4. \A i \in DOMAIN inputs : /\ inputs[i].live \in BOOLEAN /\ inputs[i].enabled \in BOOLEAN
                                /\ inputs[i].model \in Models \cup {None}
  BY <1>2 DEF Src!Row
<1>5. Src!Effective \subseteq Models /\ mounted \subseteq Src!Effective
  BY <1>3 DEF Src!Effective
<1>6. Src!Required \subseteq Models
  BY <1>3, <1>4 DEF Src!Required, Src!ModelsOf, Src!Live
<1> QED BY <1>1, <1>2, <1>3, <1>4, <1>5, <1>6 DEF SourcesTyped

-----------------------------------------------------------------------------
(* What is open depends only on the rows, the deleted uploads and the models. *)

\* A request that nothing touched is as fresh as before.
LEMMA StillFresh ==
    ASSUME SourcesTyped, NEW r \in Requests, NEW q, SourcesAsked(q, Len(inputs), Len(uploads)),
           SourcesFresh(q), asked'[r] = q,
           UNCHANGED <<inputs, Src!fileVars>>, DOMAIN uploads \subseteq DOMAIN uploads',
           \A u \in DOMAIN uploads : uploads'[u] = "deleted" => uploads[u] = "deleted"
    PROVE  SourcesFresh(asked[r])'
<1>1. Src!Live' = Src!Live /\ Src!UploadsOf(Src!Live)' = Src!UploadsOf(Src!Live)
      /\ Src!Effective' = Src!Effective /\ Src!Required' = Src!Required
  BY DEF Src!Live, Src!UploadsOf, Src!ModelsOf, Src!Effective, Src!Required, Src!Default, Src!fileVars
<1>2. inputs' = inputs /\ DOMAIN uploads = 1..Len(uploads) /\ DOMAIN inputs = 1..Len(inputs)
  BY SourcesTypesAre
<1>3. \A e, mount : e.upload \in DOMAIN uploads \cup {None} /\ Served(e, mount) => Served(e, mount)'
  BY DEF Served
<1>4. q.op = "save" => /\ \A e \in q.new : e.upload \in DOMAIN uploads \cup {None}
                       /\ \A i \in DOMAIN q.list : q.list[i].upload \in DOMAIN uploads \cup {None}
  BY <1>2 DEF SourcesAsked, Listed
<1>5. \A i \in Src!Live : inputs[i].upload \in DOMAIN uploads \cup {None}
  BY SourcesTypesAre DEF Src!Live
<1>6. asked[r]' = q
  OBVIOUS
<1> QED BY <1>1, <1>2, <1>3, <1>4, <1>5, <1>6 DEF SourcesFresh

\* A stored upload, a run that starts, stops or ends: the handlers see no change.
LEMMA MediaKeep ==
    ASSUME SourcesConsistency, Src!StoreUpload \/ Src!Start \/ Src!Stop
    PROVE  SourcesConsistency'
<1> USE DEF SourcesConsistency
<1>1. UNCHANGED <<inputs, Src!fileVars, asked, Src!historyVars>>
  BY DEF Src!StoreUpload, Src!Start, Src!Stop
<1>2. /\ uploads' \in Seq(MediaStates) /\ Len(uploads') \in Nat /\ Len(uploads) <= Len(uploads')
      /\ Len(uploads') <= MaxUploads /\ files' \subseteq DOMAIN uploads'
      /\ DOMAIN uploads \subseteq DOMAIN uploads'
      /\ \A u \in DOMAIN uploads : uploads'[u] = "deleted" <=> uploads[u] = "deleted"
      /\ \A u \in DOMAIN uploads' \ DOMAIN uploads : uploads'[u] = "staged"
      /\ files' \cap DOMAIN uploads = files
      /\ running' \in BOOLEAN
  <2>1. CASE Src!StoreUpload
    <3>1. /\ uploads' = Append(uploads, "staged") /\ "staged" \in MediaStates
          /\ uploads \in Seq(MediaStates) /\ Len(uploads) < MaxUploads /\ running' = running
          /\ files' = files \cup {Len(uploads) + 1} /\ files \subseteq 1..Len(uploads)
             /\ Len(uploads) \in Nat
      BY <2>1, SourcesTypesAre DEF Src!StoreUpload, MediaStates, SourcesTyped, Src!SourcesTypes
    <3>2. /\ uploads' \in Seq(MediaStates) /\ Len(uploads') = Len(uploads) + 1
          /\ DOMAIN uploads' = 1..Len(uploads) + 1 /\ DOMAIN uploads = 1..Len(uploads)
          /\ \A u \in 1..Len(uploads) : uploads'[u] = uploads[u]
          /\ uploads'[Len(uploads) + 1] = "staged"
      BY <3>1
    <3> QED BY <3>1, <3>2, SourcesAssumption DEF SourcesTyped, Src!SourcesTypes
  <2>2. CASE Src!Start \/ Src!Stop
    <3>1. /\ files' = files /\ running' \in BOOLEAN
          /\ \/ uploads' = uploads
             \/ \E attached, active : uploads' = Src!SyncUploads(attached, active)
      BY <2>2 DEF Src!Start, Src!Stop
    <3>2. uploads \in Seq(MediaStates) /\ Len(uploads) <= MaxUploads /\ files \subseteq DOMAIN uploads
      BY SourcesTypesAre DEF SourcesTyped, Src!SourcesTypes
    <3>3. CASE uploads' = uploads
      BY <3>1, <3>2, <3>3
    <3>4. ASSUME NEW attached, NEW active, uploads' = Src!SyncUploads(attached, active)
          PROVE  /\ uploads' \in Seq(MediaStates) /\ Len(uploads') = Len(uploads)
                 /\ DOMAIN uploads' = DOMAIN uploads
                 /\ \A u \in DOMAIN uploads : uploads'[u] = "deleted" <=> uploads[u] = "deleted"
      BY <3>2, <3>4, SyncIs
    <3> QED BY <3>1, <3>2, <3>3, <3>4
  <2> QED BY <2>1, <2>2
<1>3. DOMAIN uploads = 1..Len(uploads) /\ DOMAIN uploads' = 1..Len(uploads') /\ Len(uploads) \in Nat
  BY <1>2, SourcesTypesAre
<1>4. SourcesTyped'
  <2>1. \A r \in Requests : SourcesAsked(asked[r], Len(inputs), Len(uploads'))
    BY <1>2, SourcesTypesAre, SourcesAskedGrows DEF SourcesTyped
  <2>2. Src!SourcesTypes'
    BY <1>1, <1>2 DEF SourcesTyped, Src!SourcesTypes, MediaStates, Src!historyVars, Src!fileVars
  <2>3. \A i \in DOMAIN inputs' : inputs'[i].upload \in DOMAIN uploads' \cup {None}
    BY <1>1, <1>2 DEF SourcesTyped
  <2> QED BY <1>1, <2>1, <2>2, <2>3 DEF SourcesTyped
<1>5. FilesGone'
  <2>1. ASSUME NEW u \in DOMAIN uploads', uploads'[u] = "deleted" PROVE u \notin files'
    BY <1>2, <2>1 DEF FilesGone
  <2>2. ASSUME NEW r \in Requests, asked'[r].op = "unlinked" PROVE asked'[r].upload \notin files'
    <3>1. asked'[r] = asked[r] /\ asked[r].upload \in DOMAIN uploads /\ asked[r].upload \notin files
      BY <1>1, <1>3, <2>2 DEF FilesGone, SourcesTyped, SourcesAsked
    <3> QED BY <1>2, <3>1
  <2> QED BY <2>1, <2>2 DEF FilesGone
<1>6. OneAtATime'
  BY <1>1 DEF OneAtATime, Src!Busy, Src!historyVars
<1>7. AllFresh'
  <2>1. ASSUME NEW r \in Requests, SourcesFresh(asked[r]) PROVE SourcesFresh(asked[r])'
    <3>1. asked'[r] = asked[r] /\ SourcesAsked(asked[r], Len(inputs), Len(uploads))
      BY <1>1 DEF SourcesTyped
    <3> QED BY <1>1, <1>2, <2>1, <3>1, StillFresh
  <2> QED BY <1>1, <2>1 DEF AllFresh, Src!historyVars
<1>8. Agree'
  <2>1. CASE ~(mended /\ \A r \in Requests : asked[r].op # "saved")
    BY <1>1, <2>1 DEF Agree, Src!historyVars
  <2>2. CASE mended /\ \A r \in Requests : asked[r].op # "saved"
    <3>1. Src!SourcesAreServed /\ Src!UploadsAreFiled
      BY <2>2 DEF Agree
    <3>2. /\ Src!Live' = Src!Live /\ Src!Enabled' = Src!Enabled /\ Src!Effective' = Src!Effective
          /\ Src!UploadsOf(Src!Live)' = Src!UploadsOf(Src!Live)
             /\ Src!UploadsOf(Src!Enabled)' = Src!UploadsOf(Src!Enabled)
          /\ Src!ModelsOf(Src!Live)' = Src!ModelsOf(Src!Live)
      BY <1>1 DEF Src!Live, Src!Enabled, Src!Effective, Src!Default, Src!UploadsOf, Src!ModelsOf,
         Src!fileVars
    <3>3. Src!UploadsOf(Src!Enabled) \subseteq Src!UploadsOf(Src!Live)
          /\ Src!UploadsOf(Src!Live) \subseteq DOMAIN uploads
      BY SourcesTypesAre DEF Src!UploadsOf, Src!Enabled, Src!Live
    <3>4. Src!SourcesAreServed'
      BY <1>2, <3>1, <3>2, <3>3 DEF Src!SourcesAreServed
    <3>5. Src!UploadsAreFiled'
      <4>1. CASE Src!StoreUpload
        BY <1>2, <3>1, <3>2, <3>3, <4>1 DEF Src!UploadsAreFiled, Src!StoreUpload
      <4>2. CASE uploads' = uploads
        BY <3>1, <3>2, <4>2 DEF Src!UploadsAreFiled
      <4>3. ASSUME NEW attached, NEW active, uploads' = Src!SyncUploads(attached, active),
                   attached \cup active \subseteq Src!UploadsOf(Src!Live),
                   Src!UploadsOf(Src!Enabled) \subseteq attached \cup active
            PROVE  Src!UploadsAreFiled'
        BY <3>2, <4>3, SyncIs, SourcesTypesAre DEF Src!UploadsAreFiled
      <4>4. \/ Src!StoreUpload \/ uploads' = uploads
            \/ uploads' = Src!SyncUploads(Src!UploadsOf(Src!Enabled), Src!UploadsOf(Src!Enabled))
            \/ uploads' = Src!SyncUploads(Src!UploadsOf(Src!Enabled), {})
            \/ uploads' = Src!SyncUploads(Src!UploadsOf(Src!Live), {})
        BY DEF Src!Start, Src!Stop
      <4> QED BY <3>3, <4>1, <4>2, <4>3, <4>4
    <3> QED BY <3>4, <3>5 DEF Agree
  <2> QED BY <2>1, <2>2
<1> QED BY <1>4, <1>5, <1>6, <1>7, <1>8

-----------------------------------------------------------------------------
(* Requests that begin, fail or are lost. *)

\* A handler that does nothing has read nothing.
LEMMA IdleIs ==
    /\ \A n, k : SourcesAsked(Src!Idle, n, k)
    /\ SourcesFresh(Src!Idle) /\ Src!Idle.op = "idle"
  BY DEF Src!Idle, SourcesAsked, SourcesFresh, Ops

\* What all steps that change only req and the history keep.
LEMMA RestKeeps ==
    ASSUME SourcesConsistency, UNCHANGED <<inputs, uploads, files, Src!fileVars, running>>,
           disturbances' \in 0..MaxDisturbances, disturbed' \in BOOLEAN, mended' \in BOOLEAN,
           asked' = [r \in Requests |-> asked'[r]],
           \A r \in Requests : SourcesAsked(asked'[r], Len(inputs), Len(uploads)),
           \A r \in Requests : asked'[r].op = "unlinked" => asked'[r].upload \notin files
    PROVE  SourcesTyped' /\ FilesGone'
<1>1. Src!SourcesTypes'
  BY DEF SourcesConsistency, SourcesTyped, Src!SourcesTypes, Src!fileVars
<1>2. /\ \A i \in DOMAIN inputs' : inputs'[i].upload \in DOMAIN uploads' \cup {None}
      /\ Len(inputs') = Len(inputs) /\ Len(uploads') = Len(uploads)
  BY DEF SourcesConsistency, SourcesTyped
<1>3. SourcesTyped'
  BY <1>1, <1>2 DEF SourcesTyped
<1>4. FilesGone'
  BY DEF SourcesConsistency, FilesGone
<1> QED BY <1>3, <1>4

\* Nothing the rows, uploads and models agree on changes.
LEMMA AgreementKeeps ==
    ASSUME UNCHANGED <<inputs, uploads, Src!fileVars>>, Src!SourcesAreServed, Src!UploadsAreFiled
    PROVE  Src!SourcesAreServed' /\ Src!UploadsAreFiled'
  BY DEF Src!SourcesAreServed, Src!UploadsAreFiled, Src!Live, Src!Enabled, Src!UploadsOf, Src!ModelsOf,
         Src!Effective, Src!Default, Src!fileVars

\* A handler that begins alone has read what there is.
LEMMA SourcesBeginKeeps ==
    ASSUME SourcesConsistency, NEW r \in Requests, NEW q, q.op \in {"save", "delete", "bind", "mount"},
           SourcesAsked(q, Len(inputs), Len(uploads)), SourcesFresh(q), Src!Begin(r, q),
           UNCHANGED <<inputs, uploads, files, Src!fileVars, running>>
    PROVE  SourcesConsistency'
<1> USE DEF SourcesConsistency
<1>1. /\ asked' = [s \in Requests |-> asked'[s]] /\ asked'[r] = q
      /\ \A s \in Requests \ {r} : asked'[s] = asked[s]
  BY DEF Src!Begin, SourcesTyped
<1>2. /\ disturbances' \in 0..MaxDisturbances /\ disturbed' \in BOOLEAN /\ mended' \in BOOLEAN
  <2>1. disturbances \in 0..MaxDisturbances /\ mended \in BOOLEAN /\ MaxDisturbances \in Nat
    BY SourcesAssumption DEF SourcesTyped, Src!SourcesTypes
  <2>2. CASE Src!Quiet
    BY <2>1, <2>2 DEF Src!Begin
  <2>3. CASE ~Src!Quiet
    <3>1. /\ disturbances < MaxDisturbances /\ disturbances' = disturbances + 1
          /\ disturbed' = TRUE /\ mended' = FALSE
      BY <2>3 DEF Src!Begin, Src!Disturb
    <3>2. disturbances' \in 0..MaxDisturbances
      BY <2>1, <3>1
    <3> QED BY <3>1, <3>2
  <2> QED BY <2>2, <2>3
<1>3. \A s \in Requests : SourcesAsked(asked'[s], Len(inputs), Len(uploads))
  BY <1>1 DEF SourcesTyped
<1>4. \A s \in Requests : asked'[s].op = "unlinked" => asked'[s].upload \notin files
  BY <1>1 DEF FilesGone
<1>5. SourcesTyped' /\ FilesGone'
  BY <1>1, <1>2, <1>3, <1>4, RestKeeps
<1>6. CASE Src!Quiet
  <2>1. /\ disturbed' = FALSE /\ mended' = mended
        /\ \A s \in Requests : asked[s].op = "idle"
        /\ \A s \in Requests \ {r} : asked'[s].op = "idle"
    BY <1>1, <1>6 DEF Src!Begin, Src!Quiet, Src!Busy
  <2>2. OneAtATime'
    BY <2>1 DEF OneAtATime, Src!Busy
  <2>3. ASSUME NEW s \in Requests PROVE SourcesFresh(asked[s])'
    <3>1. CASE s = r
      BY <1>1, <3>1, StillFresh
    <3>2. CASE s # r
      <4>1. asked[s]'.op = "idle"
        BY <2>1, <3>2
      <4> QED BY <4>1 DEF SourcesFresh
    <3> QED BY <3>1, <3>2
  <2>4. AllFresh'
    BY <2>3 DEF AllFresh
  <2>5. Agree'
    <3>1. mended => Src!SourcesAreServed /\ Src!UploadsAreFiled
      BY <2>1 DEF Agree
    <3> QED BY <2>1, <3>1, AgreementKeeps DEF Agree
  <2> QED BY <1>5, <2>2, <2>4, <2>5
<1>7. CASE ~Src!Quiet
  <2>1. disturbed' = TRUE /\ mended' = FALSE
    BY <1>7 DEF Src!Begin, Src!Disturb
  <2> QED BY <1>5, <2>1 DEF OneAtATime, AllFresh, Agree
<1> QED BY <1>6, <1>7

\* The page a client saves is checked against what there is.
LEMMA OpenSaveKeeps ==
    ASSUME SourcesConsistency, NEW r \in Requests, NEW keep \in SUBSET DOMAIN inputs,
           NEW new \in {{}} \cup {{e} : e \in Entries}, Src!OpenSave(r, keep, new)
    PROVE  SourcesConsistency'
<1> DEFINE list == {Src!Entry(i) : i \in keep} \cup new
           q == [op |-> "save", known |-> Src!Live, new |-> new,
                 list |-> [i \in keep |-> Src!Entry(i)],
                 mount |-> Src!Effective \cup ({e.model : e \in list} \ {None})]
<1>1. /\ \A e \in list : e.upload # None => e.upload \in DOMAIN uploads /\ uploads[e.upload] # "deleted"
      /\ Src!Begin(r, q) /\ UNCHANGED <<inputs, uploads, files, Src!fileVars, running>>
  BY DEF Src!OpenSave
<1>2. \A e \in list : e \in Src!Content
  <2>1. \A i \in keep : Src!Entry(i) \in Src!Content
    BY SourcesTypesAre DEF SourcesConsistency, Src!Entry, Src!Content, Src!Row
  <2>2. \A e \in new : e \in Src!Content
    BY SourcesAssumption
  <2> QED BY <2>1, <2>2
<1>3. \A e \in list : /\ e.model \in Models \cup {None} /\ Listed(e, Len(uploads))
                      /\ Served(e, q.mount)
  BY <1>1, <1>2, SourcesTypesAre DEF SourcesConsistency, Src!Content, Listed, Served
<1>4. IsFiniteSet(new)
  BY FS_EmptySet, FS_Singleton
<1>5. q.mount \subseteq Models
  BY <1>3, SourcesTypesAre DEF SourcesConsistency
<1>6. /\ q.op = "save" /\ q.known = Src!Live /\ q.new = new /\ DOMAIN q.list = keep
      /\ \A i \in keep : q.list[i] = Src!Entry(i) /\ q.list[i] \in list
  OBVIOUS
<1> HIDE DEF q, list
<1>7. SourcesAsked(q, Len(inputs), Len(uploads)) /\ SourcesFresh(q)
  <2>1. /\ \A e \in q.new : Listed(e, Len(uploads)) /\ Served(e, q.mount)
        /\ \A i \in DOMAIN q.list : Listed(q.list[i], Len(uploads)) /\ Served(q.list[i], q.mount)
    BY <1>3, <1>6 DEF list
  <2>2. DOMAIN q.list \subseteq 1..Len(inputs) /\ IsFiniteSet(q.new) /\ q.op \in Ops
    BY <1>4, <1>6, SourcesTypesAre DEF SourcesConsistency, Ops
  <2> QED BY <1>5, <1>6, <2>1, <2>2 DEF SourcesAsked, SourcesFresh
<1> QED BY <1>1, <1>6, <1>7, SourcesBeginKeeps

\* An upload no source reads may be deleted.
LEMMA OpenDeleteKeeps ==
    ASSUME SourcesConsistency, NEW r \in Requests, NEW u \in DOMAIN uploads, Src!OpenDelete(r, u)
    PROVE  SourcesConsistency'
<1> DEFINE q == [op |-> "delete", upload |-> u]
<1>1. /\ Src!Begin(r, q) /\ UNCHANGED <<inputs, uploads, files, Src!fileVars, running>>
      /\ u \notin Src!UploadsOf(Src!Live) /\ u \in 1..Len(uploads)
  BY SourcesTypesAre DEF Src!OpenDelete, SourcesConsistency
<1>2. SourcesAsked(q, Len(inputs), Len(uploads)) /\ SourcesFresh(q)
  BY <1>1 DEF SourcesAsked, SourcesFresh, Ops
<1> QED BY <1>1, <1>2, SourcesBeginKeeps

\* What a client binds is mounted with it.
LEMMA OpenBindKeeps ==
    ASSUME SourcesConsistency, NEW r \in Requests, NEW s \in Src!Live \cup {None},
           NEW m \in Offered \cup {None}, Src!OpenBind(r, s, m)
    PROVE  SourcesConsistency'
<1> DEFINE q == [op |-> "bind", source |-> s, model |-> m,
                 default |-> IF s = None THEN m ELSE Src!Default,
                 mount |-> Src!Effective \cup ({m} \ {None})]
<1>1. Src!Begin(r, q) /\ UNCHANGED <<inputs, uploads, files, Src!fileVars, running>>
  BY DEF Src!OpenBind
<1>2. /\ m \in Models \cup {None} /\ Src!Default \in Models \cup {None}
         /\ Src!Effective \subseteq Models
  BY SourcesAssumption, SourcesTypesAre DEF SourcesConsistency
<1>3. SourcesAsked(q, Len(inputs), Len(uploads)) /\ SourcesFresh(q)
  BY <1>2 DEF SourcesAsked, SourcesFresh, Ops
<1> QED BY <1>1, <1>3, SourcesBeginKeeps

\* What is required and not mounted any more is known.
LEMMA OpenMountKeeps ==
    ASSUME SourcesConsistency, NEW r \in Requests, NEW set \in SUBSET Offered, NEW force \in BOOLEAN,
           Src!OpenMount(r, set, force)
    PROVE  SourcesConsistency'
<1> DEFINE missing == Src!Required \ set
           q == [op |-> "mount", mount |-> set, missing |-> missing, known |-> Src!Live,
                 default |-> CASE missing = {} -> default
                               [] Src!Default \in missing -> None
                               [] OTHER -> Src!Default]
<1>1. Src!Begin(r, q) /\ UNCHANGED <<inputs, uploads, files, Src!fileVars, running>>
  BY DEF Src!OpenMount
<1>2. set \subseteq Models /\ Src!Default \in Models \cup {None} /\ default \in Models \cup {None}
  BY SourcesAssumption, SourcesTypesAre DEF SourcesConsistency, SourcesTyped, Src!SourcesTypes
<1>3. q.default \in Models \cup {None}
  <2>1. CASE missing = {}
    <3>1. ~(Src!Default \in missing)
      BY <2>1
    <3> QED BY <1>2, <2>1, <3>1
  <2>2. CASE missing # {} /\ Src!Default \in missing
    BY <2>2
  <2>3. CASE missing # {} /\ Src!Default \notin missing
    BY <1>2, <2>3
  <2> QED BY <2>1, <2>2, <2>3
<1>4. q.op = "mount" /\ q.mount = set /\ q.missing = missing /\ q.known = Src!Live
  OBVIOUS
<1> HIDE DEF q
<1>5. SourcesAsked(q, Len(inputs), Len(uploads)) /\ SourcesFresh(q)
  BY <1>2, <1>3, <1>4 DEF SourcesAsked, SourcesFresh, Ops
<1> QED BY <1>1, <1>4, <1>5, SourcesBeginKeeps

\* A crash of the web application, a rollback or a failed commit disturbs what follows.
LEMMA Disturbed ==
    ASSUME SourcesTyped', FilesGone', Src!Disturb
    PROVE  SourcesConsistency'
  BY DEF Src!Disturb, SourcesConsistency, OneAtATime, AllFresh, Agree

-----------------------------------------------------------------------------
(* A save of the list of sources. *)

\* The entries that get a row of their own are those that were listed.
LEMMA StaleIs ==
    ASSUME NEW q, NEW n \in Nat, NEW k \in Nat, SourcesAsked(q, n, k), q.op = "save"
    PROVE  /\ IsFiniteSet(Src!Stale(q)) /\ \A e \in Src!Stale(q) : Listed(e, k)
           /\ \A e \in Src!Stale(q) : e \in q.new \/ \E i \in DOMAIN q.list : e = q.list[i]
<1> DEFINE D == DOMAIN q.list \ q.known
           f == [i \in D |-> q.list[i]]
           image == {q.list[i] : i \in D}
<1>1. /\ DOMAIN q.list \subseteq 1..n /\ IsFiniteSet(q.new) /\ \A e \in q.new : Listed(e, k)
      /\ \A i \in DOMAIN q.list : Listed(q.list[i], k)
  BY DEF SourcesAsked
<1>2. IsFiniteSet(D)
  <2>1. 1 \in Int /\ n \in Int
    OBVIOUS
  <2>2. IsFiniteSet(1..n)
    BY <2>1, FS_Interval
  <2>3. D \in SUBSET (1..n)
    BY <1>1
  <2> QED BY <2>2, <2>3, FS_Subset
<1>3. f \in Surjection(D, image)
  BY DEF Surjection
<1>4. IsFiniteSet(image)
  <2> HIDE DEF D, f, image
  <2> QED BY <1>2, <1>3, FS_Surjection
<1>5. Src!Stale(q) = image \cup q.new
  BY DEF Src!Stale
<1>6. IsFiniteSet(Src!Stale(q))
  <2> HIDE DEF image
  <2> QED BY <1>1, <1>4, <1>5, FS_Union
<1> QED BY <1>1, <1>5, <1>6

\* The row of a listed entry.
LEMMA ShownIs ==
    ASSUME NEW k \in Nat, NEW e, Listed(e, k), k <= MaxUploads
    PROVE  /\ Src!Shown(e) \in Src!Row /\ Src!Shown(e).live = TRUE
              /\ Src!Shown(e).upload \in 1..k \cup {None}
           /\ Src!Shown(e).upload = e.upload /\ Src!Shown(e).model = e.model
<1>1. e \in Src!Content /\ e.upload \in 1..k \cup {None}
  BY DEF Listed
<1>2. 1..k \subseteq Src!Uploads
  BY SourcesAssumption DEF Src!Uploads
<1> QED BY <1>1, <1>2 DEF Src!Content, Src!Row, Src!Shown

\* The rows once the registry mirror has committed.
LEMMA WriteSaveIs ==
    ASSUME SourcesTyped, NEW r \in Requests, Src!WriteSave(r)
    PROVE  /\ inputs' \in Seq(Src!Row) /\ Len(inputs) <= Len(inputs') /\ Len(inputs') <= MaxRows
           /\ \A i \in DOMAIN inputs : IF i \in Src!Rewritten(asked[r])
                                        THEN inputs'[i] = Src!Shown(asked[r].list[i])
                                        ELSE inputs'[i] = inputs[i]
           /\ \A i \in DOMAIN inputs' \ DOMAIN inputs : \E e \in Src!Stale(asked[r]) : inputs'[i] = Src!Shown(e)
           /\ asked'[r].op = "saved" /\ asked'[r].known = asked[r].known
              /\ asked'[r].mount = asked[r].mount
           /\ asked'[r].lost = {}
           /\ asked'[r].wrote = Src!Rewritten(asked[r]) \cup (DOMAIN inputs' \ DOMAIN inputs)
<1> DEFINE q == asked[r]
           added == Src!SetToSeq(Src!Stale(q))
           base == [i \in DOMAIN inputs |-> IF i \in Src!Rewritten(q) THEN Src!Shown(q.list[i]) ELSE inputs[i]]
           tail == [k \in DOMAIN added |-> Src!Shown(added[k])]
           n == Len(inputs)
           m == Len(added)
<1>1. /\ q.op = "save" /\ n + m <= MaxRows /\ inputs' = base \o tail
      /\ asked' = [asked EXCEPT ![r] =
            [op |-> "saved", known |-> q.known, mount |-> q.mount, lost |-> {},
             wrote |-> Src!Rewritten(q) \cup (n + 1)..(n + m)]]
  <2>1. q.op = "save" /\ n + m <= MaxRows
    BY DEF Src!WriteSave
  <2>2. inputs' = base \o tail
    BY DEF Src!WriteSave
  <2>3. asked' = [asked EXCEPT ![r] =
            [op |-> "saved", known |-> q.known, mount |-> q.mount, lost |-> {},
             wrote |-> Src!Rewritten(q) \cup (n + 1)..(n + m)]]
    BY DEF Src!WriteSave
  <2> QED BY ONLY <2>1, <2>2, <2>3
<1>2. SourcesAsked(q, n, Len(uploads)) /\ n \in Nat /\ Len(uploads) \in Nat
      /\ Len(uploads) <= MaxUploads
  BY SourcesTypesAre DEF SourcesTyped, Src!SourcesTypes
<1>3. /\ IsFiniteSet(Src!Stale(q)) /\ \A e \in Src!Stale(q) : Listed(e, Len(uploads))
      /\ \A i \in Src!Rewritten(q) : Listed(q.list[i], Len(uploads))
  <2>1. IsFiniteSet(Src!Stale(q)) /\ \A e \in Src!Stale(q) : Listed(e, Len(uploads))
    BY <1>1, <1>2, StaleIs
  <2> QED BY <1>1, <1>2, <2>1 DEF Src!Rewritten, SourcesAsked
<1>4. added \in Seq(Src!Stale(q)) /\ m \in Nat /\ DOMAIN added = 1..m
      /\ \A k \in 1..m : added[k] \in Src!Stale(q)
  BY <1>3, SourcesSetToSeqLists
<1>5. base \in [1..n -> Src!Row] /\ tail \in [1..m -> Src!Row]
  <2>1. \A e : Listed(e, Len(uploads)) => Src!Shown(e) \in Src!Row
    BY <1>2, ShownIs
  <2>2. \A i \in DOMAIN inputs : base[i] \in Src!Row
    BY <1>3, <2>1, SourcesTypesAre
  <2>3. \A k \in 1..m : tail[k] \in Src!Row
    BY <1>3, <1>4, <2>1
  <2> QED BY <1>4, <2>2, <2>3, SourcesTypesAre
<1>6. /\ \A i \in DOMAIN inputs : base[i] = IF i \in Src!Rewritten(q) THEN Src!Shown(q.list[i]) ELSE inputs[i]
      /\ \A k \in 1..m : \E e \in Src!Stale(q) : tail[k] = Src!Shown(e)
  BY <1>4
<1> HIDE DEF base, tail, m
<1>7. /\ base \in Seq(Src!Row) /\ tail \in Seq(Src!Row) /\ Len(base) = n /\ Len(tail) = m
  BY <1>2, <1>4, <1>5
<1>8. /\ inputs' \in Seq(Src!Row) /\ Len(inputs') = n + m /\ DOMAIN inputs' = 1..n + m
      /\ \A i \in 1..n : inputs'[i] = base[i]
      /\ \A i \in n + 1..n + m : inputs'[i] = tail[i - n] /\ i - n \in 1..m
  <2>1. /\ base \o tail \in Seq(Src!Row) /\ Len(base \o tail) = Len(base) + Len(tail)
        /\ DOMAIN (base \o tail) = 1..Len(base) + Len(tail)
        /\ \A i \in 1..Len(base) : (base \o tail)[i] = base[i]
        /\ \A i \in Len(base) + 1..Len(base) + Len(tail) :
              (base \o tail)[i] = tail[i - Len(base)] /\ i - Len(base) \in 1..Len(tail)
    BY ONLY <1>7, ConcatIs
  <2> QED BY <1>1, <1>7, <2>1
<1>9. DOMAIN inputs = 1..n /\ DOMAIN inputs' \ DOMAIN inputs = n + 1..n + m
  <2>1. DOMAIN inputs = 1..n
    BY SourcesTypesAre
  <2> HIDE DEF n
  <2> QED BY <1>2, <1>4, <1>8, <2>1
<1>10. /\ asked'[r].op = "saved" /\ asked'[r].known = q.known /\ asked'[r].mount = q.mount
       /\ asked'[r].lost = {} /\ asked'[r].wrote = Src!Rewritten(q) \cup (n + 1)..(n + m)
  BY <1>1 DEF SourcesTyped
<1>11. \A i \in DOMAIN inputs : IF i \in Src!Rewritten(q) THEN inputs'[i] = Src!Shown(q.list[i])
                                                       ELSE inputs'[i] = inputs[i]
  BY <1>6, <1>8, <1>9
<1>12. \A i \in DOMAIN inputs' \ DOMAIN inputs : \E e \in Src!Stale(q) : inputs'[i] = Src!Shown(e)
  BY <1>6, <1>8, <1>9
<1>13. Len(inputs) <= Len(inputs') /\ Len(inputs') <= MaxRows
  BY <1>1, <1>2, <1>4, <1>8
<1> QED BY <1>8, <1>9, <1>10, <1>11, <1>12, <1>13

\* The rows of a save are live, and those that were live are known to it or its own.
LEMMA WriteSaveKeeps ==
    ASSUME SourcesConsistency, NEW r \in Requests, Src!WriteSave(r)
    PROVE  SourcesConsistency'
<1> USE DEF SourcesConsistency
<1> DEFINE q == asked[r]
           n == Len(inputs)
           media == Len(uploads)
<1>1. /\ UNCHANGED <<uploads, files, Src!fileVars, running, Src!historyVars>> /\ q.op = "save"
      /\ \A s \in Requests \ {r} : asked'[s] = asked[s]
      /\ asked' = [s \in Requests |-> asked'[s]]
  BY DEF Src!WriteSave, SourcesTyped
<1>2. /\ inputs' \in Seq(Src!Row) /\ n <= Len(inputs') /\ Len(inputs') <= MaxRows
      /\ n \in Nat /\ media \in Nat /\ media <= MaxUploads
      /\ DOMAIN inputs = 1..n /\ DOMAIN inputs' = 1..Len(inputs') /\ Len(inputs') \in Nat
      /\ SourcesAsked(q, n, media)
  BY WriteSaveIs, SourcesTypesAre DEF SourcesTyped, Src!SourcesTypes
<1>3. /\ \A i \in DOMAIN inputs : IF i \in Src!Rewritten(q) THEN inputs'[i] = Src!Shown(q.list[i])
                                                         ELSE inputs'[i] = inputs[i]
      /\ \A i \in DOMAIN inputs' \ DOMAIN inputs : \E e \in Src!Stale(q) : inputs'[i] = Src!Shown(e)
      /\ asked'[r].op = "saved" /\ asked'[r].known = q.known /\ asked'[r].mount = q.mount
         /\ asked'[r].lost = {}
      /\ asked'[r].wrote = Src!Rewritten(q) \cup (DOMAIN inputs' \ DOMAIN inputs)
  BY WriteSaveIs
<1>4. ASSUME NEW e, Listed(e, media)
      PROVE  Src!Shown(e).live = TRUE /\ Src!Shown(e).upload \in DOMAIN uploads \cup {None}
  BY <1>2, <1>4, ShownIs, SourcesTypesAre
<1>5. /\ \A i \in Src!Rewritten(q) : /\ i \in DOMAIN inputs /\ i \in DOMAIN q.list
                                 /\ i \in q.known /\ Listed(q.list[i], media)
      /\ \A e \in Src!Stale(q) : Listed(e, media)
      /\ \A e \in Src!Stale(q) : e \in q.new \/ \E i \in DOMAIN q.list : e = q.list[i]
  <2>1. DOMAIN q.list \subseteq DOMAIN inputs /\ \A i \in DOMAIN q.list : Listed(q.list[i], media)
    BY <1>1, <1>2 DEF SourcesAsked
  <2>2. /\ \A e \in Src!Stale(q) : Listed(e, media)
        /\ \A e \in Src!Stale(q) : e \in q.new \/ \E i \in DOMAIN q.list : e = q.list[i]
    BY <1>1, <1>2, StaleIs
  <2> QED BY <2>1, <2>2 DEF Src!Rewritten
<1>6. \A i \in DOMAIN inputs' : inputs'[i].upload \in DOMAIN uploads \cup {None}
  <2> SUFFICES ASSUME NEW i \in DOMAIN inputs'
               PROVE  inputs'[i].upload \in DOMAIN uploads \cup {None}
    OBVIOUS
  <2>1. CASE i \notin DOMAIN inputs
    BY <1>3, <1>4, <1>5, <2>1
  <2>2. CASE i \in DOMAIN inputs /\ i \in Src!Rewritten(q)
    BY <1>3, <1>4, <1>5, <2>2
  <2>3. CASE i \in DOMAIN inputs /\ i \notin Src!Rewritten(q)
    BY <1>3, <2>3 DEF SourcesTyped
  <2> QED BY <2>1, <2>2, <2>3
<1>7. SourcesTyped'
  <2>1. \A s \in Requests : SourcesAsked(asked'[s], Len(inputs'), media)
    <3>1. ASSUME NEW s \in Requests \ {r} PROVE SourcesAsked(asked'[s], Len(inputs'), media)
      BY <1>1, <1>2, SourcesAskedGrows DEF SourcesTyped
    <3>2. SourcesAsked(asked'[r], Len(inputs'), media)
      BY <1>1, <1>2, <1>3 DEF SourcesAsked, Ops
    <3> QED BY <3>1, <3>2
  <2>2. Src!SourcesTypes'
    BY <1>1, <1>2 DEF SourcesTyped, Src!SourcesTypes, Src!fileVars, Src!historyVars
  <2> QED BY <1>1, <1>6, <2>1, <2>2 DEF SourcesTyped
<1>8. FilesGone'
  BY <1>1, <1>3 DEF FilesGone
<1>9. OneAtATime'
  <2>1. \A s \in Requests : Src!Busy(s)' <=> Src!Busy(s)
    BY <1>1, <1>3 DEF Src!Busy
  <2> QED BY <1>1, <2>1 DEF OneAtATime, Src!historyVars
<1>10. Agree'
  BY <1>3 DEF Agree
<1>11. ASSUME ~disturbed PROVE \A s \in Requests : SourcesFresh(asked[s])'
  <2>1. /\ \A s \in Requests : Src!Busy(s) => s = r
        /\ SourcesFresh(q)
    BY <1>1, <1>11 DEF OneAtATime, AllFresh, Src!Busy
  <2>2. \A s \in Requests \ {r} : asked[s]'.op = "idle"
    BY <1>1, <2>1 DEF Src!Busy
  <2>3. \A s \in Requests \ {r} : SourcesFresh(asked[s])'
    BY <2>2 DEF SourcesFresh
  <2>4. /\ q.known = Src!Live
        /\ \A e \in q.new : Served(e, q.mount)
        /\ \A i \in DOMAIN q.list : Served(q.list[i], q.mount)
    BY <1>1, <2>1 DEF SourcesFresh
  <2>5. \A i \in asked'[r].wrote :
          i \in DOMAIN inputs' /\ \E e : inputs'[i] = Src!Shown(e) /\ Listed(e, media) /\ Served(e,
          q.mount)
    <3>1. \A i \in Src!Rewritten(q) :
            i \in DOMAIN inputs' /\ \E e : inputs'[i] = Src!Shown(e) /\ Listed(e, media) /\ Served(e,
            q.mount)
      BY <1>2, <1>3, <1>5, <2>4
    <3>2. \A i \in DOMAIN inputs' \ DOMAIN inputs :
            \E e : inputs'[i] = Src!Shown(e) /\ Listed(e, media) /\ Served(e, q.mount)
      BY <1>3, <1>5, <2>4
    <3> QED BY <1>3, <3>1, <3>2
  <2>6. \A i \in asked'[r].wrote : i \in Src!Live' /\ Served(inputs'[i], q.mount)
    <3>1. \A e : Listed(e, media) => Src!Shown(e).live = TRUE /\ Src!Shown(e).upload = e.upload
          /\ Src!Shown(e).model = e.model
      BY <1>2, ShownIs
    <3> QED BY <2>5, <3>1 DEF Src!Live, Served
  <2>7. Src!Live' \subseteq q.known \cup asked'[r].wrote
    BY <1>3, <2>4 DEF Src!Live
  <2>8. \A i \in asked'[r].wrote : Served(inputs[i], asked[r].mount)'
    BY <1>1, <1>3, <2>6 DEF Served
  <2>9. SourcesFresh(asked[r])'
    BY <1>3, <2>6, <2>7, <2>8 DEF SourcesFresh
  <2> QED BY <2>3, <2>9
<1>12. AllFresh'
  BY <1>1, <1>11 DEF AllFresh, Src!historyVars
<1> QED BY <1>7, <1>8, <1>9, <1>10, <1>12

-----------------------------------------------------------------------------
(* Requests that end. *)

\* The one request there is ends: nothing is open.
LEMMA FinishAlone ==
    ASSUME SourcesConsistency, NEW r \in Requests, Src!Busy(r), Src!Finish(r), disturbed' = disturbed,
           mended' => ~disturbed
    PROVE  OneAtATime' /\ AllFresh'
<1>1. asked'[r].op = "idle" /\ \A s \in Requests \ {r} : asked'[s] = asked[s]
  BY DEF Src!Finish, Src!Idle, SourcesConsistency, SourcesTyped
<1>2. CASE disturbed
  BY <1>2 DEF OneAtATime, AllFresh
<1>3. CASE ~disturbed
  <2>1. \A s \in Requests : asked[s]'.op = "idle"
    BY <1>1, <1>3 DEF SourcesConsistency, OneAtATime, Src!Busy
  <2>2. \A s \in Requests : SourcesFresh(asked[s])'
    BY <2>1 DEF SourcesFresh
  <2> QED BY <2>1, <2>2 DEF OneAtATime, AllFresh, Src!Busy
<1> QED BY <1>2, <1>3

\* A row keeps its upload, whatever else of it changes.
LEMMA FinishTyped ==
    ASSUME SourcesTyped, NEW r \in Requests, Src!Finish(r),
           inputs' = [i \in DOMAIN inputs |-> inputs'[i]],
           \A i \in DOMAIN inputs : inputs'[i] \in Src!Row /\ inputs'[i].upload = inputs[i].upload,
           uploads' \in Seq(MediaStates), Len(uploads') = Len(uploads), files' \subseteq files,
           default' \in Models \cup {None}, mounted' \subseteq Models,
           running' \in BOOLEAN, disturbed' \in BOOLEAN, mended' \in BOOLEAN,
           disturbances' \in 0..MaxDisturbances
    PROVE  SourcesTyped' /\ DOMAIN uploads' = DOMAIN uploads
<1>1. /\ Len(inputs) \in Nat /\ DOMAIN inputs = 1..Len(inputs)
      /\ Len(uploads) \in Nat /\ DOMAIN uploads = 1..Len(uploads)
  BY SourcesTypesAre
<1>2. inputs' \in [1..Len(inputs) -> Src!Row]
  BY <1>1
<1>3. inputs' \in Seq(Src!Row) /\ Len(inputs') = Len(inputs)
  BY <1>1, <1>2
<1>4. DOMAIN uploads' = DOMAIN uploads
  BY <1>1
<1>5. Src!SourcesTypes'
  BY <1>3, <1>4 DEF SourcesTyped, Src!SourcesTypes, MediaStates
<1>6. \A i \in DOMAIN inputs' : inputs'[i].upload \in DOMAIN uploads' \cup {None}
  BY <1>1, <1>2, <1>4 DEF SourcesTyped
<1>7. \A s \in Requests : SourcesAsked(asked'[s], Len(inputs'), Len(uploads'))
  <2>1. SourcesAsked(Src!Idle, Len(inputs'), Len(uploads'))
    BY IdleIs
  <2>2. asked' = [s \in Requests |-> IF s = r THEN Src!Idle ELSE asked[s]]
    BY DEF Src!Finish, SourcesTyped
  <2> QED BY <1>3, <2>1, <2>2 DEF SourcesTyped
<1>8. asked' = [s \in Requests |-> asked'[s]]
  BY DEF Src!Finish, SourcesTyped
<1> QED BY <1>4, <1>5, <1>6, <1>7, <1>8 DEF SourcesTyped

\* A request that ends leaves no new deletion half done.
LEMMA FinishFiles ==
    ASSUME SourcesConsistency, NEW r \in Requests, Src!Finish(r), files' \subseteq files,
           DOMAIN uploads' = DOMAIN uploads,
           \A u \in DOMAIN uploads : uploads'[u] = "deleted" => u \notin files'
    PROVE  FilesGone'
<1>1. \A s \in Requests : asked'[s].op = "unlinked" => asked'[s] = asked[s]
  BY DEF Src!Finish, SourcesConsistency, SourcesTyped, Src!Idle
<1> QED BY <1>1 DEF FilesGone, SourcesConsistency

\* The second commit of a save: the rows it wrote stay, and all the rest follows them.
LEMMA FinishSaveKeeps ==
    ASSUME SourcesConsistency, NEW r \in Requests, Src!FinishSave(r)
    PROVE  SourcesConsistency'
<1> USE DEF SourcesConsistency
<1> DEFINE q == asked[r]
           attached == Src!UploadsOf(q.wrote) \cup q.lost
<1>1. /\ q.op = "saved" /\ mounted' = q.mount /\ Src!Finish(r)
      /\ inputs' = [i \in DOMAIN inputs |->
              [inputs[i] EXCEPT !.live = inputs[i].live /\ i \notin q.known \ q.wrote]]
      /\ uploads' = Src!SyncUploads(attached, {})
      /\ mended' = (mended \/ ~disturbed)
      /\ UNCHANGED <<files, default, running, disturbances, disturbed>>
  BY DEF Src!FinishSave
<1>2. /\ \A i \in DOMAIN inputs :
            /\ inputs'[i] \in Src!Row /\ inputs'[i].upload = inputs[i].upload
            /\ inputs'[i].model = inputs[i].model /\ inputs'[i].enabled = inputs[i].enabled
            /\ inputs'[i].live = (inputs[i].live /\ i \notin q.known \ q.wrote)
      /\ inputs' = [i \in DOMAIN inputs |-> inputs'[i]] /\ DOMAIN inputs' = DOMAIN inputs
  BY <1>1, SourcesTypesAre DEF Src!Row
<1>3. /\ uploads' \in Seq(MediaStates) /\ Len(uploads') = Len(uploads)
         /\ DOMAIN uploads' = DOMAIN uploads
      /\ \A u \in DOMAIN uploads :
            /\ uploads'[u] = "deleted" <=> uploads[u] = "deleted"
            /\ uploads'[u] \in {"attached", "active"} => u \in attached
            /\ u \in attached => uploads'[u] # "staged"
  <2>1. uploads \in Seq(MediaStates)
    BY SourcesTypesAre
  <2> HIDE DEF attached
  <2> QED BY <1>1, <2>1, SyncIs
<1>4. SourcesTyped'
  <2>1. q.mount \subseteq Models
    BY <1>1 DEF SourcesTyped, SourcesAsked
  <2>2. /\ default' \in Models \cup {None} /\ mounted' \subseteq Models /\ running' \in BOOLEAN
        /\ disturbed' \in BOOLEAN /\ mended' \in BOOLEAN /\ disturbances' \in 0..MaxDisturbances
    BY <1>1, <2>1 DEF SourcesTyped, Src!SourcesTypes
  <2> QED BY <1>1, <1>2, <1>3, <2>2, FinishTyped
<1>5. FilesGone'
  BY <1>1, <1>3, FinishFiles DEF FilesGone
<1>6. mended' => ~disturbed
  BY <1>1 DEF OneAtATime
<1>7. OneAtATime' /\ AllFresh'
  BY <1>1, <1>6, FinishAlone DEF Src!Busy
<1>8. ASSUME mended' PROVE Src!SourcesAreServed' /\ Src!UploadsAreFiled'
  <2>1. /\ q.lost = {} /\ q.wrote \subseteq Src!Live /\ Src!Live \subseteq q.known \cup q.wrote
        /\ \A i \in q.wrote : Served(inputs[i], q.mount)
    BY <1>1, <1>6, <1>8 DEF AllFresh, SourcesFresh
  <2>2. Src!Live' = q.wrote /\ Src!Enabled' \subseteq Src!Live'
    BY <1>2, <2>1 DEF Src!Live, Src!Enabled
  <2>3. Src!UploadsOf(Src!Live)' = Src!UploadsOf(q.wrote)
        /\ Src!UploadsOf(Src!Enabled)' \subseteq Src!UploadsOf(Src!Live)'
    BY <1>2, <2>1, <2>2 DEF Src!UploadsOf, Src!Live
  <2>4. attached = Src!UploadsOf(Src!Live)' /\ Src!UploadsOf(q.wrote) \subseteq DOMAIN uploads
    <3>1. \A i \in q.wrote : inputs[i].upload \in DOMAIN uploads \cup {None}
      BY <2>1, SourcesTypesAre DEF Src!Live
    <3> QED BY <2>1, <2>3, <3>1 DEF Src!UploadsOf
  <2>5. Src!SourcesAreServed'
    <3>1. \A u \in Src!UploadsOf(q.wrote) : uploads[u] # "deleted"
      BY <2>1 DEF Src!UploadsOf, Served
    <3>2. Src!ModelsOf(Src!Live)' \subseteq q.mount
      BY <1>2, <2>1, <2>2 DEF Src!ModelsOf, Served, Src!Live
    <3>3. None \notin Src!ModelsOf(Src!Live)'
      BY DEF Src!ModelsOf
    <3>4. Src!ModelsOf(Src!Live)' \subseteq Src!Effective'
      BY <1>1, <3>2, <3>3 DEF Src!Effective
    <3> QED BY <1>3, <2>3, <2>4, <3>1, <3>4 DEF Src!SourcesAreServed
  <2>6. Src!UploadsAreFiled'
    BY <1>3, <2>3, <2>4 DEF Src!UploadsAreFiled
  <2> QED BY <2>5, <2>6
<1> QED BY <1>4, <1>5, <1>7, <1>8 DEF Agree

\* An upload loses its row's life after its file.
LEMMA CommitDeleteKeeps ==
    ASSUME SourcesConsistency, NEW r \in Requests, Src!CommitDelete(r)
    PROVE  SourcesConsistency'
<1> USE DEF SourcesConsistency
<1> DEFINE v == asked[r].upload
<1>1. /\ asked[r].op = "unlinked" /\ uploads' = [uploads EXCEPT ![v] = "deleted"] /\ Src!Finish(r)
      /\ UNCHANGED <<inputs, files, Src!fileVars, running, Src!historyVars>>
  BY DEF Src!CommitDelete
<1>2. /\ v \in DOMAIN uploads /\ v \notin files /\ uploads \in Seq(MediaStates)
         /\ "deleted" \in MediaStates
  BY <1>1, SourcesTypesAre DEF SourcesTyped, SourcesAsked, FilesGone, MediaStates
<1>3. /\ uploads' \in Seq(MediaStates) /\ Len(uploads') = Len(uploads)
         /\ DOMAIN uploads' = DOMAIN uploads
      /\ uploads'[v] = "deleted" /\ \A u \in DOMAIN uploads \ {v} : uploads'[u] = uploads[u]
  BY <1>1, <1>2
<1>4. SourcesTyped'
  <2>1. /\ inputs' = [i \in DOMAIN inputs |-> inputs'[i]]
        /\ \A i \in DOMAIN inputs : inputs'[i] \in Src!Row /\ inputs'[i].upload = inputs[i].upload
    BY <1>1, SourcesTypesAre
  <2>2. /\ default' \in Models \cup {None} /\ mounted' \subseteq Models /\ running' \in BOOLEAN
        /\ disturbed' \in BOOLEAN /\ mended' \in BOOLEAN /\ disturbances' \in 0..MaxDisturbances
    BY <1>1 DEF SourcesTyped, Src!SourcesTypes, Src!fileVars, Src!historyVars
  <2> QED BY <1>1, <1>3, <2>1, <2>2, FinishTyped
<1>5. FilesGone'
  BY <1>1, <1>2, <1>3, FinishFiles DEF FilesGone
<1>6. OneAtATime' /\ AllFresh'
  BY <1>1, FinishAlone DEF Src!Busy, OneAtATime, Src!historyVars
<1>7. Agree'
  <2> SUFFICES ASSUME mended', \A s \in Requests : asked'[s].op # "saved"
               PROVE  Src!SourcesAreServed' /\ Src!UploadsAreFiled'
    BY DEF Agree
  <2>1. mended /\ ~disturbed
    BY <1>1 DEF OneAtATime, Src!historyVars
  <2>2. \A s \in Requests : asked[s].op # "saved"
    BY <1>1, <2>1 DEF OneAtATime, Src!Busy
  <2>3. Src!SourcesAreServed /\ Src!UploadsAreFiled /\ v \notin Src!UploadsOf(Src!Live)
    BY <1>1, <2>1, <2>2 DEF Agree, AllFresh, SourcesFresh
  <2>4. /\ Src!Live' = Src!Live /\ Src!Enabled' = Src!Enabled /\ Src!Effective' = Src!Effective
        /\ Src!UploadsOf(Src!Live)' = Src!UploadsOf(Src!Live)
           /\ Src!UploadsOf(Src!Enabled)' = Src!UploadsOf(Src!Enabled)
        /\ Src!ModelsOf(Src!Live)' = Src!ModelsOf(Src!Live)
    BY <1>1 DEF Src!Live, Src!Enabled, Src!Effective, Src!Default, Src!UploadsOf, Src!ModelsOf,
       Src!fileVars
  <2>5. Src!UploadsOf(Src!Enabled) \subseteq Src!UploadsOf(Src!Live)
        /\ Src!UploadsOf(Src!Live) \subseteq DOMAIN uploads
    BY SourcesTypesAre DEF Src!UploadsOf, Src!Enabled, Src!Live
  <2>6. Src!SourcesAreServed'
    BY <1>3, <2>3, <2>4, <2>5 DEF Src!SourcesAreServed
  <2>7. Src!UploadsAreFiled'
    BY <1>3, <2>3, <2>4, <2>5 DEF Src!UploadsAreFiled
  <2> QED BY <2>6, <2>7
<1> QED BY <1>4, <1>5, <1>6, <1>7

\* The file goes first.
LEMMA UnlinkKeeps ==
    ASSUME SourcesConsistency, NEW r \in Requests, Src!Unlink(r)
    PROVE  SourcesConsistency'
<1> USE DEF SourcesConsistency
<1>1. /\ asked[r].op = "delete" /\ files' = files \ {asked[r].upload}
      /\ asked' = [asked EXCEPT ![r] = [asked[r] EXCEPT !.op = "unlinked"]]
      /\ UNCHANGED <<inputs, uploads, Src!fileVars, running, Src!historyVars>>
  BY DEF Src!Unlink
<1>2. /\ asked[r] \in [op : {"delete", "unlinked"}, upload : 1..Len(uploads)]
      /\ Len(uploads) \in Nat /\ DOMAIN uploads = 1..Len(uploads)
  BY <1>1, SourcesTypesAre DEF SourcesTyped, SourcesAsked
<1>3. /\ asked'[r].op = "unlinked" /\ asked'[r].upload = asked[r].upload
      /\ asked'[r] \in [op : {"delete", "unlinked"}, upload : 1..Len(uploads)]
      /\ asked' = [s \in Requests |-> asked'[s]] /\ \A s \in Requests \ {r} : asked'[s] = asked[s]
  BY <1>1, <1>2 DEF SourcesTyped
<1>4. SourcesTyped'
  <2>1. \A s \in Requests : SourcesAsked(asked'[s], Len(inputs), Len(uploads))
    <3>1. SourcesAsked(asked'[r], Len(inputs), Len(uploads))
      BY <1>3 DEF SourcesAsked, Ops
    <3> QED BY <1>3, <3>1 DEF SourcesTyped
  <2>2. Src!SourcesTypes'
    BY <1>1 DEF SourcesTyped, Src!SourcesTypes, Src!fileVars, Src!historyVars
  <2> QED BY <1>1, <1>3, <2>1, <2>2 DEF SourcesTyped
<1>5. FilesGone'
  BY <1>1, <1>3 DEF FilesGone
<1>6. \A s \in Requests : Src!Busy(s)' <=> Src!Busy(s)
  BY <1>1, <1>3 DEF Src!Busy
<1>7. OneAtATime'
  BY <1>1, <1>6 DEF OneAtATime, Src!historyVars
<1>8. ASSUME ~disturbed PROVE \A s \in Requests : SourcesFresh(asked[s])'
  <2>1. \A s \in Requests \ {r} : asked[s]'.op = "idle"
    BY <1>1, <1>3, <1>8 DEF OneAtATime, Src!Busy
  <2>2. \A s \in Requests \ {r} : SourcesFresh(asked[s])'
    BY <2>1 DEF SourcesFresh
  <2>3. asked[r].upload \notin Src!UploadsOf(Src!Live)
    BY <1>1, <1>8 DEF AllFresh, SourcesFresh
  <2>4. Src!UploadsOf(Src!Live)' = Src!UploadsOf(Src!Live)
    BY <1>1 DEF Src!UploadsOf, Src!Live
  <2>5. SourcesFresh(asked[r])'
    BY <1>3, <2>3, <2>4 DEF SourcesFresh
  <2> QED BY <2>2, <2>5
<1>9. AllFresh'
  BY <1>1, <1>8 DEF AllFresh, Src!historyVars
<1>10. Agree'
  <2>1. ASSUME \A s \in Requests : asked'[s].op # "saved"
        PROVE  \A s \in Requests : asked[s].op # "saved"
    BY <1>1, <1>3, <2>1
  <2> QED BY <1>1, <2>1, AgreementKeeps DEF Agree, Src!historyVars
<1> QED BY <1>4, <1>5, <1>7, <1>9, <1>10

\* A binding and what is mounted are written together.
LEMMA CommitBindKeeps ==
    ASSUME SourcesConsistency, NEW r \in Requests, Src!CommitBind(r)
    PROVE  SourcesConsistency'
<1> USE DEF SourcesConsistency
<1> DEFINE q == asked[r]
<1>1. /\ q.op = "bind" /\ default' = q.default /\ mounted' = q.mount /\ Src!Finish(r)
      /\ inputs' = [i \in DOMAIN inputs |->
              IF i = q.source THEN [inputs[i] EXCEPT !.model = q.model] ELSE inputs[i]]
      /\ UNCHANGED <<uploads, files, running, Src!historyVars>>
  BY DEF Src!CommitBind
<1>2. q.mount \subseteq Models /\ q.model \in Models \cup {None} /\ q.default \in Models \cup {None}
  BY <1>1 DEF SourcesTyped, SourcesAsked
<1>3. /\ \A i \in DOMAIN inputs :
            /\ inputs'[i] \in Src!Row /\ inputs'[i].upload = inputs[i].upload
            /\ inputs'[i].live = inputs[i].live /\ inputs'[i].enabled = inputs[i].enabled
            /\ inputs'[i].model \in {inputs[i].model, q.model}
      /\ inputs' = [i \in DOMAIN inputs |-> inputs'[i]] /\ DOMAIN inputs' = DOMAIN inputs
  <2>1. ASSUME NEW i \in DOMAIN inputs
        PROVE  /\ inputs'[i] \in Src!Row /\ inputs'[i].upload = inputs[i].upload
               /\ inputs'[i].live = inputs[i].live /\ inputs'[i].enabled = inputs[i].enabled
               /\ inputs'[i].model \in {inputs[i].model, q.model}
    <3>1. inputs[i] \in Src!Row
      BY SourcesTypesAre
    <3>2. CASE i = q.source
      BY <1>1, <1>2, <3>1, <3>2 DEF Src!Row
    <3>3. CASE i # q.source
      BY <1>1, <3>1, <3>3
    <3> QED BY <3>2, <3>3
  <2> QED BY <1>1, <2>1
<1>4. SourcesTyped'
  <2>1. /\ default' \in Models \cup {None} /\ mounted' \subseteq Models /\ running' \in BOOLEAN
        /\ disturbed' \in BOOLEAN /\ mended' \in BOOLEAN /\ disturbances' \in 0..MaxDisturbances
    BY <1>1, <1>2 DEF SourcesTyped, Src!SourcesTypes, Src!historyVars
  <2>2. uploads' \in Seq(MediaStates) /\ Len(uploads') = Len(uploads)
    BY <1>1, SourcesTypesAre
  <2> QED BY <1>1, <1>3, <2>1, <2>2, FinishTyped
<1>5. FilesGone'
  BY <1>1, FinishFiles DEF FilesGone
<1>6. OneAtATime' /\ AllFresh'
  BY <1>1, FinishAlone DEF Src!Busy, OneAtATime, Src!historyVars
<1>7. Agree'
  <2> SUFFICES ASSUME mended', \A s \in Requests : asked'[s].op # "saved"
               PROVE  Src!SourcesAreServed' /\ Src!UploadsAreFiled'
    BY DEF Agree
  <2>1. mended /\ ~disturbed
    BY <1>1 DEF OneAtATime, Src!historyVars
  <2>2. \A s \in Requests : asked[s].op # "saved"
    BY <1>1, <2>1 DEF OneAtATime, Src!Busy
  <2>3. /\ Src!SourcesAreServed /\ Src!UploadsAreFiled
        /\ Src!Effective \subseteq q.mount /\ q.model \in q.mount \cup {None}
    BY <1>1, <2>1, <2>2 DEF Agree, AllFresh, SourcesFresh
  <2>4. /\ Src!Live' = Src!Live /\ Src!Enabled' = Src!Enabled
        /\ Src!UploadsOf(Src!Live)' = Src!UploadsOf(Src!Live)
           /\ Src!UploadsOf(Src!Enabled)' = Src!UploadsOf(Src!Enabled)
    BY <1>3 DEF Src!Live, Src!Enabled, Src!UploadsOf
  <2>5. Src!ModelsOf(Src!Live)' \subseteq Src!Effective'
    <3>1. Src!ModelsOf(Src!Live)' \subseteq (Src!ModelsOf(Src!Live) \cup {q.model}) \ {None}
      BY <1>3, <2>4 DEF Src!ModelsOf, Src!Live
    <3>2. Src!ModelsOf(Src!Live)' \subseteq q.mount \ {None}
      BY <2>3, <3>1 DEF Src!SourcesAreServed
    <3> QED BY <1>1, <3>2 DEF Src!Effective
  <2>6. Src!SourcesAreServed'
    BY <1>1, <2>3, <2>4, <2>5 DEF Src!SourcesAreServed
  <2>7. Src!UploadsAreFiled'
    BY <1>1, <2>3, <2>4 DEF Src!UploadsAreFiled
  <2> QED BY <2>6, <2>7
<1> QED BY <1>4, <1>5, <1>6, <1>7

\* What is unmounted is unbound first.
LEMMA CommitMountKeeps ==
    ASSUME SourcesConsistency, NEW r \in Requests, Src!CommitMount(r)
    PROVE  SourcesConsistency'
<1> USE DEF SourcesConsistency
<1> DEFINE q == asked[r]
           stops == q.missing # {} /\ running
<1>1. /\ q.op = "mount" /\ mounted' = q.mount /\ Src!Finish(r)
      /\ default' = IF q.missing = {} THEN default ELSE q.default
      /\ inputs' = [i \in DOMAIN inputs |-> IF i \in q.known /\ inputs[i].model \in q.missing
                                              THEN [inputs[i] EXCEPT !.model = None] ELSE inputs[i]]
      /\ IF stops THEN uploads' = Src!SyncUploads(Src!UploadsOf(Src!Live), {}) /\ running' = FALSE
                  ELSE UNCHANGED <<uploads, running>>
      /\ UNCHANGED <<files, Src!historyVars>>
  BY DEF Src!CommitMount, Src!Unbound
<1>2. q.mount \subseteq Models /\ q.default \in Models \cup {None}
  BY <1>1 DEF SourcesTyped, SourcesAsked
<1>3. /\ \A i \in DOMAIN inputs :
            /\ inputs'[i] \in Src!Row /\ inputs'[i].upload = inputs[i].upload
            /\ inputs'[i].live = inputs[i].live /\ inputs'[i].enabled = inputs[i].enabled
            /\ inputs'[i].model = IF i \in q.known /\ inputs[i].model \in q.missing
                                   THEN None ELSE inputs[i].model
      /\ inputs' = [i \in DOMAIN inputs |-> inputs'[i]] /\ DOMAIN inputs' = DOMAIN inputs
  <2>1. ASSUME NEW i \in DOMAIN inputs
        PROVE  /\ inputs'[i] \in Src!Row /\ inputs'[i].upload = inputs[i].upload
               /\ inputs'[i].live = inputs[i].live /\ inputs'[i].enabled = inputs[i].enabled
               /\ inputs'[i].model = IF i \in q.known /\ inputs[i].model \in q.missing
                                      THEN None ELSE inputs[i].model
    <3>1. inputs[i] \in Src!Row
      BY SourcesTypesAre
    <3>2. CASE i \in q.known /\ inputs[i].model \in q.missing
      BY <1>1, <3>1, <3>2 DEF Src!Row
    <3>3. CASE ~(i \in q.known /\ inputs[i].model \in q.missing)
      BY <1>1, <3>1, <3>3
    <3> QED BY <3>2, <3>3
  <2> QED BY <1>1, <2>1
<1>4. /\ uploads' \in Seq(MediaStates) /\ Len(uploads') = Len(uploads)
         /\ DOMAIN uploads' = DOMAIN uploads
      /\ \A u \in DOMAIN uploads : uploads'[u] = "deleted" <=> uploads[u] = "deleted"
  <2>1. uploads \in Seq(MediaStates)
    BY SourcesTypesAre
  <2>2. CASE stops
    BY <1>1, <2>1, <2>2, SyncIs
  <2>3. CASE ~stops
    BY <1>1, <2>1, <2>3
  <2> QED BY <2>2, <2>3
<1>5. SourcesTyped'
  <2>1. /\ default' \in Models \cup {None} /\ mounted' \subseteq Models /\ running' \in BOOLEAN
        /\ disturbed' \in BOOLEAN /\ mended' \in BOOLEAN /\ disturbances' \in 0..MaxDisturbances
    BY <1>1, <1>2 DEF SourcesTyped, Src!SourcesTypes, Src!historyVars
  <2> QED BY <1>1, <1>3, <1>4, <2>1, FinishTyped
<1>6. FilesGone'
  BY <1>1, <1>4, FinishFiles DEF FilesGone
<1>7. OneAtATime' /\ AllFresh'
  BY <1>1, FinishAlone DEF Src!Busy, OneAtATime, Src!historyVars
<1>8. Agree'
  <2> SUFFICES ASSUME mended', \A s \in Requests : asked'[s].op # "saved"
               PROVE  Src!SourcesAreServed' /\ Src!UploadsAreFiled'
    BY DEF Agree
  <2>1. mended /\ ~disturbed
    BY <1>1 DEF OneAtATime, Src!historyVars
  <2>2. \A s \in Requests : asked[s].op # "saved"
    BY <1>1, <2>1 DEF OneAtATime, Src!Busy
  <2>3. Src!SourcesAreServed /\ Src!UploadsAreFiled /\ q.known = Src!Live
        /\ q.missing = Src!Required \ q.mount
    BY <1>1, <2>1, <2>2 DEF Agree, AllFresh, SourcesFresh
  <2>4. /\ Src!Live' = Src!Live /\ Src!Enabled' = Src!Enabled
        /\ Src!UploadsOf(Src!Live)' = Src!UploadsOf(Src!Live)
           /\ Src!UploadsOf(Src!Enabled)' = Src!UploadsOf(Src!Enabled)
    BY <1>3 DEF Src!Live, Src!Enabled, Src!UploadsOf
  <2>5. Src!ModelsOf(Src!Live)' \subseteq Src!Effective'
    <3>1. ASSUME NEW i \in Src!Live, inputs'[i].model # None PROVE inputs'[i].model \in q.mount
      <4>1. inputs'[i].model = inputs[i].model /\ inputs[i].model \notin q.missing
        BY <1>3, <2>3, <3>1 DEF Src!Live
      <4>2. inputs[i].model \in Src!Required
        BY <3>1, <4>1 DEF Src!Required, Src!ModelsOf
      <4> QED BY <2>3, <4>1, <4>2
    <3> QED BY <1>1, <2>4, <3>1 DEF Src!ModelsOf, Src!Effective
  <2>6. Src!UploadsOf(Src!Enabled) \subseteq Src!UploadsOf(Src!Live)
        /\ Src!UploadsOf(Src!Live) \subseteq DOMAIN uploads
    BY SourcesTypesAre DEF Src!UploadsOf, Src!Enabled, Src!Live
  <2>7. Src!SourcesAreServed'
    BY <1>4, <2>3, <2>4, <2>5, <2>6 DEF Src!SourcesAreServed
  <2>8. Src!UploadsAreFiled'
    <3>1. CASE stops
      <4>1. uploads \in Seq(MediaStates) /\ uploads' = Src!SyncUploads(Src!UploadsOf(Src!Live), {})
        BY <1>1, <3>1, SourcesTypesAre
      <4> QED BY <1>4, <2>4, <2>6, <4>1, SyncIs DEF Src!UploadsAreFiled
    <3>2. CASE ~stops
      BY <1>1, <2>3, <2>4, <3>2 DEF Src!UploadsAreFiled
    <3> QED BY <3>1, <3>2
  <2> QED BY <2>7, <2>8
<1> QED BY <1>5, <1>6, <1>7, <1>8

\* The history when something goes wrong.
LEMMA DisturbIs ==
    ASSUME SourcesTyped, Src!Disturb
    PROVE  disturbances' \in 0..MaxDisturbances /\ disturbed' \in BOOLEAN /\ mended' \in BOOLEAN
<1>1. disturbances \in 0..MaxDisturbances /\ MaxDisturbances \in Nat
  BY SourcesAssumption DEF SourcesTyped, Src!SourcesTypes
<1>2. /\ disturbances < MaxDisturbances /\ disturbances' = disturbances + 1
      /\ disturbed' = TRUE /\ mended' = FALSE
  BY DEF Src!Disturb
<1>3. disturbances' \in 0..MaxDisturbances
  BY <1>1, <1>2
<1> QED BY <1>2, <1>3

\* The registry mirror is rolled back.
LEMMA RollBackSaveKeeps ==
    ASSUME SourcesConsistency, NEW r \in Requests, Src!RollBackSave(r)
    PROVE  SourcesConsistency'
<1> DEFINE q == asked[r]
           next == [op |-> "saved", known |-> q.known, mount |-> q.mount,
                    lost |-> {e.upload : e \in Src!Stale(q)} \ {None}, wrote |-> Src!Rewritten(q)]
<1>1. /\ q.op = "save" /\ asked' = [asked EXCEPT ![r] = next] /\ Src!Disturb
      /\ UNCHANGED <<inputs, uploads, files, Src!fileVars, running>>
  BY DEF Src!RollBackSave
<1>2. q.mount \subseteq Models /\ next.op = "saved" /\ next.mount = q.mount
  BY <1>1 DEF SourcesConsistency, SourcesTyped, SourcesAsked
<1> HIDE DEF next
<1>3. SourcesAsked(next, Len(inputs), Len(uploads))
  BY <1>2 DEF SourcesAsked, Ops
<1>4. /\ asked' = [s \in Requests |-> asked'[s]]
      /\ \A s \in Requests : SourcesAsked(asked'[s], Len(inputs), Len(uploads))
      /\ \A s \in Requests : asked'[s].op = "unlinked" => asked'[s].upload \notin files
  BY <1>1, <1>2, <1>3 DEF SourcesConsistency, SourcesTyped, FilesGone
<1>5. SourcesTyped' /\ FilesGone'
  <2>1. disturbances' \in 0..MaxDisturbances /\ disturbed' \in BOOLEAN /\ mended' \in BOOLEAN
    BY <1>1, DisturbIs DEF SourcesConsistency
  <2> QED BY <1>1, <1>4, <2>1, RestKeeps
<1> QED BY <1>1, <1>5, Disturbed

\* The commit after the files were written fails.
LEMMA MountFailsKeeps ==
    ASSUME SourcesConsistency, NEW r \in Requests, Src!MountFails(r)
    PROVE  SourcesConsistency'
<1> USE DEF SourcesConsistency
<1> DEFINE q == asked[r]
<1>1. /\ q.op = "mount" /\ mounted' \in {mounted, q.mount} /\ Src!Finish(r) /\ Src!Disturb
      /\ default' = IF q.missing = {} THEN default ELSE q.default
      /\ running' = (running /\ q.missing = {})
      /\ UNCHANGED <<inputs, uploads, files>>
  BY DEF Src!MountFails
<1>2. q.mount \subseteq Models /\ q.default \in Models \cup {None}
  BY <1>1 DEF SourcesTyped, SourcesAsked
<1>3. /\ default' \in Models \cup {None} /\ mounted' \subseteq Models /\ running' \in BOOLEAN
  BY <1>1, <1>2 DEF SourcesTyped, Src!SourcesTypes
<1>4. disturbances' \in 0..MaxDisturbances /\ disturbed' \in BOOLEAN /\ mended' \in BOOLEAN
  BY <1>1, DisturbIs
<1>5. /\ inputs' = [i \in DOMAIN inputs |-> inputs'[i]]
      /\ \A i \in DOMAIN inputs : inputs'[i] \in Src!Row /\ inputs'[i].upload = inputs[i].upload
      /\ uploads' \in Seq(MediaStates) /\ Len(uploads') = Len(uploads)
  BY <1>1, SourcesTypesAre
<1>6. SourcesTyped'
  BY <1>1, <1>3, <1>4, <1>5, FinishTyped
<1>7. FilesGone'
  BY <1>1, FinishFiles DEF FilesGone
<1> QED BY <1>1, <1>6, <1>7, Disturbed

\* The web application comes back without the requests.
LEMMA CrashKeeps ==
    ASSUME SourcesConsistency, Src!Crash
    PROVE  SourcesConsistency'
<1>1. /\ asked' = [s \in Requests |-> Src!Idle] /\ Src!Disturb
      /\ UNCHANGED <<inputs, uploads, files, Src!fileVars, running>>
  BY DEF Src!Crash
<1>2. /\ asked' = [s \in Requests |-> asked'[s]]
      /\ \A s \in Requests : SourcesAsked(asked'[s], Len(inputs), Len(uploads))
      /\ \A s \in Requests : asked'[s].op = "unlinked" => asked'[s].upload \notin files
  BY <1>1, IdleIs
<1>3. disturbances' \in 0..MaxDisturbances /\ disturbed' \in BOOLEAN /\ mended' \in BOOLEAN
  BY <1>1, DisturbIs DEF SourcesConsistency
<1>4. SourcesTyped' /\ FilesGone'
  BY <1>1, <1>2, <1>3, RestKeeps
<1> QED BY <1>1, <1>4, Disturbed

-----------------------------------------------------------------------------
(* The specification. *)

\* Nothing is saved, stored or open at first.
LEMMA SourcesInitially == Src!Init => SourcesConsistency
<1> SUFFICES ASSUME Src!Init PROVE SourcesConsistency
  OBVIOUS
<1>1. /\ inputs = <<>> /\ uploads = <<>> /\ files = {} /\ default = None /\ mounted = {}
      /\ running = FALSE /\ asked = [r \in Requests |-> Src!Idle]
      /\ disturbances = 0 /\ disturbed = FALSE /\ mended = TRUE
  BY DEF Src!Init
<1>2. SourcesTyped
  <2>1. Src!SourcesTypes
    <3>1. /\ inputs \in Seq(Src!Row) /\ Len(inputs) = 0
          /\ uploads \in Seq({"staged", "attached", "active", "deleted"}) /\ Len(uploads) = 0
          /\ files \subseteq DOMAIN uploads
      BY <1>1
    <3>2. 0 <= MaxRows /\ 0 <= MaxUploads /\ 0 \in 0..MaxDisturbances
      BY SourcesAssumption
    <3>3. /\ default \in Models \cup {None} /\ mounted \subseteq Models
          /\ running \in BOOLEAN /\ disturbed \in BOOLEAN /\ mended \in BOOLEAN
          /\ disturbances \in 0..MaxDisturbances
      BY <1>1, <3>2
    <3> QED BY <3>1, <3>2, <3>3 DEF Src!SourcesTypes
  <2> QED BY <1>1, <2>1, IdleIs DEF SourcesTyped
<1>3. Src!Live = {} /\ Src!Enabled = {}
  BY <1>1 DEF Src!Live, Src!Enabled
<1>4. FilesGone /\ OneAtATime /\ AllFresh
  BY <1>1, IdleIs DEF FilesGone, OneAtATime, AllFresh, Src!Busy
<1>5. Agree
  BY <1>1, <1>3 DEF Agree, Src!SourcesAreServed, Src!UploadsAreFiled, Src!UploadsOf, Src!ModelsOf
<1> QED BY <1>2, <1>4, <1>5 DEF SourcesConsistency

\* A step that changes nothing.
LEMMA StutterKeeps ==
    ASSUME SourcesConsistency, UNCHANGED Src!vars
    PROVE  SourcesConsistency'
<1>1. UNCHANGED <<inputs, uploads, files, Src!fileVars, running, asked, Src!historyVars>>
  BY DEF Src!vars
<1>2. SourcesTyped' /\ FilesGone'
  <2>1. /\ disturbances' \in 0..MaxDisturbances /\ disturbed' \in BOOLEAN /\ mended' \in BOOLEAN
        /\ asked' = [r \in Requests |-> asked'[r]]
    BY <1>1 DEF SourcesConsistency, SourcesTyped, Src!SourcesTypes, Src!historyVars
  <2>2. /\ \A r \in Requests : SourcesAsked(asked'[r], Len(inputs), Len(uploads))
        /\ \A r \in Requests : asked'[r].op = "unlinked" => asked'[r].upload \notin files
    BY <1>1 DEF SourcesConsistency, SourcesTyped, FilesGone
  <2> QED BY <1>1, <2>1, <2>2, RestKeeps
<1>3. OneAtATime'
  BY <1>1 DEF SourcesConsistency, OneAtATime, Src!Busy, Src!historyVars
<1>4. AllFresh'
  <2>1. ASSUME NEW r \in Requests, SourcesFresh(asked[r]) PROVE SourcesFresh(asked[r])'
    <3>1. asked'[r] = asked[r] /\ SourcesAsked(asked[r], Len(inputs), Len(uploads))
      BY <1>1 DEF SourcesConsistency, SourcesTyped
    <3> QED BY <1>1, <2>1, <3>1, StillFresh DEF SourcesConsistency
  <2> QED BY <1>1, <2>1 DEF SourcesConsistency, AllFresh, Src!historyVars
<1>5. Agree'
  BY <1>1, AgreementKeeps DEF SourcesConsistency, Agree, Src!historyVars
<1> QED BY <1>2, <1>3, <1>4, <1>5 DEF SourcesConsistency

\* Every step keeps the invariant.
LEMMA SourcesStepKeeps == SourcesConsistency /\ [Src!Next]_(Src!vars) => SourcesConsistency'
<1> SUFFICES ASSUME SourcesConsistency, [Src!Next]_(Src!vars) PROVE SourcesConsistency'
  OBVIOUS
<1>1. ASSUME NEW r \in Requests, Src!Request(r) PROVE SourcesConsistency'
  BY <1>1, OpenSaveKeeps, WriteSaveKeeps, RollBackSaveKeeps, FinishSaveKeeps, OpenDeleteKeeps,
     UnlinkKeeps, CommitDeleteKeeps, OpenBindKeeps, CommitBindKeeps, OpenMountKeeps,
     CommitMountKeeps, MountFailsKeeps DEF Src!Request
<1>2. CASE Src!StoreUpload \/ Src!Start \/ Src!Stop
  BY <1>2, MediaKeep
<1>3. CASE Src!Crash
  BY <1>3, CrashKeeps
<1>4. CASE UNCHANGED Src!vars
  BY <1>4, StutterKeeps
<1> QED BY <1>1, <1>2, <1>3, <1>4 DEF Src!Next

\* The invariant holds in every state.
LEMMA SourcesAlwaysConsistent == Src!Spec => []SourcesConsistency
  BY SourcesInitially, SourcesStepKeeps, PTL DEF Src!Spec

(***************************************************************************)
(* After a save that nothing disturbed, and until requests overlap or fail *)
(* again, live sources read uploads that are there and models that are     *)
(* mounted, for any number of rows, uploads, models and handler threads.   *)
(***************************************************************************)
THEOREM SavesAlwaysHeal == Src!Spec => []SavesHeal
<1>1. SourcesConsistency => SavesHeal
  <2> SUFFICES ASSUME SourcesConsistency PROVE SavesHeal
    OBVIOUS
  <2>1. mended /\ Src!Quiet => Src!SourcesAreServed /\ Src!UploadsAreFiled
    BY DEF SourcesConsistency, Agree, Src!Quiet, Src!Busy
  <2> QED BY <2>1 DEF SourcesConsistency, SavesHeal, Src!SavesHeal, SourcesTyped, FilesGone
<1> QED BY <1>1, SourcesAlwaysConsistent, PTL

\* A step that writes no row's life but to give it one.
LEMMA LivesOn ==
    ASSUME DOMAIN inputs \subseteq DOMAIN inputs',
           \A i \in DOMAIN inputs : inputs[i].live => inputs'[i].live
    PROVE  \A i \in Src!Live : i \in Src!Live'
  BY DEF Src!Live

\* A save that ends takes the life of rows it knew.
LEMMA FinishSaveTakes ==
    ASSUME SourcesConsistency, NEW r \in Requests, Src!FinishSave(r), NEW i \in Src!Live,
           i \notin Src!Live'
    PROVE  Src!Busy(r) /\ ~Src!Busy(r)' /\ i \in asked[r].known
<1>1. /\ asked[r].op = "saved" /\ asked'[r].op = "idle"
      /\ inputs' = [k \in DOMAIN inputs |->
              [inputs[k] EXCEPT !.live = inputs[k].live /\ k \notin asked[r].known \ asked[r].wrote]]
  BY DEF Src!FinishSave, Src!Finish, SourcesConsistency, SourcesTyped, Src!Idle
<1>2. \A k \in DOMAIN inputs :
        inputs'[k].live = (inputs[k].live /\ k \notin asked[r].known \ asked[r].wrote)
  BY <1>1, SourcesTypesAre DEF SourcesConsistency, Src!Row
<1> QED BY <1>1, <1>2 DEF Src!Live, Src!Busy

\* Only a save that ends takes lives.
LEMMA OnlySavesTake ==
    ASSUME SourcesConsistency, [Src!Next]_(Src!vars), NEW i \in Src!Live, i \notin Src!Live'
    PROVE  \E r \in Requests : Src!FinishSave(r)
<1>1. i \in DOMAIN inputs /\ inputs[i].live /\ inputs[i] \in Src!Row
  BY SourcesTypesAre DEF Src!Live, SourcesConsistency
<1>2. ASSUME NEW r \in Requests, Src!WriteSave(r) PROVE FALSE
  <2>1. inputs'[i].live /\ i \in DOMAIN inputs'
    <3>1. /\ Len(uploads) \in Nat /\ Len(uploads) <= MaxUploads /\ SourcesAsked(asked[r], Len(inputs),
             Len(uploads))
          /\ Len(inputs) \in Nat /\ DOMAIN inputs = 1..Len(inputs) /\ asked[r].op = "save"
      BY <1>2, SourcesTypesAre DEF SourcesConsistency, SourcesTyped, Src!SourcesTypes, Src!WriteSave
    <3>2. i \in Src!Rewritten(asked[r]) => Listed(asked[r].list[i], Len(uploads))
      BY <3>1 DEF Src!Rewritten, SourcesAsked
    <3>3. i \in Src!Rewritten(asked[r]) => Src!Shown(asked[r].list[i]).live = TRUE
      BY <3>1, <3>2, ShownIs
    <3>4. /\ inputs' \in Seq(Src!Row) /\ Len(inputs) <= Len(inputs')
          /\ IF i \in Src!Rewritten(asked[r]) THEN inputs'[i] = Src!Shown(asked[r].list[i])
                                        ELSE inputs'[i] = inputs[i]
      BY <1>1, <1>2, WriteSaveIs DEF SourcesConsistency
    <3>5. i \in DOMAIN inputs'
      BY <1>1, <3>1, <3>4
    <3> QED BY <1>1, <3>3, <3>4, <3>5
  <2> QED BY <2>1 DEF Src!Live
<1>3. ASSUME NEW r \in Requests, Src!CommitBind(r) \/ Src!CommitMount(r) PROVE FALSE
  <2>1. /\ DOMAIN inputs' = DOMAIN inputs
        /\ \E m : inputs'[i] = [inputs[i] EXCEPT !.model = m] \/ inputs'[i] = inputs[i]
    BY <1>1, <1>3 DEF Src!CommitBind, Src!CommitMount, Src!Unbound
  <2>2. inputs'[i].live
    BY <1>1, <2>1 DEF Src!Row
  <2> QED BY <1>1, <2>1, <2>2 DEF Src!Live
<1>4. inputs' # inputs
  BY DEF Src!Live
<1>5. ASSUME NEW r \in Requests, Src!Request(r) PROVE Src!FinishSave(r)
  BY <1>2, <1>3, <1>4, <1>5
     DEF Src!Request, Src!OpenSave, Src!RollBackSave, Src!OpenDelete, Src!Unlink, Src!CommitDelete,
         Src!OpenBind, Src!OpenMount, Src!MountFails
<1> QED BY <1>4, <1>5 DEF Src!Next, Src!StoreUpload, Src!Start, Src!Stop, Src!Crash, Src!vars

(***************************************************************************)
(* A source that another client adds while a list of sources is saved      *)
(* survives that save: what a save deletes, it had read when it began.     *)
(***************************************************************************)
THEOREM NewcomersAlwaysSurvive == Src!Spec => NewcomersSurvive
<1>1. ASSUME SourcesConsistency, [Src!Next]_(Src!vars), NEW i \in Src!Live, i \notin Src!Live'
      PROVE  \E r \in Requests : Src!Busy(r) /\ ~Src!Busy(r)' /\ i \in asked[r].known
  BY <1>1, OnlySavesTake, FinishSaveTakes
<1>2. SourcesConsistency /\ [Src!Next]_(Src!vars) =>
        [\A i \in Src!Live : i \in Src!Live' \/ (\E r \in Requests :
            Src!Busy(r) /\ ~Src!Busy(r)' /\ i \in asked[r].known)]_(Src!vars)
  BY <1>1
<1> QED BY <1>2, SourcesAlwaysConsistent, PTL DEF Src!Spec, NewcomersSurvive, Src!NewcomersSurvive

-----------------------------------------------------------------------------
(***************************************************************************)
(* The specification that the run checks has what is proved of each part:  *)
(* what one part does leaves the other as it is.                           *)
(***************************************************************************)
THEOREM SettingsSafety ==
    SettingsSpec => /\ []RulesHeal /\ SecretSurvives /\ DeliveredAsChosen
                    /\ []SavesHeal /\ NewcomersSurvive
<1>1. SettingsSpec => Spec
  <2>1. SettingsInit => Init
    BY DEF SettingsInit
  <2>2. [AlertsPart \/ SourcesPart]_settingsVars => [Next]_vars
    BY DEF settingsVars, AlertsPart, SourcesPart
  <2> QED BY <2>1, <2>2, PTL DEF SettingsSpec, Spec
<1>2. SettingsSpec => Src!Spec
  <2>1. SettingsInit => Src!Init
    BY DEF SettingsInit
  <2>2. [AlertsPart \/ SourcesPart]_settingsVars => [Src!Next]_(Src!vars)
    BY DEF settingsVars, AlertsPart, SourcesPart, sourcesVars, Src!vars, Src!fileVars, Src!historyVars
  <2> QED BY <2>1, <2>2, PTL DEF SettingsSpec, Src!Spec
<1>3. SettingsSpec => []RulesHeal /\ SecretSurvives /\ DeliveredAsChosen
  BY <1>1, RulesAlwaysHeal, SecretAlwaysSurvives, AlwaysDeliveredAsChosen, PTL
<1>4. SettingsSpec => []SavesHeal /\ NewcomersSurvive
  BY <1>2, SavesAlwaysHeal, NewcomersAlwaysSurvive, PTL
<1> QED BY <1>3, <1>4
=============================================================================
