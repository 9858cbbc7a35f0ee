---------------------------- MODULE RecordsProofs ----------------------------
(***************************************************************************)
(* The proofs of MCRecords's properties, for any persons and bags, frames, *)
(* incidents and failed commits.                                           *)
(***************************************************************************)
EXTENDS MCRecords, FiniteSetTheorems, NaturalsInduction, WellFoundedInduction, TLAPS

Reals == RealPersons \cup RealBags

\* Every id is temporary or real.
LEMMA Disjoint ==
    /\ Temps \cap Reals = {} /\ Temps \subseteq Ids /\ Reals \subseteq Ids /\ Ids \ Temps = Reals
    /\ PersonIds \subseteq Ids /\ BagIds \subseteq Ids
    /\ RealPersons \subseteq PersonIds /\ TempPersons \subseteq PersonIds
    /\ RealPersons \subseteq Reals /\ TempPersons \subseteq Temps
    /\ RealBags \subseteq Reals /\ TempBags \subseteq Temps
    /\ TempPersons \cap RealPersons = {} /\ PersonIds \cap BagIds = {}
  BY RecordsAssumption DEF Temps, Reals, Ids, PersonIds, BagIds

-----------------------------------------------------------------------------
(* Partial functions. *)
LEMMA PartialIs ==
    ASSUME NEW D, NEW R, NEW f
    PROVE  f \in Partial(D, R) <=> DOMAIN f \subseteq D /\ f \in [DOMAIN f -> R]
  BY DEF Partial

\* dict.update keeps to the type, and the new entries win.
LEMMA Overridden ==
    ASSUME NEW D, NEW R, NEW f \in Partial(D, R), NEW g \in Partial(D, R)
    PROVE  /\ Override(f, g) \in Partial(D, R)
           /\ DOMAIN Override(f, g) = DOMAIN f \cup DOMAIN g
           /\ \A x \in DOMAIN f : Override(f, g)[x] = f[x]
           /\ \A x \in DOMAIN g \ DOMAIN f : Override(f, g)[x] = g[x]
<1>1. /\ DOMAIN f \subseteq D /\ f \in [DOMAIN f -> R]
      /\ DOMAIN g \subseteq D /\ g \in [DOMAIN g -> R]
  BY PartialIs
<1>2. DOMAIN Override(f, g) = DOMAIN f \cup DOMAIN g
  BY DEF Override
<1>3. /\ \A x \in DOMAIN f : Override(f, g)[x] = f[x]
      /\ \A x \in DOMAIN g \ DOMAIN f : Override(f, g)[x] = g[x]
  BY DEF Override
<1>4. Override(f, g) \in [DOMAIN f \cup DOMAIN g -> R]
  BY <1>1 DEF Override
<1>5. Override(f, g) \in Partial(D, R)
  BY <1>1, <1>2, <1>4, PartialIs
<1> QED BY <1>2, <1>3, <1>5

\* A dictionary with one entry.
LEMMA Single ==
    ASSUME NEW D, NEW R, NEW d \in D, NEW e \in R
    PROVE  /\ [x \in {d} |-> e] \in Partial(D, R)
           /\ DOMAIN [x \in {d} |-> e] = {d} /\ [x \in {d} |-> e][d] = e
<1>1. [x \in {d} |-> e] \in [{d} -> R]
  OBVIOUS
<1> QED BY <1>1, PartialIs

\* A partial function stays one in wider sets.
LEMMA Wider ==
    ASSUME NEW D, NEW R, NEW E, NEW S, D \subseteq E, R \subseteq S, NEW f \in Partial(D, R)
    PROVE  f \in Partial(E, S)
<1>1. DOMAIN f \subseteq D /\ f \in [DOMAIN f -> R]
  BY PartialIs
<1>2. f \in [DOMAIN f -> S]
  BY <1>1
<1> QED BY <1>1, <1>2, PartialIs

\* So is the empty one.
LEMMA Nothing ==
    ASSUME NEW D, NEW R
    PROVE  <<>> \in Partial(D, R) /\ DOMAIN <<>> = {}
<1>1. DOMAIN <<>> = {} /\ <<>> \in [{} -> R]
  OBVIOUS
<1> QED BY <1>1, PartialIs

\* What a partial function maps, and to what.
LEMMA Value ==
    ASSUME NEW D, NEW R, NEW f \in Partial(D, R), NEW x \in DOMAIN f
    PROVE  x \in D /\ f[x] \in R
  BY PartialIs

-----------------------------------------------------------------------------
(* The types. *)
Rows == [by : {"reid", "association"}, no : Nat, born : Ids, to : Ids]
Messages == [tracks : SUBSET Ids, loiterers : SUBSET RealPersons,
             people : Partial(TempPersons, RealPersons), bags : Partial(TempBags, RealBags)]
Jobs == [pc : {"idle", "rename", "create", "delete"}, todo : SUBSET Temps,
         temp : Temps \cup {"none"}, updates : Partial(Temps, Reals), tracks : SUBSET Ids,
         loiterers : SUBSET RealPersons, rows : SUBSET Rows, pending : BOOLEAN]
Sides == {"database", "association"}

Identities ==
    /\ frames \in Nat /\ resolved \in Partial(Temps, Reals)
    /\ wire \in Views \cup {NoFrame}
Presences ==
    /\ entries \in Partial(PersonIds, [first : Nat, last : Nat, loiters : BOOLEAN])
    /\ \A i \in DOMAIN entries : entries[i].first <= entries[i].last
    /\ reports \subseteq [person : RealPersons, frame : Nat]
    /\ sighted \in [PersonIds -> SUBSET Nat]
Tables ==
    /\ confirmed \subseteq Ids /\ spoilt \subseteq Ids
    /\ entity \in [Ids -> {"none", "live", "deleted"}]
    /\ mapping \in Partial(Temps, Reals) /\ refs \subseteq Rows
    /\ failures \in 0..MaxFailures
Writing == job \in Jobs /\ reidQueue \in Seq(Messages) /\ running \in BOOLEAN
Telling ==
    /\ inbox \in Seq(Frame) /\ renamed \in Partial(Temps, Reals)
    /\ raised \in [{"association", "anomaly"} -> Nat] /\ Len(assocQueue) <= raised["association"]

-----------------------------------------------------------------------------
(* The least and the greatest of a set of numbers. *)
LessThan == {pair \in Nat \X Nat : pair[1] < pair[2]}

\* A set of numbers has a least one.
LEMMA LeastIs ==
    ASSUME NEW S, S \subseteq Nat, S # {}
    PROVE  Min(S) \in S /\ \A x \in S : Min(S) <= x
<1>1. IsWellFoundedOn(LessThan, Nat)
  BY NatLessThanWellFounded, Zenon DEF OpToRel, LessThan
<1>2. PICK m \in S : \A k \in S : ~(<<k, m>> \in LessThan)
  BY <1>1, WFMin
<1>3. \A k \in S : k \in Nat /\ m \in Nat /\ ~(k < m)
  BY <1>2 DEF LessThan
<1>4. \E x \in S : \A y \in S : x =< y
  BY <1>3
<1> QED BY <1>4 DEF Min

\* A bounded set of numbers has a greatest one.
LEMMA GreatestIs ==
    ASSUME NEW S, S \subseteq Nat, S # {}, NEW N \in Nat, \A x \in S : x <= N
    PROVE  Max(S) \in S /\ \A x \in S : x <= Max(S)
<1> DEFINE T == {N - x : x \in S}
<1>1. T \subseteq Nat /\ T # {}
  <2>1. \A x \in S : N - x \in Nat
    OBVIOUS
  <2> QED BY <2>1
<1>2. Min(T) \in T /\ \A y \in T : Min(T) <= y
  BY <1>1, LeastIs
<1>3. PICK m \in S : Min(T) = N - m
  BY <1>2
<1>4. \A x \in S : N - m <= N - x
  BY <1>2, <1>3
<1>5. \E x \in S : \A y \in S : x >= y
  BY <1>4
<1>6. Max(S) \in S /\ \A y \in S : Max(S) >= y
  BY <1>5 DEF Max
<1> QED BY <1>6

-----------------------------------------------------------------------------
(* LoiteringManager: what a frame makes of the entries. *)
Entry == [first : Nat, last : Nat, loiters : BOOLEAN]
Past(old, n) == \A i \in DOMAIN old : old[i].first <= old[i].last /\ old[i].last <= n

\* LoiteringManager.update: who is shown was seen last now, the others as before.
LEMMA UpdatedIs ==
    ASSUME NEW old \in Partial(PersonIds, Entry), Past(old, frames), frames \in Nat,
           NEW present \in SUBSET PersonIds
    PROVE  LET new == Updated(old, present)
           IN  /\ new \in Partial(PersonIds, Entry) /\ Past(new, frames)
               /\ DOMAIN new = DOMAIN old \cup present
               /\ \A i \in DOMAIN old :
                      /\ new[i].first = old[i].first /\ new[i].loiters = old[i].loiters
                      /\ i \notin present => new[i] = old[i]
               /\ \A i \in present : new[i].last = frames
               /\ \A i \in present \ DOMAIN old : new[i].first = frames /\ new[i].loiters = FALSE
<1> DEFINE new == Updated(old, present)
<1>1. DOMAIN old \subseteq PersonIds /\ \A i \in DOMAIN old : old[i] \in Entry
  BY PartialIs
<1>2. new = [i \in DOMAIN old \cup present |->
               IF i \in DOMAIN old THEN [old[i] EXCEPT !.last = IF i \in present THEN frames ELSE @]
               ELSE [first |-> frames, last |-> frames, loiters |-> FALSE]]
  BY DEF Updated
<1> HIDE DEF new
<1>3. DOMAIN new = DOMAIN old \cup present
  BY <1>2
<1>4. \A i \in DOMAIN new \ present : new[i] = old[i]
  BY <1>1, <1>2 DEF Entry
<1>5. \A i \in present \cap DOMAIN old : new[i] = [old[i] EXCEPT !.last = frames]
  BY <1>2
<1>6. \A i \in present \ DOMAIN old : new[i] = [first |-> frames, last |-> frames, loiters |-> FALSE]
  BY <1>2
<1>7. \A i \in present \cap DOMAIN old :
        /\ new[i] \in Entry /\ new[i].first = old[i].first /\ new[i].last = frames
        /\ new[i].loiters = old[i].loiters
  BY <1>1, <1>5 DEF Entry
<1>8. \A i \in present \ DOMAIN old :
        /\ new[i] \in Entry /\ new[i].first = frames /\ new[i].last = frames
        /\ new[i].loiters = FALSE
  <2>1. [first |-> frames, last |-> frames, loiters |-> FALSE] \in Entry
    BY DEF Entry
  <2> QED BY <1>6, <2>1
<1>9. \A i \in DOMAIN new : new[i] \in Entry
  BY <1>1, <1>3, <1>4, <1>7, <1>8
<1>10. new \in [DOMAIN new -> Entry]
  BY <1>2, <1>3, <1>9
<1>11. new \in Partial(PersonIds, Entry)
  BY <1>1, <1>3, <1>10, PartialIs
<1>12. Past(new, frames)
  <2> SUFFICES ASSUME NEW i \in DOMAIN new
               PROVE  new[i].first <= new[i].last /\ new[i].last <= frames
    BY DEF Past
  <2>1. CASE i \notin present
    BY <1>3, <1>4, <2>1 DEF Past
  <2>2. CASE i \in present /\ i \in DOMAIN old
    <3>1. old[i].first \in Nat /\ old[i].last \in Nat /\ old[i].first <= old[i].last
          /\ old[i].last <= frames
      BY <1>1, <2>2 DEF Past, Entry
    <3> QED BY <1>7, <2>2, <3>1
  <2>3. CASE i \in present /\ i \notin DOMAIN old
    BY <1>8, <2>3
  <2> QED BY <2>1, <2>2, <2>3
<1>13. new = Updated(old, present)
  BY DEF new
<1> QED BY <1>3, <1>4, <1>7, <1>8, <1>11, <1>12, <1>13

\* What became of the entries when those of temporary ids were joined to those of real ones.
Joined(new, old, updates) ==
    /\ DOMAIN new = DOMAIN old \ DOMAIN updates
    /\ \A i \in DOMAIN new :
           /\ new[i].loiters = old[i].loiters
           /\ new[i].last >= old[i].last
           /\ (\A t \in DOMAIN updates : updates[t] # i) =>
                  new[i].first = old[i].first /\ new[i].last = old[i].last
           /\ \E k \in DOMAIN old :
                  /\ k = i \/ (k \in DOMAIN updates /\ updates[k] = i)
                  /\ new[i].first = old[k].first

\* The real ids are there to join the temporary ones to.
LEMMA MergedIs ==
    ASSUME NEW old \in Partial(PersonIds, Entry), NEW n \in Nat, Past(old, n),
           NEW updates \in Partial(TempPersons, RealPersons),
           \A t \in DOMAIN updates : updates[t] \in DOMAIN old
    PROVE  /\ Merged(old, updates) \in Partial(PersonIds, Entry) /\ Past(Merged(old, updates), n)
           /\ Joined(Merged(old, updates), old, updates)
<1> DEFINE new == Merged(old, updates)
           from == DOMAIN updates \cap DOMAIN old
           keys(i) == {t \in from : updates[t] = i} \cup ({i} \cap DOMAIN old)
           ofKeys(i) == {old[k] : k \in keys(i)}
           firsts(i) == {e.first : e \in ofKeys(i)}
           lasts(i) == {e.last : e \in ofKeys(i)}
<1>1. /\ DOMAIN old \subseteq PersonIds /\ \A i \in DOMAIN old : old[i] \in Entry
      /\ DOMAIN updates \subseteq TempPersons
  BY PartialIs
<1>2. (DOMAIN old \cup {updates[t] : t \in from}) \ from = DOMAIN old \ DOMAIN updates
  OBVIOUS
<1>3. new = [i \in DOMAIN old \ DOMAIN updates |->
               [first |-> Min(firsts(i)), last |-> Max(lasts(i)),
                loiters |-> i \in DOMAIN old /\ old[i].loiters]]
  BY <1>2 DEF Merged
<1> HIDE DEF new
<1>4. DOMAIN new = DOMAIN old \ DOMAIN updates
  BY <1>3
<1>5. ASSUME NEW i \in DOMAIN new
      PROVE  /\ new[i] \in Entry /\ new[i].first <= new[i].last /\ new[i].last <= n
             /\ new[i].loiters = old[i].loiters
             /\ new[i].last >= old[i].last
             /\ (\A t \in DOMAIN updates : updates[t] # i) =>
                    new[i].first = old[i].first /\ new[i].last = old[i].last
             /\ \E k \in DOMAIN old :
                    /\ k = i \/ (k \in DOMAIN updates /\ updates[k] = i)
                    /\ new[i].first = old[k].first
  <2>1. /\ i \in DOMAIN old /\ i \in keys(i)
        /\ \A k \in keys(i) : k \in DOMAIN old /\ (k = i \/ (k \in DOMAIN updates /\ updates[k] = i))
    BY <1>4
  <2>2. \A k \in keys(i) : /\ old[k].first \in Nat /\ old[k].last \in Nat
                           /\ old[k].first <= old[k].last /\ old[k].last <= n
    BY <1>1, <2>1 DEF Past, Entry
  <2>3. firsts(i) = {old[k].first : k \in keys(i)} /\ lasts(i) = {old[k].last : k \in keys(i)}
    <3> HIDE DEF keys
    <3> QED OBVIOUS
  <2>4. new[i] = [first |-> Min(firsts(i)), last |-> Max(lasts(i)), loiters |-> old[i].loiters]
    <3> DEFINE a(x) == Min(firsts(x))
               b(x) == Max(lasts(x))
    <3>1. new = [x \in DOMAIN old \ DOMAIN updates |->
                   [first |-> a(x), last |-> b(x), loiters |-> x \in DOMAIN old /\ old[x].loiters]]
      BY <1>3
    <3> HIDE DEF a, b
    <3>2. new[i] = [first |-> a(i), last |-> b(i), loiters |-> i \in DOMAIN old /\ old[i].loiters]
      BY <1>4, <3>1
    <3>3. (i \in DOMAIN old /\ old[i].loiters) = old[i].loiters
      BY <1>1, <2>1 DEF Entry
    <3> QED BY <3>2, <3>3 DEF a, b
  <2> HIDE DEF keys
  <2>5. /\ firsts(i) \subseteq Nat /\ firsts(i) # {} /\ lasts(i) \subseteq Nat /\ lasts(i) # {}
        /\ \A x \in lasts(i) : x <= n
    BY <2>1, <2>2, <2>3
  <2> DEFINE least == Min(firsts(i))
             greatest == Max(lasts(i))
  <2>6. least \in firsts(i) /\ \A x \in firsts(i) : least <= x
    <3> HIDE DEF firsts
    <3> QED BY <2>5, LeastIs
  <2>7. greatest \in lasts(i) /\ \A x \in lasts(i) : x <= greatest
    <3> HIDE DEF lasts
    <3> QED BY <2>5, GreatestIs
  <2> HIDE DEF least, greatest, firsts, lasts
  <2>8. least \in Nat /\ greatest \in Nat /\ greatest <= n
    BY <2>5, <2>6, <2>7
  <2>9. PICK k \in keys(i) : least = old[k].first
    BY <2>3, <2>6
  <2>10. old[i].first \in firsts(i) /\ old[i].last \in lasts(i)
    BY <2>1, <2>3
  <2>11. old[i] \in Entry
    BY <1>1, <2>1
  <2>12. /\ new[i].first = least /\ new[i].last = greatest /\ new[i].loiters = old[i].loiters
    BY <2>4 DEF least, greatest
  <2>13. least <= greatest
    BY <2>2, <2>1, <2>6, <2>7, <2>8, <2>10, <2>11 DEF Entry
  <2>14. new[i] \in Entry
    BY <2>4, <2>8, <2>11 DEF Entry, least, greatest
  <2>15. ASSUME \A t \in DOMAIN updates : updates[t] # i
         PROVE  least = old[i].first /\ greatest = old[i].last
    <3>1. \A x \in keys(i) : x = i
      BY <2>1, <2>15
    <3> QED BY <2>3, <2>6, <2>7, <3>1
  <2>16. new[i].last >= old[i].last
    BY <2>7, <2>8, <2>10, <2>11, <2>12 DEF Entry
  <2>17. \E m \in DOMAIN old :
           /\ m = i \/ (m \in DOMAIN updates /\ updates[m] = i)
           /\ new[i].first = old[m].first
    BY <2>1, <2>9, <2>12
  <2>18. new[i].first <= new[i].last /\ new[i].last <= n
    BY <2>8, <2>12, <2>13
  <2>19. (\A t \in DOMAIN updates : updates[t] # i) =>
             new[i].first = old[i].first /\ new[i].last = old[i].last
    BY <2>12, <2>15
  <2>20. new[i].loiters = old[i].loiters
    BY <2>12
  <2> HIDE DEF new
  <2> QED BY ONLY <2>14, <2>16, <2>17, <2>18, <2>19, <2>20
<1>6. new \in [DOMAIN new -> Entry]
  BY <1>3, <1>4, <1>5
<1>7. new \in Partial(PersonIds, Entry)
  BY <1>1, <1>4, <1>6, PartialIs
<1>8. Past(new, n)
  BY <1>5 DEF Past
<1>9. Joined(new, old, updates)
  BY <1>4, <1>5 DEF Joined
<1> QED BY <1>7, <1>8, <1>9 DEF new

-----------------------------------------------------------------------------
(* What reid tells of a frame. *)
News(f) == Override(f.personUpdates, f.bagUpdates)

\* The parts of a frame.
LEMMA FrameIs ==
    ASSUME NEW f \in Frame
    PROVE  /\ f.persons \in Partial(PersonIds, Cams) /\ f.bags \in Partial(BagIds, Cams)
           /\ f.personUpdates \in Partial(TempPersons, RealPersons)
           /\ f.bagUpdates \in Partial(TempBags, RealBags)
           /\ DOMAIN f.persons \subseteq PersonIds /\ DOMAIN f.bags \subseteq BagIds
  BY PartialIs DEF Frame

\* The renamings of persons and of bags together.
LEMMA NewsIs ==
    ASSUME NEW people \in Partial(TempPersons, RealPersons), NEW bags \in Partial(TempBags, RealBags)
    PROVE  LET news == Override(people, bags)
           IN  /\ news \in Partial(Temps, Reals)
               /\ DOMAIN news = DOMAIN people \cup DOMAIN bags
               /\ \A t \in DOMAIN people : news[t] = people[t] /\ people[t] \in RealPersons
               /\ \A t \in DOMAIN bags : news[t] = bags[t] /\ bags[t] \in RealBags
<1>1. people \in Partial(Temps, Reals) /\ bags \in Partial(Temps, Reals)
  BY Wider, Disjoint
<1>2. DOMAIN people \subseteq TempPersons /\ DOMAIN bags \subseteq TempBags
  BY PartialIs
<1>3. DOMAIN people \cap DOMAIN bags = {}
  BY <1>2, Disjoint DEF PersonIds, BagIds
<1>4. \A t \in DOMAIN bags : t \in DOMAIN bags \ DOMAIN people
  BY <1>3
<1>5. /\ \A t \in DOMAIN people : people[t] \in RealPersons
      /\ \A t \in DOMAIN bags : bags[t] \in RealBags
  BY Value
<1>6. Override(people, bags) \in Partial(Temps, Reals)
  BY <1>1, Overridden
<1>7. DOMAIN Override(people, bags) = DOMAIN people \cup DOMAIN bags
  BY DEF Override
<1>8. /\ \A t \in DOMAIN people : Override(people, bags)[t] = people[t]
      /\ \A t \in DOMAIN bags \ DOMAIN people : Override(people, bags)[t] = bags[t]
  BY DEF Override
<1> QED BY <1>4, <1>5, <1>6, <1>7, <1>8

\* What a frame tells is known, and of a person that is in it.
Told ==
    wire # NoFrame =>
        /\ frames > 0
        /\ \A t \in DOMAIN News(wire) : t \in DOMAIN resolved /\ resolved[t] = News(wire)[t]
        /\ \A t \in DOMAIN wire.personUpdates : wire.personUpdates[t] \in DOMAIN wire.persons

\* What a frame resolves was not resolved before, and nothing resolved is shown by its old id.
LEMMA IdentifyIs ==
    ASSUME Identities, NEW f \in Views, Identify(f)
    PROVE  /\ f \in Frame /\ wire = NoFrame /\ wire' = f /\ wire' # NoFrame /\ frames' = frames + 1
           /\ News(f) \in Partial(Temps, Reals)
           /\ DOMAIN News(f) \cap DOMAIN resolved = {}
           /\ (DOMAIN f.persons \cup DOMAIN f.bags) \cap (DOMAIN resolved \cup DOMAIN News(f)) = {}
           /\ resolved' \in Partial(Temps, Reals)
           /\ DOMAIN resolved' = DOMAIN resolved \cup DOMAIN News(f)
           /\ \A t \in DOMAIN resolved : resolved'[t] = resolved[t]
           /\ \A t \in DOMAIN News(f) : resolved'[t] = News(f)[t]
           /\ \A t \in DOMAIN f.personUpdates : f.personUpdates[t] \in DOMAIN f.persons
<1>1. f \in Frame /\ NoFrame \notin Frame
  BY ReidAssumption
<1>2. /\ wire = NoFrame /\ wire' = f /\ frames' = frames + 1
      /\ resolved' = Override(News(f), resolved) /\ Consistent(f)
  BY DEF Identify, News
<1>3. /\ News(f) \in Partial(Temps, Reals)
      /\ DOMAIN News(f) = DOMAIN f.personUpdates \cup DOMAIN f.bagUpdates
      /\ \A t \in DOMAIN f.personUpdates : News(f)[t] = f.personUpdates[t] /\ f.personUpdates[t] \in RealPersons
  BY <1>1, FrameIs, NewsIs DEF News
<1> DEFINE tracks == DOMAIN f.persons \cup DOMAIN f.bags
<1>4. /\ DOMAIN News(f) \subseteq seen \ DOMAIN resolved
      /\ tracks \cap (DOMAIN resolved \cup DOMAIN News(f)) = {}
      /\ Range(News(f)) \subseteq tracks
  BY <1>2 DEF Consistent, News
<1>5. /\ DOMAIN News(f) \cap DOMAIN resolved = {}
      /\ \A t \in DOMAIN News(f) : News(f)[t] \in tracks
  BY <1>4 DEF Range
<1>6. ASSUME NEW t \in DOMAIN f.personUpdates
      PROVE  f.personUpdates[t] \in DOMAIN f.persons
  <2>1. f.personUpdates[t] \in RealPersons /\ f.personUpdates[t] \in tracks
    BY <1>3, <1>5
  <2> QED BY <1>1, <2>1, FrameIs, Disjoint
<1>7. resolved \in Partial(Temps, Reals)
  BY DEF Identities
<1>8. /\ resolved' \in Partial(Temps, Reals)
      /\ DOMAIN resolved' = DOMAIN News(f) \cup DOMAIN resolved
      /\ \A t \in DOMAIN News(f) : resolved'[t] = News(f)[t]
      /\ \A t \in DOMAIN resolved \ DOMAIN News(f) : resolved'[t] = resolved[t]
  BY <1>2, <1>3, <1>7, Overridden
<1>9. \A t \in DOMAIN resolved : resolved'[t] = resolved[t]
  BY <1>5, <1>8
<1> HIDE DEF News, Frame
<1> QED BY <1>1, <1>2, <1>3, <1>4, <1>5, <1>6, <1>8, <1>9

\* Only a new frame and its end touch what reid knows.
LEMMA IdentitiesStep ==
    ASSUME Identities, Told, Next
    PROVE  Identities' /\ Told'
<1> USE DEF reidVars
<1>1. ASSUME NEW f \in Views, Identify(f)
      PROVE  Identities' /\ Told'
  <2>1. frames' \in Nat /\ frames' > 0
    <3>1. frames' = frames + 1
      BY <1>1, IdentifyIs
    <3> QED BY <3>1 DEF Identities
  <2>2. /\ wire' = f /\ wire' \in Views /\ resolved' \in Partial(Temps, Reals)
        /\ \A t \in DOMAIN f.personUpdates : f.personUpdates[t] \in DOMAIN f.persons
    BY <1>1, IdentifyIs
  <2>3. \A t \in DOMAIN News(f) : t \in DOMAIN resolved' /\ resolved'[t] = News(f)[t]
    BY <1>1, IdentifyIs
  <2> QED BY <2>1, <2>2, <2>3 DEF Identities, Told, News
<1>2. CASE Output
  <2>1. wire' = NoFrame /\ UNCHANGED <<frames, resolved>>
    BY <1>2 DEF Output
  <2> QED BY <2>1 DEF Identities, Told
<1>3. ASSUME UNCHANGED reidVars
      PROVE  Identities' /\ Told'
  BY <1>3 DEF Identities, Told, News
<1>4. CASE StopReid \/ ReidStep \/ Association \/ OtherIncident
  <2>1. UNCHANGED reidVars
    BY <1>4 DEF StopReid, ReidStep, TakeMessage, FindRows, CreateReal, DeleteTemp, WriteTrack,
       WriteLoiterer, Association, Quiet, WriteRow, Raise, OtherIncident
  <2> QED BY <1>3, <2>1
<1> QED BY <1>1, <1>2, <1>4 DEF Next

-----------------------------------------------------------------------------
(* Loitering. *)

\* The frames whose persons LoiteringManager was given.
Handled == IF wire = NoFrame THEN frames ELSE frames - 1

\* The ids under which a person was seen.
Names(i) == {i} \cup {t \in DOMAIN resolved : resolved[t] = i}

\* An entry begins and ends with a sighting; one that may still be reported is short.
Seen ==
    \A i \in DOMAIN entries :
        /\ \E j \in Names(i) \cap PersonIds : entries[i].first \in sighted[j]
        /\ \A k \in sighted[i] : k <= entries[i].last
        /\ i \in RealPersons /\ ~entries[i].loiters => entries[i].last - entries[i].first < Threshold

\* Between the two frames somebody seen in those of s was out of sight for the window.
Away(s, since, until) ==
    \E now \in Nat : since < now /\ now <= until /\ \A k \in s : k < now - Window \/ now < k

\* Whoever was reported is on the list as a loiterer, or was away.
Reported ==
    \A r \in reports :
        /\ (r.person \in DOMAIN entries /\ entries[r.person].loiters) \/ Away(sighted[r.person], r.frame, Handled)
        /\ \E j \in Names(r.person) \cap PersonIds : \E k \in sighted[j] : k + Threshold <= r.frame
        /\ \A later \in reports :
              later.person = r.person /\ later.frame > r.frame => Away(sighted[r.person], r.frame, later.frame)

InTime ==
    /\ Past(entries, Handled)
    /\ \A r \in reports : r.frame <= Handled
    /\ \A i \in PersonIds : \A k \in sighted[i] : k <= Handled

Loitering == Presences /\ InTime /\ Seen /\ Reported

\* The number of the frame last handled.
LEMMA HandledIs ==
    ASSUME Identities, Told
    PROVE  /\ Handled \in Nat /\ Handled <= frames
           /\ wire = NoFrame => Handled = frames
           /\ wire # NoFrame => Handled = frames - 1
  BY DEF Handled, Identities, Told

\* A frame that is on its way, or a step that has nothing to do with loitering.
LEMMA LoiteringStill ==
    ASSUME Identities, Told, Loitering, UNCHANGED loiterVars, Handled' = Handled,
           DOMAIN resolved \subseteq DOMAIN resolved',
           \A t \in DOMAIN resolved : resolved'[t] = resolved[t]
    PROVE  Loitering'
<1>1. UNCHANGED <<entries, reports, sighted>>
  BY DEF loiterVars
<1>2. \A i : Names(i) \subseteq Names(i)'
  BY DEF Names
<1>3. Presences'
  BY <1>1 DEF Loitering, Presences
<1>4. InTime'
  BY <1>1 DEF Loitering, InTime, Past
<1>5. Seen'
  BY <1>1, <1>2 DEF Loitering, Seen
<1>7. Reported'
  <2> SUFFICES ASSUME NEW r \in reports
               PROVE
        /\ (r.person \in DOMAIN entries /\ entries[r.person].loiters) \/ Away(sighted[r.person], r.frame, Handled)
        /\ \E j \in Names(r.person)' \cap PersonIds : \E k \in sighted[j] : k + Threshold <= r.frame
        /\ \A later \in reports :
              later.person = r.person /\ later.frame > r.frame => Away(sighted[r.person], r.frame, later.frame)
    BY <1>1 DEF Reported
  <2> QED BY <1>2 DEF Loitering, Reported
<1> QED BY <1>3, <1>4, <1>5, <1>7 DEF Loitering

\* What the database thread is told of a frame: loiterers are persons it shows.
HandedOn ==
    \E new \in SUBSET RealPersons :
        /\ new \subseteq DOMAIN wire.persons
        /\ reidQueue' = Append(reidQueue,
              [tracks |-> DOMAIN wire.persons \cup DOMAIN wire.bags, loiterers |-> new,
               people |-> wire.personUpdates, bags |-> wire.bagUpdates])

\* The frame is looked at.
LEMMA LoiteringOutput ==
    ASSUME Identities, Told, Loitering, Output
    PROVE  Loitering' /\ HandedOn
<1>1. wire \in Frame /\ frames \in Nat /\ wire # NoFrame /\ frames > 0
  BY ReidAssumption DEF Output, Identities, Told
<1>2. Handled = frames - 1 /\ Handled \in Nat /\ Handled <= frames
  BY <1>1, HandledIs
<1>3. wire' = NoFrame /\ UNCHANGED <<frames, resolved>>
  BY DEF Output
<1>4. Handled' = frames /\ \A i : Names(i)' = Names(i)
  BY <1>3 DEF Handled, Names
<1>29. \A t \in DOMAIN wire.personUpdates : t \in DOMAIN News(wire) /\ News(wire)[t] = wire.personUpdates[t]
  <2>1. /\ DOMAIN News(wire) = DOMAIN wire.personUpdates \cup DOMAIN wire.bagUpdates
        /\ \A t \in DOMAIN wire.personUpdates : News(wire)[t] = wire.personUpdates[t]
    BY <1>1, FrameIs, NewsIs DEF News
  <2> QED BY <2>1
<1> DEFINE persons == DOMAIN wire.persons
<1>5. PICK sure \in SUBSET (persons \cap TempPersons) : HandleFrame(sure)
  BY DEF Output
<1> DEFINE present == (persons \cap RealPersons) \cup sure
           updated == Updated(entries, present)
           merged == Merged(updated, wire.personUpdates)
           new == {i \in DOMAIN merged \cap RealPersons :
                      ~merged[i].loiters /\ merged[i].last - merged[i].first >= Threshold}
           fresh == {i \in DOMAIN merged : persons = {} \/ merged[i].last >= frames - Window}
<1>6. /\ entries' = [i \in fresh |-> [merged[i] EXCEPT !.loiters = @ \/ i \in new]]
      /\ reports' = reports \cup {[person |-> i, frame |-> frames] : i \in new}
      /\ sighted' = [i \in PersonIds |-> sighted[i] \cup {frames : x \in {i} \cap present}]
  BY <1>5 DEF HandleFrame
<1>7. /\ persons \subseteq PersonIds /\ present \subseteq PersonIds /\ persons \cap RealPersons \subseteq present
      /\ wire.personUpdates \in Partial(TempPersons, RealPersons)
      /\ \A t \in DOMAIN wire.personUpdates :
            /\ t \in TempPersons /\ t \in DOMAIN resolved /\ resolved[t] = wire.personUpdates[t]
            /\ wire.personUpdates[t] \in present
  <2>1. persons \subseteq PersonIds /\ wire.personUpdates \in Partial(TempPersons, RealPersons)
    BY <1>1, FrameIs
  <2>2. \A t \in DOMAIN wire.personUpdates :
           t \in TempPersons /\ wire.personUpdates[t] \in RealPersons
    BY <2>1, Value
  <2>3. \A t \in DOMAIN wire.personUpdates :
           /\ t \in DOMAIN resolved /\ resolved[t] = wire.personUpdates[t]
           /\ wire.personUpdates[t] \in persons
    BY <1>1, <1>29 DEF Told
  <2> QED BY <2>1, <2>2, <2>3, Disjoint
<1>8. /\ entries \in Partial(PersonIds, Entry) /\ Past(entries, frames)
      /\ \A i \in DOMAIN entries : entries[i] \in Entry /\ i \in PersonIds
  <2>1. entries \in Partial(PersonIds, Entry)
    BY DEF Loitering, Presences, Entry
  <2>2. \A i \in DOMAIN entries : entries[i] \in Entry /\ i \in PersonIds
    BY <2>1, PartialIs
  <2>3. \A i \in DOMAIN entries : entries[i].last <= frames
    BY <1>1, <1>2, <2>2 DEF Loitering, InTime, Past, Entry
  <2> QED BY <2>1, <2>2, <2>3 DEF Loitering, InTime, Past
<1> HIDE DEF present, persons, updated, merged, new, fresh
<1>9. /\ updated \in Partial(PersonIds, Entry) /\ Past(updated, frames)
      /\ DOMAIN updated = DOMAIN entries \cup present
      /\ \A i \in DOMAIN entries :
            /\ updated[i].first = entries[i].first /\ updated[i].loiters = entries[i].loiters
            /\ i \notin present => updated[i] = entries[i]
      /\ \A i \in present : updated[i].last = frames
      /\ \A i \in present \ DOMAIN entries : updated[i].first = frames /\ updated[i].loiters = FALSE
  <2>1. present \in SUBSET PersonIds
    BY <1>7
  <2> QED BY <1>1, <1>8, <2>1, UpdatedIs DEF updated
<1>10. \A t \in DOMAIN wire.personUpdates : wire.personUpdates[t] \in DOMAIN updated
  BY <1>7, <1>9
<1>31. /\ merged \in Partial(PersonIds, Entry) /\ Past(merged, frames)
       /\ Joined(merged, updated, wire.personUpdates)
  <2>1. /\ updated \in Partial(PersonIds, Entry) /\ Past(updated, frames) /\ frames \in Nat
        /\ wire.personUpdates \in Partial(TempPersons, RealPersons)
    BY <1>1, <1>7, <1>9
  <2> QED BY <1>10, <2>1, MergedIs DEF merged
<1>11. /\ merged \in Partial(PersonIds, Entry) /\ Past(merged, frames)
       /\ DOMAIN merged = DOMAIN updated \ DOMAIN wire.personUpdates
       /\ \A i \in DOMAIN merged :
             /\ merged[i].loiters = updated[i].loiters
             /\ merged[i].last >= updated[i].last
             /\ (\A t \in DOMAIN wire.personUpdates : wire.personUpdates[t] # i) =>
                    merged[i].first = updated[i].first /\ merged[i].last = updated[i].last
             /\ \E k \in DOMAIN updated :
                    /\ k = i \/ (k \in DOMAIN wire.personUpdates /\ wire.personUpdates[k] = i)
                    /\ merged[i].first = updated[k].first
  BY <1>31 DEF Joined
<1>12. /\ \A i \in DOMAIN updated : updated[i] \in Entry /\ i \in PersonIds
       /\ \A i \in DOMAIN merged : merged[i] \in Entry /\ i \in DOMAIN updated
  BY <1>9, <1>11, PartialIs
<1>13. sighted \in [PersonIds -> SUBSET Nat]
  BY DEF Loitering, Presences
<1>14. /\ \A i \in PersonIds \ present : sighted'[i] = sighted[i]
       /\ \A i \in present : sighted'[i] = sighted[i] \cup {frames}
  BY <1>6, <1>7
<1>15. \A i \in DOMAIN merged \ present :
          /\ i \in DOMAIN entries
          /\ merged[i].first = entries[i].first /\ merged[i].last = entries[i].last
          /\ merged[i].loiters = entries[i].loiters
  BY <1>7, <1>9, <1>11, <1>12
<1>16. \A i \in DOMAIN merged \cap present : merged[i].last = frames
  BY <1>1, <1>9, <1>11, <1>12 DEF Past, Entry
<1>17. new \subseteq present
  <2> SUFFICES ASSUME NEW i \in new, i \notin present PROVE FALSE
    OBVIOUS
  <2>1. /\ i \in DOMAIN merged /\ i \in RealPersons /\ ~merged[i].loiters
        /\ merged[i].last - merged[i].first >= Threshold
    BY DEF new
  <2>2. i \in DOMAIN entries /\ ~entries[i].loiters /\ entries[i].last - entries[i].first >= Threshold
    BY <1>15, <2>1
  <2> QED BY <1>8, <2>1, <2>2, RecordsAssumption DEF Loitering, Seen, Entry
<1>18. \A i \in new : i \in fresh /\ i \in DOMAIN merged /\ i \in RealPersons
  <2>1. Window \in Nat
    BY RecordsAssumption
  <2> QED BY <1>1, <1>16, <1>17, <2>1 DEF new, fresh
<1>19. /\ DOMAIN entries' = fresh /\ fresh \subseteq DOMAIN merged
       /\ \A i \in fresh :
            /\ entries'[i] \in Entry
            /\ entries'[i].first = merged[i].first /\ entries'[i].last = merged[i].last
            /\ entries'[i].loiters = (merged[i].loiters \/ i \in new)
  <2>1. fresh \subseteq DOMAIN merged
    BY DEF fresh
  <2> QED BY <1>6, <1>12, <2>1 DEF Entry
\* Where an entry begins.
<1>20. ASSUME NEW i \in DOMAIN merged
       PROVE  \E j \in Names(i) \cap PersonIds : merged[i].first \in sighted'[j]
  <2>1. PICK k \in DOMAIN updated :
           /\ k = i \/ (k \in DOMAIN wire.personUpdates /\ wire.personUpdates[k] = i)
           /\ merged[i].first = updated[k].first
    BY <1>11
  <2>2. k \in Names(i) /\ k \in PersonIds
    BY <1>7, <1>12, <2>1 DEF Names
  <2>3. CASE k \in DOMAIN entries
    <3>1. PICK j \in Names(k) \cap PersonIds : entries[k].first \in sighted[j]
      BY <2>3 DEF Loitering, Seen
    <3>2. j \in Names(i)
      <4>1. CASE k = i
        BY <3>1, <4>1
      <4>2. CASE k \in DOMAIN wire.personUpdates
        <5>1. k \in Temps
          BY <1>7, <4>2, Disjoint
        <5>2. \A t \in DOMAIN resolved : resolved[t] # k
          <6>1. resolved \in Partial(Temps, Reals)
            BY DEF Identities
          <6> QED BY <5>1, <6>1, Value, Disjoint
        <5> QED BY <2>2, <3>1, <5>2 DEF Names
      <4> QED BY <2>1, <4>1, <4>2
    <3>3. entries[k].first \in sighted'[j]
      BY <1>14, <3>1
    <3> QED BY <1>9, <2>1, <2>3, <3>1, <3>2, <3>3
  <2>4. CASE k \notin DOMAIN entries
    <3>1. k \in present /\ updated[k].first = frames
      BY <1>9, <2>1, <2>4
    <3> QED BY <1>14, <2>1, <2>2, <3>1
  <2> QED BY <2>3, <2>4
<1>21. Presences'
  <2>1. entries' \in Partial(PersonIds, Entry)
    <3>1. entries' \in [fresh -> Entry]
      BY <1>6, <1>19
    <3> QED BY <1>12, <1>19, <3>1, PartialIs
  <2>2. \A i \in DOMAIN entries' : entries'[i].first <= entries'[i].last
    BY <1>11, <1>19 DEF Past
  <2>3. reports' \subseteq [person : RealPersons, frame : Nat]
    BY <1>1, <1>6, <1>18 DEF Loitering, Presences
  <2>4. sighted' \in [PersonIds -> SUBSET Nat]
    BY <1>1, <1>6, <1>13
  <2> QED BY <2>1, <2>2, <2>3, <2>4 DEF Presences, Entry
<1>22. InTime'
  <2>1. Past(entries', frames)
    BY <1>11, <1>19 DEF Past
  <2>2. \A r \in reports' : r.frame <= frames
    <3>1. \A r \in reports : r.frame \in Nat /\ r.frame <= Handled
      BY DEF Loitering, InTime, Presences
    <3> QED BY <1>1, <1>2, <1>6, <3>1
  <2>3. \A i \in PersonIds : \A k \in sighted'[i] : k <= frames
    <3>1. \A i \in PersonIds : \A k \in sighted[i] : k \in Nat /\ k <= Handled
      BY <1>13 DEF Loitering, InTime
    <3> QED BY <1>1, <1>2, <1>14, <3>1
  <2> QED BY <1>4, <2>1, <2>2, <2>3 DEF InTime, Past
<1>23. Seen'
  <2> SUFFICES ASSUME NEW i \in fresh
               PROVE  /\ \E j \in Names(i) \cap PersonIds : entries'[i].first \in sighted'[j]
                      /\ \A k \in sighted'[i] : k <= entries'[i].last
                      /\ i \in RealPersons /\ ~entries'[i].loiters =>
                             entries'[i].last - entries'[i].first < Threshold
    BY <1>4, <1>19 DEF Seen
  <2>1. \E j \in Names(i) \cap PersonIds : entries'[i].first \in sighted'[j]
    BY <1>19, <1>20
  <2>2. \A k \in sighted'[i] : k <= entries'[i].last
    <3>1. i \in PersonIds /\ i \in DOMAIN merged
      BY <1>12, <1>19
    <3>2. CASE i \in present
      BY <1>4, <1>16, <1>19, <1>22, <3>1, <3>2 DEF InTime
    <3>3. CASE i \notin present
      BY <1>14, <1>15, <1>19, <3>1, <3>3 DEF Loitering, Seen
    <3> QED BY <3>2, <3>3
  <2>3. ASSUME i \in RealPersons, ~entries'[i].loiters
        PROVE  entries'[i].last - entries'[i].first < Threshold
    <3>1. i \in DOMAIN merged /\ ~merged[i].loiters /\ i \notin new
      BY <1>19, <2>3
    <3>2. ~(merged[i].last - merged[i].first >= Threshold)
      BY <2>3, <3>1 DEF new
    <3> QED BY <1>12, <1>19, <3>1, <3>2, RecordsAssumption DEF Entry
  <2> QED BY <2>1, <2>2, <2>3
\* Being away stays so, and who leaves the list has been away.
<1>24. ASSUME NEW i \in PersonIds, NEW m \in Nat, NEW n \in Nat, n <= Handled, Away(sighted[i], m, n)
       PROVE  Away(sighted'[i], m, n)
  <2>1. PICK now \in Nat : /\ m < now /\ now <= n
                           /\ \A k \in sighted[i] : k < now - Window \/ now < k
    BY <1>24 DEF Away
  <2>2. now < frames
    BY <1>1, <1>2, <1>24, <2>1
  <2>3. \A k \in sighted'[i] : k < now - Window \/ now < k
    BY <1>14, <2>1, <2>2
  <2> QED BY <2>1, <2>3 DEF Away
<1>25. ASSUME NEW i \in PersonIds, NEW m \in Nat, m < frames, i \in DOMAIN merged, i \notin fresh
       PROVE  Away(sighted'[i], m, frames)
  <2>1. merged[i].last < frames - Window
    <3>1. merged[i].last \in Nat /\ Window \in Nat
      BY <1>12, <1>25, RecordsAssumption DEF Entry
    <3> QED BY <1>1, <1>25, <3>1 DEF fresh
  <2>2. i \notin present
    BY <1>1, <1>16, <1>25, <2>1, RecordsAssumption
  <2>3. \A k \in sighted'[i] : k <= merged[i].last
    BY <1>14, <1>15, <1>25, <2>2 DEF Loitering, Seen
  <2>4. \A k \in sighted'[i] : k < frames - Window
    <3>1. \A k \in sighted'[i] : k \in Nat
      BY <1>21 DEF Presences
    <3> QED BY <1>1, <1>12, <1>25, <2>1, <2>3, <3>1, RecordsAssumption DEF Entry
  <2> QED BY <1>1, <1>3, <1>25, <2>4 DEF Away
<1>26. \A r \in reports : r.person \in RealPersons /\ r.person \in PersonIds /\ r.frame \in Nat
                          /\ r.frame <= Handled /\ r.frame < frames
  BY <1>1, <1>2, Disjoint DEF Loitering, Presences, InTime
<1>27. ASSUME NEW r \in reports, r.person \notin DOMAIN merged \/ ~merged[r.person].loiters
       PROVE  Away(sighted[r.person], r.frame, Handled)
  <2>1. r.person \notin DOMAIN wire.personUpdates
    BY <1>7, <1>26, Disjoint
  <2>2. r.person \in DOMAIN entries => r.person \in DOMAIN merged /\ merged[r.person].loiters = entries[r.person].loiters
    BY <1>9, <1>11, <2>1
  <2> QED BY <1>27, <2>2 DEF Loitering, Reported
<1>28. Reported'
  <2> DEFINE Good(r) ==
        /\ (r.person \in DOMAIN entries' /\ entries'[r.person].loiters) \/ Away(sighted'[r.person], r.frame, frames)
        /\ \E j \in Names(r.person) \cap PersonIds : \E k \in sighted'[j] : k + Threshold <= r.frame
        /\ \A later \in reports' :
              later.person = r.person /\ later.frame > r.frame => Away(sighted'[r.person], r.frame, later.frame)
  <2>1. ASSUME NEW r \in reports
        PROVE  Good(r)
    <3>1. (r.person \in DOMAIN entries' /\ entries'[r.person].loiters) \/ Away(sighted'[r.person], r.frame, frames)
      <4>1. CASE r.person \in DOMAIN merged /\ merged[r.person].loiters /\ r.person \in fresh
        BY <1>19, <4>1
      <4>2. CASE r.person \in DOMAIN merged /\ r.person \notin fresh
        BY <1>25, <1>26, <4>2
      <4>3. CASE r.person \notin DOMAIN merged \/ ~merged[r.person].loiters
        <5>1. Away(sighted'[r.person], r.frame, Handled)
          BY <1>2, <1>24, <1>26, <1>27, <4>3
        <5> QED BY <1>1, <1>2, <5>1 DEF Away
      <4> QED BY <4>1, <4>2, <4>3
    <3>2. \E j \in Names(r.person) \cap PersonIds : \E k \in sighted'[j] : k + Threshold <= r.frame
      BY <1>14 DEF Loitering, Reported
    <3>3. ASSUME NEW later \in reports', later.person = r.person, later.frame > r.frame
          PROVE  Away(sighted'[r.person], r.frame, later.frame)
      <4>1. CASE later \in reports
        BY <1>24, <1>26, <3>3, <4>1 DEF Loitering, Reported
      <4>2. CASE later \notin reports
        <5>1. PICK i \in new : later = [person |-> i, frame |-> frames]
          BY <1>6, <4>2
        <5>2. ~merged[r.person].loiters
          BY <3>3, <5>1 DEF new
        <5>3. Away(sighted[r.person], r.frame, Handled)
          BY <1>27, <5>2
        <5>4. Away(sighted'[r.person], r.frame, Handled)
          BY <1>2, <1>24, <1>26, <5>3
        <5>5. later.frame = frames
          BY <5>1
        <5> QED BY <1>1, <1>2, <5>4, <5>5 DEF Away
      <4> QED BY <4>1, <4>2
    <3> QED BY <3>1, <3>2, <3>3
  <2>2. ASSUME NEW i \in new
        PROVE  Good([person |-> i, frame |-> frames])
    <3> DEFINE r == [person |-> i, frame |-> frames]
    <3>1. r.person \in DOMAIN entries' /\ entries'[r.person].loiters
      BY <1>18, <1>19
    <3>2. \E j \in Names(i) \cap PersonIds : \E k \in sighted'[j] : k + Threshold <= frames
      <4>1. PICK j \in Names(i) \cap PersonIds : merged[i].first \in sighted'[j]
        BY <1>18, <1>20
      <4>2. merged[i].last = frames /\ merged[i].last - merged[i].first >= Threshold
        BY <1>16, <1>17, <1>18 DEF new
      <4>3. merged[i].first \in Nat
        BY <1>12, <1>18 DEF Entry
      <4> QED BY <1>1, <4>1, <4>2, <4>3, RecordsAssumption
    <3>3. \A later \in reports' : ~(later.frame > frames)
      <4>1. \A later \in reports' : later.frame \in Nat /\ later.frame <= frames
        BY <1>4, <1>21, <1>22 DEF InTime, Presences
      <4> QED BY <1>1, <4>1
    <3> QED BY <3>1, <3>2, <3>3
  <2>3. \A r \in reports' : Good(r)
    <3> HIDE DEF Good
    <3> QED BY <1>6, <2>1, <2>2
  <2> QED BY <1>4, <2>3 DEF Reported
<1>30. HandedOn
  <2>1. reidQueue' = Append(reidQueue, [tracks |-> persons \cup DOMAIN wire.bags, loiterers |-> new,
                                        people |-> wire.personUpdates, bags |-> wire.bagUpdates])
    BY <1>5 DEF HandleFrame, present, persons, updated, merged, new, fresh
  <2>2. new \subseteq persons /\ new \subseteq RealPersons
    BY <1>17, <1>18 DEF present
  <2> QED BY <2>1, <2>2 DEF HandedOn, persons
<1> QED BY <1>21, <1>22, <1>23, <1>28, <1>30 DEF Loitering

\* Every step but those two leaves the entries as they are.
LEMMA LoiteringStep ==
    ASSUME Identities, Told, Loitering, Next
    PROVE  Loitering'
<1>1. CASE Output
  BY <1>1, LoiteringOutput
<1>2. ASSUME NEW f \in Views, Identify(f), UNCHANGED loiterVars
      PROVE  Loitering'
  <2>1. /\ wire = NoFrame /\ wire' # NoFrame /\ frames' = frames + 1
        /\ DOMAIN resolved \subseteq DOMAIN resolved'
        /\ \A t \in DOMAIN resolved : resolved'[t] = resolved[t]
    BY <1>2, IdentifyIs
  <2>2. Handled' = Handled
    BY <2>1 DEF Handled, Identities
  <2> QED BY <1>2, <2>1, <2>2, LoiteringStill
<1>3. CASE UNCHANGED <<reidVars, loiterVars>>
  BY <1>3, LoiteringStill DEF reidVars, Handled
<1>4. CASE StopReid \/ ReidStep \/ Association \/ OtherIncident
  <2>1. UNCHANGED <<reidVars, loiterVars>>
    BY <1>4 DEF StopReid, ReidStep, TakeMessage, FindRows, CreateReal, DeleteTemp, WriteTrack,
       WriteLoiterer, Association, Quiet, WriteRow, Raise, OtherIncident
  <2> QED BY <1>3, <2>1
<1> QED BY <1>1, <1>2, <1>4 DEF Next

-----------------------------------------------------------------------------
(* The numbers of incidents. *)
Orders == [incident : Nat, about : Ids]

\* Each side numbers upwards, association ahead of the rows it writes.
Numbered ==
    /\ incidents \in Partial(Nat \ {0}, Sides)
    /\ sequence \in Nat /\ counter \in Nat \cup {-1} /\ assocQueue \in Seq(Orders)
    /\ \A no \in DOMAIN incidents :
          no <= (IF incidents[no] = "database" THEN sequence ELSE counter)
    /\ \A k \in DOMAIN assocQueue : assocQueue[k].incident # 0 =>
          /\ assocQueue[k].incident <= counter
          /\ assocQueue[k].incident \in DOMAIN incidents =>
                 incidents[assocQueue[k].incident] = "database"
          /\ \A l \in DOMAIN assocQueue : l # k => assocQueue[l].incident # assocQueue[k].incident
    /\ \A m \in missing : m.no \in DOMAIN incidents /\ incidents[m.no] # m.by

\* One row more.
Gained(new, old, no, side) ==
    /\ new \in Partial(Nat \ {0}, Sides)
    /\ DOMAIN new = DOMAIN old \cup {no}
    /\ new[no] = side /\ \A k \in DOMAIN old : new[k] = old[k]

\* An incident gets a row of its own.
LEMMA Recorded ==
    ASSUME NEW no \in Nat \ {0}, NEW side \in Sides,
           incidents \in Partial(Nat \ {0}, Sides), no \notin DOMAIN incidents,
           incidents' = Override([n \in {no} |-> side], incidents)
    PROVE  Gained(incidents', incidents, no, side)
<1> DEFINE one == [n \in {no} |-> side]
<1>1. one \in Partial(Nat \ {0}, Sides) /\ DOMAIN one = {no} /\ one[no] = side
  BY Single
<1> HIDE DEF one
<1>2. incidents' = Override(one, incidents)
  BY DEF one
<1>3. /\ incidents' \in Partial(Nat \ {0}, Sides)
      /\ DOMAIN incidents' = DOMAIN one \cup DOMAIN incidents
      /\ \A x \in DOMAIN one : incidents'[x] = one[x]
      /\ \A x \in DOMAIN incidents \ DOMAIN one : incidents'[x] = incidents[x]
  <2> DEFINE numbers == Nat \ {0}
  <2>1. ASSUME NEW f \in Partial(numbers, Sides), NEW g \in Partial(numbers, Sides)
        PROVE  Override(f, g) \in Partial(numbers, Sides)
    <3> HIDE DEF numbers
    <3> QED BY Overridden
  <2>2. Override(one, incidents) \in Partial(numbers, Sides)
    BY <1>1, <2>1
  <2> QED BY <1>2, <2>2 DEF Override
<1>4. \A x \in DOMAIN incidents : incidents'[x] = incidents[x]
  BY <1>1, <1>3
<1>5. DOMAIN incidents' = DOMAIN incidents \cup {no} /\ incidents'[no] = side
  BY <1>1, <1>3
<1> QED BY <1>3, <1>4, <1>5 DEF Gained

\* The database numbers an incident.
LEMMA NumberedByDatabase ==
    ASSUME Numbered, NEW rows, InsertNumbered(rows), UNCHANGED <<counter, assocQueue>>
    PROVE  Numbered'
<1>1. /\ sequence \in Nat /\ sequence' = sequence + 1 /\ sequence' \in Nat \ {0}
      /\ incidents \in Partial(Nat \ {0}, Sides)
      /\ \A no \in DOMAIN incidents : no \in Nat /\ incidents[no] \in Sides
  BY PartialIs DEF Numbered, InsertNumbered
<1>2. CASE sequence' \in DOMAIN incidents
  <2>1. incidents' = incidents /\ missing' = missing \cup {[no |-> sequence', by |-> "database"]}
    BY <1>2 DEF InsertNumbered
  <2>2. incidents[sequence'] # "database"
    BY <1>1, <1>2 DEF Numbered
  <2>3. \A no \in DOMAIN incidents : no <= (IF incidents[no] = "database" THEN sequence' ELSE counter)
    BY <1>1 DEF Numbered
  <2>4. \A m \in missing' : m.no \in DOMAIN incidents /\ incidents[m.no] # m.by
    BY <1>2, <2>1, <2>2 DEF Numbered
  <2> QED BY <1>1, <2>1, <2>3, <2>4 DEF Numbered
<1>3. CASE sequence' \notin DOMAIN incidents
  <2>1. /\ incidents' \in Partial(Nat \ {0}, Sides)
        /\ DOMAIN incidents' = DOMAIN incidents \cup {sequence'} /\ incidents'[sequence'] = "database"
        /\ \A k \in DOMAIN incidents : incidents'[k] = incidents[k]
    <3>1. "database" \in Sides /\ incidents' = Override([n \in {sequence'} |-> "database"], incidents)
      BY <1>3 DEF InsertNumbered, Sides
    <3>2. Gained(incidents', incidents, sequence', "database")
      BY <1>1, <1>3, <3>1, Recorded
    <3> QED BY <3>2 DEF Gained
  <2>2. \A no \in DOMAIN incidents' : no <= (IF incidents'[no] = "database" THEN sequence' ELSE counter)
    BY <1>1, <2>1 DEF Numbered
  <2>3. missing' = missing
    BY <1>3 DEF InsertNumbered
  <2>4. \A m \in missing' : m.no \in DOMAIN incidents' /\ incidents'[m.no] # m.by
    BY <2>1, <2>3 DEF Numbered
  <2>5. \A k \in DOMAIN assocQueue :
          assocQueue[k].incident # 0 /\ assocQueue[k].incident \in DOMAIN incidents' =>
              incidents'[assocQueue[k].incident] = "database"
    BY <2>1 DEF Numbered
  <2> QED BY <1>1, <2>1, <2>2, <2>4, <2>5 DEF Numbered
<1> QED BY <1>2, <1>3

\* Association's next number is above every one it used or read.
LEMMA NumberIs ==
    ASSUME Numbered
    PROVE  Number \in Nat \ {0} /\ Number > counter /\ (counter = -1 => Number \notin DOMAIN incidents)
<1>1. CASE counter # -1
  BY <1>1 DEF Numbered, Number
<1>2. CASE counter = -1
  <2> DEFINE known == {0} \cup DOMAIN incidents
  <2>1. \A no \in DOMAIN incidents : no \in Nat /\ no <= sequence
    <3>1. \A no \in DOMAIN incidents : no \in Nat \ {0} /\ incidents[no] \in Sides
      BY PartialIs DEF Numbered
    <3> QED BY <1>2, <3>1 DEF Numbered
  <2>2. known \subseteq Nat /\ known # {} /\ sequence \in Nat /\ \A x \in known : x <= sequence
    BY <2>1 DEF Numbered
  <2>3. Max(known) \in known /\ \A x \in known : x <= Max(known)
    <3> HIDE DEF known
    <3> QED BY <2>2, GreatestIs
  <2>4. Number = Max(known) + 1
    BY <1>2 DEF Number
  <2>5. Max(known) \in Nat
    BY <2>2, <2>3
  <2> HIDE DEF known
  <2>6. Max(known) + 1 \notin known
    BY <2>3, <2>5
  <2> QED BY <1>2, <2>4, <2>5, <2>6 DEF known
<1> QED BY <1>1, <1>2

\* Association numbers an incident.
LEMMA NumberedByAssociation ==
    ASSUME Numbered, NEW i \in Ids, Raise(i)
    PROVE  Numbered'
<1>1. UNCHANGED <<incidents, sequence, missing>>
  BY DEF Raise, rowVars
<1>2. PICK m \in Orders : /\ assocQueue' = Append(assocQueue, m)
                          /\ \/ m.incident = 0 /\ counter' = counter
                             \/ m.incident = counter' /\ counter' = Number
  <2>1. CASE UNCHANGED counter /\ assocQueue' = Append(assocQueue, [incident |-> 0, about |-> i])
    BY <2>1 DEF Orders
  <2>2. CASE counter' = Number /\ assocQueue' = Append(assocQueue, [incident |-> counter', about |-> i])
    <3>1. [incident |-> counter', about |-> i] \in Orders
      BY <2>2, NumberIs DEF Orders
    <3> QED BY <2>2, <3>1
  <2> QED BY <2>1, <2>2 DEF Raise
<1>3. assocQueue \in Seq(Orders)
  BY DEF Numbered
<1> DEFINE n == Len(assocQueue)
<1>4. /\ assocQueue' \in Seq(Orders) /\ n \in Nat
      /\ DOMAIN assocQueue' = 1..n + 1 /\ DOMAIN assocQueue = 1..n
      /\ \A k \in 1..n : assocQueue'[k] = assocQueue[k]
      /\ assocQueue'[n + 1] = m
  BY <1>2, <1>3
<1>5. \A k \in 1..n + 1 : k \in 1..n \/ k = n + 1
  BY <1>4
<1>6. counter' \in Nat \cup {-1} /\ counter \in Nat \cup {-1} /\ counter <= counter'
  BY <1>2, NumberIs DEF Numbered
<1>7. \A k \in 1..n : /\ assocQueue[k].incident \in Nat
                      /\ assocQueue[k].incident # 0 =>
                           /\ assocQueue[k].incident <= counter
                           /\ assocQueue[k].incident \in DOMAIN incidents =>
                                  incidents[assocQueue[k].incident] = "database"
                           /\ \A l \in 1..n : l # k => assocQueue[l].incident # assocQueue[k].incident
  <2>1. \A k \in 1..n : assocQueue[k] \in Orders
    BY <1>3, <1>4
  <2> QED BY <1>4, <2>1 DEF Numbered, Orders
<1>8. \A no \in DOMAIN incidents : no \in Nat \ {0} /\ incidents[no] \in Sides
  BY PartialIs DEF Numbered
<1>9. \A no \in DOMAIN incidents : no <= (IF incidents[no] = "database" THEN sequence ELSE counter')
  BY <1>6, <1>8 DEF Numbered
<1>10. m.incident # 0 =>
         /\ m.incident <= counter'
         /\ m.incident \in DOMAIN incidents => incidents[m.incident] = "database"
         /\ \A k \in 1..n : assocQueue[k].incident # m.incident
  <2> SUFFICES ASSUME m.incident # 0
               PROVE  /\ m.incident <= counter'
                      /\ m.incident \in DOMAIN incidents => incidents[m.incident] = "database"
                      /\ \A k \in 1..n : assocQueue[k].incident # m.incident
    OBVIOUS
  <2>1. m.incident = counter' /\ counter' > counter /\ counter' \in Nat
    BY <1>2, NumberIs
  <2>2. m.incident \in DOMAIN incidents => incidents[m.incident] = "database"
    BY <1>6, <1>8, <2>1 DEF Numbered, Sides
  <2>3. \A k \in 1..n : assocQueue[k].incident # m.incident
    BY <1>6, <1>7, <2>1
  <2> QED BY <2>1, <2>2, <2>3
<1>11. \A k \in DOMAIN assocQueue' : assocQueue'[k].incident # 0 =>
          /\ assocQueue'[k].incident <= counter'
          /\ assocQueue'[k].incident \in DOMAIN incidents =>
                 incidents[assocQueue'[k].incident] = "database"
          /\ \A l \in DOMAIN assocQueue' : l # k => assocQueue'[l].incident # assocQueue'[k].incident
  <2> SUFFICES ASSUME NEW k \in 1..n + 1, assocQueue'[k].incident # 0
               PROVE  /\ assocQueue'[k].incident <= counter'
                      /\ assocQueue'[k].incident \in DOMAIN incidents =>
                             incidents[assocQueue'[k].incident] = "database"
                      /\ \A l \in 1..n + 1 : l # k => assocQueue'[l].incident # assocQueue'[k].incident
    BY <1>4
  <2>1. CASE k \in 1..n
    <3>1. assocQueue'[k] = assocQueue[k]
      BY <1>4, <2>1
    <3>2. assocQueue[k].incident <= counter'
      BY <1>6, <1>7, <2>1, <3>1
    <3>3. m.incident # assocQueue[k].incident
      BY <1>10, <2>1, <3>1
    <3>4. \A l \in 1..n + 1 : l # k => assocQueue'[l].incident # assocQueue'[k].incident
      BY <1>4, <1>5, <1>7, <2>1, <3>1, <3>3
    <3> QED BY <1>7, <2>1, <3>1, <3>2, <3>4
  <2>2. CASE k = n + 1
    BY <1>4, <1>5, <1>10, <2>2
  <2> QED BY <1>5, <2>1, <2>2
<1> QED BY <1>1, <1>4, <1>6, <1>9, <1>11 DEF Numbered

\* The incident of association is written, under a number of its own.
LEMMA NumberedWritten ==
    ASSUME Numbered, WriteRow
    PROVE  Numbered'
<1>1. UNCHANGED <<sequence, counter>>
  BY DEF WriteRow, countVars
<1>2. assocQueue \in Seq(Orders) /\ assocQueue # <<>> /\ assocQueue' = Tail(assocQueue)
  BY DEF WriteRow, Numbered
<1> DEFINE n == Len(assocQueue)
           m == Head(assocQueue)
<1>3. /\ assocQueue' \in Seq(Orders) /\ n \in Nat /\ n >= 1 /\ m \in Orders /\ m = assocQueue[1]
      /\ DOMAIN assocQueue' = 1..n - 1 /\ DOMAIN assocQueue = 1..n
      /\ \A k \in 1..n - 1 : assocQueue'[k] = assocQueue[k + 1]
      /\ \A k \in 1..n : assocQueue[k] \in Orders
  BY <1>2
<1>4. /\ 1 \in 1..n
      /\ \A k \in 1..n - 1 : k + 1 \in 1..n /\ k + 1 # 1
      /\ \A k, l \in 1..n - 1 : k # l => k + 1 # l + 1
  BY <1>3
<1>5. \A k \in 1..n :
        assocQueue[k].incident # 0 =>
          /\ assocQueue[k].incident <= counter
          /\ assocQueue[k].incident \in DOMAIN incidents =>
                 incidents[assocQueue[k].incident] = "database"
          /\ \A l \in 1..n : l # k => assocQueue[l].incident # assocQueue[k].incident
  BY <1>3 DEF Numbered
<1>6. incidents \in Partial(Nat \ {0}, Sides) /\ \A no \in DOMAIN incidents : no \in Nat \ {0}
  BY PartialIs DEF Numbered
<1>7. CASE UNCHANGED incidents
  <2>1. \A k \in DOMAIN assocQueue' :
          assocQueue'[k].incident # 0 =>
            /\ assocQueue'[k].incident <= counter
            /\ assocQueue'[k].incident \in DOMAIN incidents =>
                   incidents[assocQueue'[k].incident] = "database"
            /\ \A l \in DOMAIN assocQueue' : l # k => assocQueue'[l].incident # assocQueue'[k].incident
    <3> SUFFICES ASSUME NEW k \in 1..n - 1, assocQueue'[k].incident # 0
                 PROVE  /\ assocQueue'[k].incident <= counter
                        /\ assocQueue'[k].incident \in DOMAIN incidents =>
                               incidents[assocQueue'[k].incident] = "database"
                        /\ \A l \in 1..n - 1 :
                               l # k => assocQueue'[l].incident # assocQueue'[k].incident
      BY <1>3
    <3>1. assocQueue'[k] = assocQueue[k + 1] /\ k + 1 \in 1..n
      BY <1>3, <1>4
    <3>2. /\ assocQueue[k + 1].incident <= counter
          /\ assocQueue[k + 1].incident \in DOMAIN incidents =>
                 incidents[assocQueue[k + 1].incident] = "database"
          /\ \A l \in 1..n : l # k + 1 => assocQueue[l].incident # assocQueue[k + 1].incident
      BY <1>5, <3>1
    <3>3. ASSUME NEW l \in 1..n - 1, l # k
          PROVE  assocQueue'[l].incident # assocQueue'[k].incident
      <4>1. assocQueue'[l] = assocQueue[l + 1] /\ l + 1 \in 1..n /\ l + 1 # k + 1
        BY <1>3, <1>4, <3>3
      <4> QED BY <3>1, <3>2, <4>1
    <3> QED BY <3>1, <3>2, <3>3
  <2>2. \A x \in missing' : x.no \in DOMAIN incidents /\ incidents[x.no] # x.by
    <3>1. CASE missing' = missing
      BY <3>1 DEF Numbered
    <3>2. CASE m.incident \in DOMAIN incidents /\ missing' = missing \cup {[no |-> m.incident, by |-> "association"]}
      <4>1. incidents[m.incident] = "database"
        BY <1>3, <1>4, <1>5, <1>6, <3>2
      <4> QED BY <3>2, <4>1 DEF Numbered
    <3> QED BY <3>1, <3>2 DEF WriteRow
  <2>3. /\ incidents' \in Partial(Nat \ {0}, Sides)
        /\ sequence' \in Nat /\ counter' \in Nat \cup {-1} /\ assocQueue' \in Seq(Orders)
    BY <1>1, <1>3, <1>6, <1>7 DEF Numbered
  <2>4. \A no \in DOMAIN incidents' :
          no <= (IF incidents'[no] = "database" THEN sequence' ELSE counter')
    BY <1>1, <1>7 DEF Numbered
  <2> HIDE DEF n, m
  <2> QED BY <1>1, <1>7, <2>1, <2>2, <2>3, <2>4 DEF Numbered
<1>8. CASE /\ m.incident \notin DOMAIN incidents /\ m.incident # 0 /\ missing' = missing
           /\ incidents' = Override([no \in {m.incident} |-> "association"], incidents)
  <2>1. /\ incidents' \in Partial(Nat \ {0}, Sides)
        /\ DOMAIN incidents' = DOMAIN incidents \cup {m.incident} /\ incidents'[m.incident] = "association"
        /\ \A k \in DOMAIN incidents : incidents'[k] = incidents[k]
    <3>1. m.incident \in Nat \ {0} /\ "association" \in Sides
      BY <1>3, <1>8 DEF Sides, Orders
    <3>2. Gained(incidents', incidents, m.incident, "association")
      BY <1>6, <1>8, <3>1, Recorded
    <3> QED BY <3>2 DEF Gained
  <2>2. m.incident <= counter /\ \A l \in 1..n - 1 : assocQueue'[l].incident # m.incident
    BY <1>3, <1>4, <1>5, <1>8
  <2>3. \A no \in DOMAIN incidents' : no <= (IF incidents'[no] = "database" THEN sequence ELSE counter)
    BY <2>1, <2>2 DEF Numbered
  <2>4. \A k \in DOMAIN assocQueue' :
          assocQueue'[k].incident # 0 =>
            /\ assocQueue'[k].incident <= counter
            /\ assocQueue'[k].incident \in DOMAIN incidents' =>
                   incidents'[assocQueue'[k].incident] = "database"
            /\ \A l \in DOMAIN assocQueue' : l # k => assocQueue'[l].incident # assocQueue'[k].incident
    BY <1>3, <1>4, <1>5, <2>1, <2>2
  <2>5. \A x \in missing' : x.no \in DOMAIN incidents' /\ incidents'[x.no] # x.by
    BY <1>8, <2>1 DEF Numbered
  <2> QED BY <1>1, <1>3, <2>1, <2>3, <2>4, <2>5 DEF Numbered
<1> QED BY <1>7, <1>8 DEF WriteRow

\* Every step keeps the numbers apart.
LEMMA NumberedStep ==
    ASSUME Numbered, Next
    PROVE  Numbered'
<1>1. CASE UNCHANGED <<incidents, sequence, missing, counter, assocQueue>>
  BY <1>1 DEF Numbered
<1>2. CASE WriteLoiterer \/ OtherIncident
  <2>1. /\ UNCHANGED <<counter, assocQueue>>
        /\ \E rows : InsertNumbered(rows)
    BY <1>2 DEF WriteLoiterer, OtherIncident, queueVars, countVars
  <2> QED BY <2>1, NumberedByDatabase
<1>3. CASE WriteRow
  BY <1>3, NumberedWritten
<1>4. ASSUME NEW i \in Ids, Raise(i)
      PROVE  Numbered'
  BY <1>4, NumberedByAssociation
<1>5. CASE \/ Quiet \/ Output \/ StopReid \/ TakeMessage \/ FindRows \/ CreateReal \/ DeleteTemp \/ WriteTrack
           \/ \E f \in Views : Identify(f) /\ UNCHANGED <<queueVars, rowVars, countVars>>
  <2>1. UNCHANGED <<incidents, sequence, missing, counter, assocQueue>>
    BY <1>5 DEF Quiet, Output, StopReid, TakeMessage, FindRows, CreateReal, DeleteTemp, WriteTrack,
       queueVars, rowVars, countVars
  <2> QED BY <1>1, <2>1
<1> QED BY <1>2, <1>3, <1>4, <1>5 DEF Next, ReidStep, Association

-----------------------------------------------------------------------------
Known == Identities /\ Told

\* The first state has all of this.
LEMMA Beginning ==
    RecordsInit => Known /\ Loitering /\ Numbered
<1> SUFFICES ASSUME RecordsInit PROVE Known /\ Loitering /\ Numbered
  OBVIOUS
<1> USE DEF RecordsInit, ReidInit
<1>1. Known
  <2>1. resolved \in Partial(Temps, Reals)
    BY Nothing
  <2> QED BY <2>1 DEF Known, Identities, Told
<1>2. Loitering
  <2>1. entries \in Partial(PersonIds, [first : Nat, last : Nat, loiters : BOOLEAN]) /\ DOMAIN entries = {}
    BY Nothing
  <2>2. sighted \in [PersonIds -> SUBSET Nat] /\ \A i \in PersonIds : sighted[i] = {}
    OBVIOUS
  <2> QED BY <2>1, <2>2 DEF Loitering, Presences, InTime, Past, Seen, Reported
<1>3. Numbered
  <2>1. incidents \in Partial(Nat \ {0}, Sides) /\ DOMAIN incidents = {}
    BY Nothing
  <2>2. assocQueue \in Seq(Orders) /\ DOMAIN assocQueue = {}
    OBVIOUS
  <2> QED BY <2>1, <2>2 DEF Numbered
<1> QED BY <1>1, <1>2, <1>3

\* Every step keeps it.
LEMMA Continuing ==
    Known /\ Loitering /\ Numbered /\ [Next]_vars => (Known /\ Loitering /\ Numbered)'
<1>1. CASE Next
  BY <1>1, IdentitiesStep, LoiteringStep, NumberedStep DEF Known
<1>2. CASE UNCHANGED vars
  <2>1. (Known /\ Numbered)' = (Known /\ Numbered)
    BY <1>2 DEF vars, reidVars, queueVars, rowVars, countVars, Known, Identities, Told, News, Numbered
  <2>2. Known /\ Loitering => Loitering'
    BY <1>2, LoiteringStill DEF vars, reidVars, Known, Handled
  <2> QED BY <2>1, <2>2
<1> QED BY <1>1, <1>2

\* An incident is missing only because its number was taken on the other side.
THEOREM OnlyByCollision == Spec => []LostByCollisionOnly
<1>1. Numbered => LostByCollisionOnly
  BY DEF Numbered, LostByCollisionOnly
<1> QED BY <1>1, Beginning, Continuing, PTL DEF Spec

\* A loiterer stayed for the threshold, and is reported again only after he was away.
THEOREM ReportedForOnce == Spec => []ReportedOnce
<1>1. Known /\ Loitering => ReportedOnce
  <2> SUFFICES ASSUME Known, Loitering, NEW r \in reports
               PROVE  /\ \E i \in {r.person} \cup {t \in DOMAIN resolved : resolved[t] = r.person} :
                            \E k \in sighted[i] : k + Threshold <= r.frame
                      /\ \A later \in reports :
                            later.person = r.person /\ later.frame > r.frame =>
                              \E now \in r.frame + 1..later.frame :
                                  sighted[r.person] \cap (now - Window..now) = {}
    BY DEF ReportedOnce
  <2>1. \E i \in {r.person} \cup {t \in DOMAIN resolved : resolved[t] = r.person} :
            \E k \in sighted[i] : k + Threshold <= r.frame
    BY DEF Loitering, Reported, Names
  <2>2. ASSUME NEW later \in reports, later.person = r.person, later.frame > r.frame
        PROVE  \E now \in r.frame + 1..later.frame : sighted[r.person] \cap (now - Window..now) = {}
    <3>1. r.frame \in Nat /\ later.frame \in Nat /\ r.person \in PersonIds
      BY Disjoint DEF Loitering, Presences
    <3>2. PICK now \in Nat : /\ r.frame < now /\ now <= later.frame
                             /\ \A k \in sighted[r.person] : k < now - Window \/ now < k
      BY <2>2 DEF Loitering, Reported, Away
    <3>3. now \in r.frame + 1..later.frame
      BY <3>1, <3>2
    <3>4. \A k \in sighted[r.person] : k \in Nat
      BY <3>1 DEF Loitering, Presences
    <3>5. sighted[r.person] \cap (now - Window..now) = {}
      BY <3>2, <3>4, RecordsAssumption
    <3> QED BY <3>3, <3>5
  <2> QED BY <2>1, <2>2
<1> QED BY <1>1, Beginning, Continuing, PTL DEF Spec

-----------------------------------------------------------------------------
(* The rows. *)

Renames(m) == Override(m.people, m.bags)
Tracks(f) == DOMAIN f.persons \cup DOMAIN f.bags

\* The database thread will be told of the renaming.
InWire(i) == wire # NoFrame /\ i \in DOMAIN News(wire)
Ahead(i) == InWire(i) \/ \E k \in DOMAIN reidQueue : i \in DOMAIN Renames(reidQueue[k])

\* A frame does not show an id that was resolved by then.
WireFresh == wire # NoFrame => Tracks(wire) \cap DOMAIN resolved = {}

\* A message renames what is resolved, and writes about ids that were not resolved when its
\* frame was seen; if they are by now, the renaming is behind.
MessagesRight ==
    \A n \in DOMAIN reidQueue :
        /\ \A t \in DOMAIN Renames(reidQueue[n]) :
              t \in DOMAIN resolved /\ resolved[t] = Renames(reidQueue[n])[t]
        /\ reidQueue[n].loiterers \subseteq reidQueue[n].tracks
        /\ \A i \in reidQueue[n].tracks :
              /\ entity[i] # "deleted" /\ i \notin job.todo
              /\ \A k \in 1..n : i \notin DOMAIN Renames(reidQueue[k])
              /\ running /\ i \in DOMAIN resolved =>
                     InWire(i) \/ \E k \in DOMAIN reidQueue : n < k /\ i \in DOMAIN Renames(reidQueue[k])

\* So does the message the thread is at.
JobRight ==
    /\ job.todo \subseteq DOMAIN job.updates
    /\ \A t \in DOMAIN job.updates : t \in DOMAIN resolved /\ resolved[t] = job.updates[t]
    /\ \A i \in job.tracks :
          /\ entity[i] # "deleted" /\ i \notin job.todo
          /\ running /\ i \in DOMAIN resolved => Ahead(i)
    /\ \A i \in job.loiterers : i \in job.tracks \/ entity[i] # "none" \/ i \in spoilt

\* Half-way through a renaming: what waits for a commit are all of reid's rows under the
\* temporary id; when that is deleted they are rewritten, or wait for the same commit.
HalfRenamed ==
    /\ job.pc \in {"create", "delete"} => job.temp \in job.todo
    /\ job.pc = "create" => job.pending
    /\ job.pending =>
          /\ job.pc \in {"create", "delete"}
          /\ job.pc = "delete" => entity[Real] = "live"
          /\ \A r \in job.rows : r \in refs /\ r.to = Temp
          /\ \A r \in refs : r.by = "reid" /\ r.to = Temp => r \in job.rows
    /\ job.pc = "delete" =>
          \/ Temp \in spoilt
          \/ /\ entity[Real] = "live"
             /\ \/ job.pending
                \/ /\ Temp \in DOMAIN mapping /\ entity[mapping[Temp]] = "live"
                   /\ \A r \in refs : r.by = "reid" => r.to # Temp

EntitiesRight ==
    /\ \A i \in Ids : entity[i] = "deleted" =>
          /\ i \in DOMAIN resolved
          /\ i \in spoilt \/ (i \in DOMAIN mapping /\ entity[mapping[i]] = "live")
    /\ \A i \in confirmed : entity[i] # "none" \/ i \in spoilt

RowsRight ==
    \A r \in refs :
        /\ r.to = r.born \/ (r.born \in DOMAIN resolved /\ r.to = resolved[r.born])
        /\ r.by = "reid" =>
              /\ r.to \in spoilt \/ entity[r.to] = "live"
              /\ running /\ r.to \in DOMAIN resolved => r.to \in spoilt \/ r.to \in job.todo \/ Ahead(r.to)

Consistency == WireFresh /\ MessagesRight /\ JobRight /\ HalfRenamed /\ EntitiesRight /\ RowsRight

-----------------------------------------------------------------------------
(* What the steps of the database thread do to its job. *)

\* With nothing left of a message the thread forgets it.
LEMMA RestIs ==
    ASSUME NEW j \in Jobs, j.pc = "rename", ~j.pending
    PROVE  /\ Rest(j) \in Jobs /\ Rest(j).pc \in {"idle", "rename"} /\ ~Rest(j).pending
           /\ Rest(j).todo = j.todo /\ Rest(j).tracks = j.tracks /\ Rest(j).loiterers = j.loiterers
           /\ \A t \in DOMAIN Rest(j).updates :
                  t \in DOMAIN j.updates /\ Rest(j).updates[t] = j.updates[t]
           /\ j.todo # {} => Rest(j).updates = j.updates
<1>1. Idle \in Jobs
  <2>1. <<>> \in Partial(Temps, Reals)
    BY Nothing
  <2> QED BY <2>1 DEF Idle, Jobs
<1>2. CASE j.todo = {} /\ j.tracks = {} /\ j.loiterers = {}
  <2>1. Rest(j) = Idle
    BY <1>2 DEF Rest
  <2>2. DOMAIN Idle.updates = {}
    BY Nothing DEF Idle
  <2>3. Idle.pc = "idle" /\ ~Idle.pending /\ Idle.todo = {} /\ Idle.tracks = {} /\ Idle.loiterers = {}
    BY DEF Idle
  <2> QED BY <1>1, <1>2, <2>1, <2>2, <2>3
<1>3. CASE ~(j.todo = {} /\ j.tracks = {} /\ j.loiterers = {})
  <2>1. Rest(j) = j
    BY <1>3 DEF Rest
  <2> QED BY <2>1
<1> QED BY <1>2, <1>3

\* With a message the thread takes over what that says.
LEMMA TakeMessageIs ==
    ASSUME Writing, TakeMessage
    PROVE  /\ reidQueue # <<>> /\ reidQueue' = Tail(reidQueue) /\ Head(reidQueue) \in Messages
           /\ job' \in Jobs /\ job'.pc \in {"idle", "rename"} /\ ~job'.pending
           /\ job'.todo = DOMAIN Renames(Head(reidQueue))
           /\ job'.tracks = Head(reidQueue).tracks /\ job'.loiterers = Head(reidQueue).loiterers
           /\ \A t \in DOMAIN job'.updates :
                 t \in DOMAIN Renames(Head(reidQueue)) /\ job'.updates[t] = Renames(Head(reidQueue))[t]
           /\ job'.todo \subseteq DOMAIN job'.updates
<1> DEFINE m == Head(reidQueue)
           j == [Idle EXCEPT !.pc = "rename", !.updates = Override(m.people, m.bags),
                             !.todo = DOMAIN m.people \cup DOMAIN m.bags,
                             !.tracks = m.tracks, !.loiterers = m.loiterers]
<1>1. reidQueue # <<>> /\ reidQueue' = Tail(reidQueue) /\ job' = Rest(j)
  BY DEF TakeMessage
<1>2. m \in Messages
  BY <1>1 DEF Writing
<1>3. /\ m.people \in Partial(TempPersons, RealPersons) /\ m.bags \in Partial(TempBags, RealBags)
      /\ m.tracks \subseteq Ids /\ m.loiterers \subseteq RealPersons
  BY <1>2 DEF Messages
<1>4. /\ Override(m.people, m.bags) \in Partial(Temps, Reals)
      /\ DOMAIN Override(m.people, m.bags) = DOMAIN m.people \cup DOMAIN m.bags
  BY <1>3, NewsIs
<1>5. DOMAIN Override(m.people, m.bags) \subseteq Temps
  BY <1>4, PartialIs
<1>6. /\ j.pc = "rename" /\ j.updates = Renames(m) /\ j.todo = DOMAIN Renames(m)
      /\ j.tracks = m.tracks /\ j.loiterers = m.loiterers
      /\ j.temp = "none" /\ j.rows = {} /\ ~j.pending
  BY <1>4 DEF Idle, Renames
<1>7. j \in Jobs
  <2> DEFINE u == Override(m.people, m.bags)
             d == DOMAIN m.people \cup DOMAIN m.bags
  <2>1. d \subseteq Temps /\ u \in Partial(Temps, Reals)
    BY <1>4, <1>5
  <2> HIDE DEF u, d
  <2>2. Idle \in Jobs
    <3>1. <<>> \in Partial(Temps, Reals)
      BY Nothing
    <3> QED BY <3>1 DEF Idle, Jobs
  <2>3. [Idle EXCEPT !.pc = "rename", !.updates = u] \in Jobs
    BY <2>1, <2>2 DEF Jobs
  <2>4. [Idle EXCEPT !.pc = "rename", !.updates = u, !.todo = d] \in Jobs
    BY <2>1, <2>3 DEF Jobs
  <2>5. [Idle EXCEPT !.pc = "rename", !.updates = u, !.todo = d, !.tracks = m.tracks] \in Jobs
    BY <1>3, <2>4 DEF Jobs
  <2>6. [Idle EXCEPT !.pc = "rename", !.updates = u, !.todo = d, !.tracks = m.tracks,
                     !.loiterers = m.loiterers] \in Jobs
    BY <1>3, <2>5 DEF Jobs
  <2> QED BY <2>6 DEF u, d
<1> HIDE DEF j, m
<1>8. /\ job' \in Jobs /\ job'.pc \in {"idle", "rename"} /\ ~job'.pending
      /\ job'.todo = j.todo /\ job'.tracks = j.tracks /\ job'.loiterers = j.loiterers
      /\ \A t \in DOMAIN job'.updates : t \in DOMAIN j.updates /\ job'.updates[t] = j.updates[t]
      /\ j.todo # {} => job'.updates = j.updates
  BY <1>1, <1>6, <1>7, RestIs
<1>9. job'.todo \subseteq DOMAIN job'.updates
  BY <1>6, <1>8
<1> QED BY <1>1, <1>2, <1>6, <1>8, <1>9 DEF m

\* The thread is through with a renaming.
LEMMA DoneIs ==
    ASSUME job \in Jobs, job.todo \subseteq DOMAIN job.updates, NEW t
    PROVE  /\ Done(job, t) \in Jobs /\ Done(job, t).pc \in {"idle", "rename"} /\ ~Done(job, t).pending
           /\ Done(job, t).todo = job.todo \ {t}
           /\ Done(job, t).tracks = job.tracks /\ Done(job, t).loiterers = job.loiterers
           /\ \A x \in DOMAIN Done(job, t).updates :
                 x \in DOMAIN job.updates /\ Done(job, t).updates[x] = job.updates[x]
           /\ Done(job, t).todo \subseteq DOMAIN Done(job, t).updates
<1> DEFINE j == [job EXCEPT !.pc = "rename", !.todo = @ \ {t}, !.temp = "none",
                            !.pending = FALSE, !.rows = {}]
<1>1. j \in Jobs
  <2>1. [job EXCEPT !.pc = "rename", !.todo = @ \ {t}] \in Jobs
    BY DEF Jobs
  <2>2. [job EXCEPT !.pc = "rename", !.todo = @ \ {t}, !.temp = "none"] \in Jobs
    BY <2>1 DEF Jobs
  <2> QED BY <2>2 DEF Jobs
<1>2. /\ j.pc = "rename" /\ j.temp = "none" /\ ~j.pending /\ j.rows = {}
      /\ j.todo = job.todo \ {t} /\ j.tracks = job.tracks /\ j.loiterers = job.loiterers
      /\ j.updates = job.updates
  BY DEF Jobs
<1>3. Done(job, t) = Rest(j)
  BY DEF Done
<1> HIDE DEF j
<1>4. /\ Done(job, t) \in Jobs /\ Done(job, t).pc \in {"idle", "rename"} /\ ~Done(job, t).pending
      /\ Done(job, t).todo = j.todo /\ Done(job, t).tracks = j.tracks
      /\ Done(job, t).loiterers = j.loiterers
      /\ \A x \in DOMAIN Done(job, t).updates :
            x \in DOMAIN j.updates /\ Done(job, t).updates[x] = j.updates[x]
      /\ j.todo # {} => Done(job, t).updates = j.updates
  BY <1>1, <1>2, <1>3, RestIs
<1> HIDE DEF Done
<1>5. Done(job, t).todo \subseteq DOMAIN Done(job, t).updates
  BY <1>2, <1>4
<1> QED BY <1>2, <1>4, <1>5

\* The ids of the renaming the thread is at.
LEMMA RealIs ==
    ASSUME Identities, job \in Jobs, JobRight, HalfRenamed, job.pc \in {"create", "delete"}
    PROVE  /\ Temp \in job.todo /\ Temp \in Temps /\ Real \in Reals /\ Temp # Real
           /\ Temp \in Ids /\ Real \in Ids /\ Real \notin Temps
           /\ Temp \in DOMAIN resolved /\ resolved[Temp] = Real
<1>1. Temp \in job.todo /\ Temp \in Temps
  BY DEF HalfRenamed, Temp, Jobs
<1>2. Temp \in DOMAIN resolved /\ resolved[Temp] = Real
  BY <1>1 DEF JobRight, Real
<1>3. Real \in Reals
  BY <1>2, Value DEF Identities
<1> QED BY <1>1, <1>2, <1>3, Disjoint

\* What waits in the session is committed.
LEMMA CommitIs ==
    ASSUME Tables, job \in Jobs, CommitPending, Temp \in Temps, Real \in Reals, Real \in Ids
    PROVE  /\ refs' \subseteq Rows /\ mapping' \in Partial(Temps, Reals)
           /\ ~job.pending => UNCHANGED <<refs, mapping>>
           /\ job.pending =>
                 /\ refs' = (refs \ job.rows) \cup {[r EXCEPT !.to = Real] : r \in job.rows}
                 /\ DOMAIN mapping' = DOMAIN mapping \cup {Temp} /\ mapping'[Temp] = Real
                 /\ \A t \in DOMAIN mapping \ {Temp} : mapping'[t] = mapping[t]
<1>1. CASE ~job.pending
  BY <1>1 DEF CommitPending, Tables
<1>2. CASE job.pending
  <2> DEFINE one == [t \in {Temp} |-> Real]
  <2>1. one \in Partial(Temps, Reals) /\ DOMAIN one = {Temp} /\ one[Temp] = Real
    BY Single
  <2>2. mapping' = Override(one, mapping)
    BY <1>2 DEF CommitPending
  <2> HIDE DEF one
  <2>3. mapping' \in Partial(Temps, Reals)
    BY <2>1, <2>2, Overridden DEF Tables
  <2>4. /\ DOMAIN mapping' = DOMAIN mapping \cup {Temp} /\ mapping'[Temp] = Real
        /\ \A t \in DOMAIN mapping \ {Temp} : mapping'[t] = mapping[t]
    BY <2>1, <2>2 DEF Override
  <2>5. refs' = (refs \ job.rows) \cup {[r EXCEPT !.to = Real] : r \in job.rows}
    BY <1>2 DEF CommitPending
  <2>6. \A r \in job.rows : [r EXCEPT !.to = Real] \in Rows
    <3>1. job.rows \subseteq Rows
      BY DEF Jobs
    <3> QED BY <3>1 DEF Rows
  <2>7. refs' \subseteq Rows
    BY <2>5, <2>6 DEF Tables
  <2> QED BY <1>2, <2>3, <2>4, <2>5, <2>7
<1> QED BY <1>1, <1>2

-----------------------------------------------------------------------------
(* The steps of the others. *)
Typed == Tables /\ Writing /\ Telling

\* A step that touches nothing of this.
LEMMA Elsewhere ==
    ASSUME Consistency,
           UNCHANGED <<wire, resolved, running, reidQueue, job, confirmed, entity, mapping, refs, spoilt>>
    PROVE  Consistency'
<1>1. \A i : InWire(i)' = InWire(i) /\ Ahead(i)' = Ahead(i)
  BY DEF InWire, Ahead, News
<1>2. WireFresh' /\ EntitiesRight'
  BY DEF Consistency, WireFresh, EntitiesRight, Tracks
<1>3. MessagesRight'
  BY <1>1 DEF Consistency, MessagesRight
<1>4. JobRight'
  BY <1>1 DEF Consistency, JobRight
<1>5. HalfRenamed'
  BY DEF Consistency, HalfRenamed, Temp, Real
<1>6. RowsRight'
  BY <1>1 DEF Consistency, RowsRight
<1> QED BY <1>2, <1>3, <1>4, <1>5, <1>6 DEF Consistency

\* Association reads a frame.
LEMMA ReadFrameIs ==
    ASSUME Telling, ReadFrame
    PROVE  /\ inbox' \in Seq(Frame) /\ renamed' \in Partial(Temps, Reals)
<1>1. inbox \in Seq(Frame) /\ inbox # <<>> /\ inbox' = Tail(inbox)
  BY DEF Telling, ReadFrame
<1>2. inbox' \in Seq(Frame) /\ Head(inbox) \in Frame
  BY <1>1
<1> DEFINE news == Override(Head(inbox).personUpdates, Head(inbox).bagUpdates)
<1>3. news \in Partial(Temps, Reals)
  BY <1>2, FrameIs, NewsIs
<1>4. renamed' = Override(news, renamed)
  BY DEF ReadFrame
<1> HIDE DEF news
<1>5. renamed' \in Partial(Temps, Reals)
  BY <1>3, <1>4, Overridden DEF Telling
<1> QED BY <1>2, <1>5

\* Association raises nothing about the frame.
LEMMA QuietStep ==
    ASSUME Typed, Consistency, Quiet
    PROVE  Typed' /\ Consistency'
<1>1. UNCHANGED <<reidVars, running, reidQueue, assocQueue, job, confirmed, rowVars, countVars>>
  BY DEF Quiet
<1>2. inbox' \in Seq(Frame) /\ renamed' \in Partial(Temps, Reals)
  BY ReadFrameIs DEF Quiet, Typed
<1>3. Consistency'
  BY <1>1, Elsewhere DEF reidVars, rowVars, countVars
<1>4. Typed'
  BY <1>1, <1>2 DEF Typed, Tables, Writing, Telling, rowVars, countVars
<1> QED BY <1>3, <1>4

\* Association raises an incident, which waits for its output thread.
LEMMA RaiseStep ==
    ASSUME Numbered, Typed, Consistency, NEW i \in Ids, Raise(i)
    PROVE  Typed' /\ Consistency'
<1>1. UNCHANGED <<reidVars, running, reidQueue, job, confirmed, rowVars, failures, spoilt>>
  BY DEF Raise
<1>2. inbox' \in Seq(Frame) /\ renamed' \in Partial(Temps, Reals)
  BY ReadFrameIs DEF Raise, Typed
<1>3. Consistency'
  BY <1>1, Elsewhere DEF reidVars, rowVars
<1>4. raised' = [raised EXCEPT !["association"] = @ + 1] /\ \E m : assocQueue' = Append(assocQueue, m)
  BY DEF Raise
<1>5. Len(assocQueue') = Len(assocQueue) + 1 /\ Len(assocQueue) \in Nat
  BY <1>4 DEF Numbered
<1>6. /\ raised' \in [{"association", "anomaly"} -> Nat]
      /\ raised'["association"] = raised["association"] + 1 /\ raised["association"] \in Nat
  BY <1>4 DEF Typed, Telling
<1>7. Len(assocQueue') <= raised'["association"]
  BY <1>5, <1>6 DEF Typed, Telling
<1>8. Telling'
  BY <1>2, <1>6, <1>7 DEF Telling
<1>9. Tables' /\ Writing'
  BY <1>1 DEF Typed, Tables, Writing, rowVars
<1> QED BY <1>3, <1>8, <1>9 DEF Typed

\* Another process adds an incident; it refers to nobody.
LEMMA OtherIncidentStep ==
    ASSUME Typed, Consistency, OtherIncident
    PROVE  Typed' /\ Consistency'
<1>1. UNCHANGED <<reidVars, queueVars, job, confirmed, entity, mapping, counter, failures, spoilt>>
  BY DEF OtherIncident
<1>2. refs' = refs
  BY DEF OtherIncident, InsertNumbered
<1>3. Consistency'
  BY <1>1, <1>2, Elsewhere DEF reidVars, queueVars
<1>4. raised' \in [{"association", "anomaly"} -> Nat] /\ raised'["association"] = raised["association"]
  BY DEF OtherIncident, Typed, Telling
<1>5. Telling'
  BY <1>1, <1>4 DEF Typed, Telling, queueVars
<1>6. Tables' /\ Writing'
  BY <1>1, <1>2 DEF Typed, Tables, Writing, queueVars
<1> QED BY <1>3, <1>5, <1>6 DEF Typed

\* A row of association's refers to an id as it is.
LEMMA WriteRowStep ==
    ASSUME Numbered, Typed, Consistency, WriteRow
    PROVE  Typed' /\ Consistency'
<1>1. UNCHANGED <<reidVars, running, inbox, renamed, reidQueue, job, confirmed, entity, mapping,
                  raised, failures, spoilt>>
  BY DEF WriteRow, countVars
<1>2. assocQueue \in Seq(Orders) /\ assocQueue # <<>> /\ assocQueue' = Tail(assocQueue)
  BY DEF WriteRow, Numbered
<1>3. Head(assocQueue) \in Orders /\ Len(assocQueue') <= Len(assocQueue) /\ Len(assocQueue) \in Nat
  BY <1>2
<1> DEFINE m == Head(assocQueue)
           now == IF m.incident > 0 /\ m.about \in DOMAIN renamed THEN renamed[m.about] ELSE m.about
           row == Row("association", raised["association"] - Len(assocQueue), now)
<1>4. now \in Ids
  <2>1. m.about \in Ids
    BY <1>3 DEF Orders
  <2>2. m.about \in DOMAIN renamed => renamed[m.about] \in Ids
    BY Value, Disjoint DEF Typed, Telling
  <2> QED BY <2>1, <2>2
<1>5. refs' = refs \/ refs' = refs \cup {row}
  BY DEF WriteRow
<1>6. raised["association"] \in Nat /\ Len(assocQueue) <= raised["association"]
  BY DEF Typed, Telling
<1> HIDE DEF m, now
<1>7. row \in Rows /\ row.by = "association" /\ row.to = row.born
  <2>1. raised["association"] - Len(assocQueue) \in Nat
    BY <1>3, <1>6
  <2> QED BY <1>4, <2>1 DEF Row, Rows
<1> HIDE DEF row
<1>8. \A i : InWire(i)' = InWire(i) /\ Ahead(i)' = Ahead(i)
  BY <1>1 DEF InWire, Ahead, News, reidVars
<1>9. WireFresh' /\ EntitiesRight'
  BY <1>1 DEF Consistency, WireFresh, EntitiesRight, Tracks, reidVars
<1>10. MessagesRight'
  BY <1>1, <1>8 DEF Consistency, MessagesRight, reidVars
<1>11. JobRight'
  BY <1>1, <1>8 DEF Consistency, JobRight, reidVars
<1>12. HalfRenamed'
  <2>1. \A r \in refs' : r.by = "reid" => r \in refs
    BY <1>5, <1>7
  <2>2. refs \subseteq refs'
    BY <1>5
  <2> QED BY <1>1, <2>1, <2>2 DEF Consistency, HalfRenamed, Temp, Real
<1>13. RowsRight'
  <2> DEFINE Good(r) ==
        /\ r.to = r.born \/ (r.born \in DOMAIN resolved' /\ r.to = resolved'[r.born])
        /\ r.by = "reid" =>
              /\ r.to \in spoilt' \/ entity'[r.to] = "live"
              /\ running' /\ r.to \in DOMAIN resolved' =>
                     r.to \in spoilt' \/ r.to \in job'.todo \/ Ahead(r.to)'
  <2>1. \A r \in refs : Good(r)
    BY <1>1, <1>8 DEF Consistency, RowsRight, reidVars
  <2>2. Good(row)
    BY <1>7
  <2>3. \A r \in refs' : Good(r)
    <3> HIDE DEF Good
    <3> QED BY <1>5, <2>1, <2>2
  <2> QED BY <2>3 DEF RowsRight
<1>14. Telling'
  BY <1>1, <1>3, <1>6 DEF Typed, Telling
<1>15. Tables' /\ Writing'
  BY <1>1, <1>5, <1>7 DEF Typed, Tables, Writing
<1> QED BY <1>9, <1>10, <1>11, <1>12, <1>13, <1>14, <1>15 DEF Typed, Consistency

\* More ids are resolved; the frame that tells is on its way.
LEMMA IdentifyStep ==
    ASSUME Identities, Typed, Consistency, NEW f \in Views, Identify(f),
           UNCHANGED <<queueVars, job, confirmed, rowVars, countVars>>
    PROVE  Typed' /\ Consistency'
<1>1. UNCHANGED <<running, reidQueue, inbox, renamed, assocQueue, job, confirmed, entity, mapping, refs,
                  raised, failures, spoilt>>
  BY DEF queueVars, rowVars, countVars
<1>2. /\ wire = NoFrame /\ wire' = f /\ wire' # NoFrame
      /\ Tracks(f) \cap (DOMAIN resolved \cup DOMAIN News(f)) = {}
      /\ DOMAIN resolved' = DOMAIN resolved \cup DOMAIN News(f)
      /\ \A t \in DOMAIN resolved : resolved'[t] = resolved[t]
  BY IdentifyIs DEF Tracks
<1>3. /\ \A i : ~InWire(i)
      /\ \A i \in DOMAIN News(f) : InWire(i)'
      /\ \A i : Ahead(i) => Ahead(i)'
      /\ \A i \in DOMAIN News(f) : Ahead(i)'
  BY <1>1, <1>2 DEF InWire, Ahead, News
<1>4. Typed'
  BY <1>1 DEF Typed, Tables, Writing, Telling
<1>5. WireFresh'
  BY <1>2 DEF WireFresh
<1>6. EntitiesRight'
  BY <1>1, <1>2 DEF Consistency, EntitiesRight
<1>7. HalfRenamed'
  BY <1>1 DEF Consistency, HalfRenamed, Temp, Real
<1>8. MessagesRight'
  BY <1>1, <1>2, <1>3 DEF Consistency, MessagesRight
<1>9. JobRight'
  BY <1>1, <1>2, <1>3 DEF Consistency, JobRight
<1>10. RowsRight'
  BY <1>1, <1>2, <1>3 DEF Consistency, RowsRight
<1> QED BY <1>4, <1>5, <1>6, <1>7, <1>8, <1>9, <1>10 DEF Consistency

\* The frame goes to the database thread and to association.
LEMMA OutputStep ==
    ASSUME Identities, Told, Loitering, Typed, Consistency, Output
    PROVE  Typed' /\ Consistency'
<1>1. /\ wire \in Frame /\ wire # NoFrame /\ wire' = NoFrame
      /\ UNCHANGED <<resolved, running, renamed, assocQueue, job, confirmed, rowVars, countVars>>
      /\ inbox' = Append(inbox, wire)
  BY ReidAssumption DEF Output, Identities
<1>2. UNCHANGED <<entity, mapping, refs, raised, failures, spoilt>>
  BY <1>1 DEF rowVars, countVars
<1>3. PICK new \in SUBSET RealPersons :
        /\ new \subseteq DOMAIN wire.persons
        /\ reidQueue' = Append(reidQueue,
              [tracks |-> DOMAIN wire.persons \cup DOMAIN wire.bags, loiterers |-> new,
               people |-> wire.personUpdates, bags |-> wire.bagUpdates])
  BY LoiteringOutput DEF HandedOn
<1> DEFINE m == [tracks |-> DOMAIN wire.persons \cup DOMAIN wire.bags, loiterers |-> new,
                 people |-> wire.personUpdates, bags |-> wire.bagUpdates]
           n == Len(reidQueue)
<1>4. /\ m \in Messages /\ m.tracks = Tracks(wire) /\ m.loiterers \subseteq m.tracks
      /\ Renames(m) = News(wire)
  <2>1. DOMAIN wire.persons \cup DOMAIN wire.bags \subseteq Ids
    BY <1>1, FrameIs, Disjoint
  <2>2. m \in Messages
    BY <1>1, <1>3, <2>1, FrameIs DEF Messages
  <2> QED BY <1>3, <2>2 DEF Renames, News, Tracks
<1> HIDE DEF m
<1>5. reidQueue \in Seq(Messages) /\ reidQueue' = Append(reidQueue, m)
  BY <1>3 DEF Typed, Writing, m
<1>6. /\ reidQueue' \in Seq(Messages) /\ n \in Nat
      /\ DOMAIN reidQueue' = 1..n + 1 /\ DOMAIN reidQueue = 1..n
      /\ \A k \in 1..n : reidQueue'[k] = reidQueue[k]
      /\ reidQueue'[n + 1] = m
  BY <1>4, <1>5
<1>7. /\ \A k \in 1..n + 1 : k \in 1..n \/ k = n + 1
      /\ \A k \in 1..n : k \in 1..n + 1 /\ k < n + 1
      /\ n + 1 \in 1..n + 1
  BY <1>6
<1>8. \A t \in DOMAIN News(wire) : t \in DOMAIN resolved /\ resolved[t] = News(wire)[t]
  BY <1>1 DEF Told
<1>9. \A i : Ahead(i) => Ahead(i)'
  <2> SUFFICES ASSUME NEW i, Ahead(i) PROVE Ahead(i)'
    OBVIOUS
  <2>1. CASE InWire(i)
    BY <1>4, <1>6, <1>7, <2>1 DEF InWire, Ahead
  <2>2. CASE \E k \in 1..n : i \in DOMAIN Renames(reidQueue[k])
    BY <1>6, <1>7, <2>2 DEF Ahead
  <2> QED BY <1>6, <2>1, <2>2 DEF Ahead
<1>10. Typed'
  <2>1. inbox' \in Seq(Frame)
    BY <1>1 DEF Typed, Telling
  <2> QED BY <1>1, <1>2, <1>6, <2>1 DEF Typed, Tables, Writing, Telling
<1>11. WireFresh'
  BY <1>1 DEF WireFresh
<1>12. EntitiesRight'
  BY <1>1, <1>2 DEF Consistency, EntitiesRight
<1>13. HalfRenamed'
  BY <1>1, <1>2 DEF Consistency, HalfRenamed, Temp, Real
<1>14. JobRight'
  BY <1>1, <1>2, <1>9 DEF Consistency, JobRight
<1>15. RowsRight'
  BY <1>1, <1>2, <1>9 DEF Consistency, RowsRight
<1>16. MessagesRight'
  <2> SUFFICES ASSUME NEW x \in 1..n + 1
               PROVE  LET q == reidQueue'[x]
                      IN  /\ \A t \in DOMAIN Renames(q) : t \in DOMAIN resolved /\ resolved[t] = Renames(q)[t]
                          /\ q.loiterers \subseteq q.tracks
                          /\ \A i \in q.tracks :
                                /\ entity[i] # "deleted" /\ i \notin job.todo
                                /\ \A k \in 1..x : i \notin DOMAIN Renames(reidQueue'[k])
                                /\ running /\ i \in DOMAIN resolved =>
                                      \E k \in 1..n + 1 : x < k /\ i \in DOMAIN Renames(reidQueue'[k])
    BY <1>1, <1>2, <1>6 DEF MessagesRight, InWire
  <2>1. CASE x \in 1..n
    <3>1. reidQueue'[x] = reidQueue[x] /\ \A k \in 1..x : k \in 1..n
      BY <1>6, <2>1
    <3>2. /\ \A t \in DOMAIN Renames(reidQueue[x]) :
                t \in DOMAIN resolved /\ resolved[t] = Renames(reidQueue[x])[t]
          /\ reidQueue[x].loiterers \subseteq reidQueue[x].tracks
      BY <1>6, <2>1 DEF Consistency, MessagesRight
    <3>3. ASSUME NEW i \in reidQueue[x].tracks
          PROVE  /\ entity[i] # "deleted" /\ i \notin job.todo
                 /\ \A k \in 1..x : i \notin DOMAIN Renames(reidQueue[k])
                 /\ running /\ i \in DOMAIN resolved =>
                        InWire(i) \/ \E k \in 1..n : x < k /\ i \in DOMAIN Renames(reidQueue[k])
      BY <1>6, <2>1, <3>3 DEF Consistency, MessagesRight
    <3>4. ASSUME NEW i \in reidQueue[x].tracks, running, i \in DOMAIN resolved
          PROVE  \E k \in 1..n + 1 : x < k /\ i \in DOMAIN Renames(reidQueue'[k])
      <4>1. CASE InWire(i)
        BY <1>4, <1>6, <1>7, <2>1, <4>1 DEF InWire
      <4>2. CASE ~InWire(i)
        BY <1>6, <1>7, <3>3, <3>4, <4>2
      <4> QED BY <4>1, <4>2
    <3>5. \A i \in reidQueue[x].tracks : \A k \in 1..x : i \notin DOMAIN Renames(reidQueue'[k])
      BY <1>6, <3>1, <3>3
    <3> QED BY <3>1, <3>2, <3>3, <3>4, <3>5
  <2>2. CASE x = n + 1
    <3>1. reidQueue'[x] = m
      BY <1>6, <2>2
    <3>2. \A i \in Tracks(wire) : i \notin DOMAIN resolved
      BY <1>1 DEF Consistency, WireFresh
    <3>3. \A i \in Tracks(wire) : entity[i] # "deleted" /\ i \notin job.todo
      <4>1. Tracks(wire) \subseteq Ids
        BY <1>4 DEF Messages
      <4> QED BY <3>2, <4>1 DEF Consistency, EntitiesRight, JobRight
    <3>4. \A i \in Tracks(wire) : \A k \in 1..n + 1 : i \notin DOMAIN Renames(reidQueue'[k])
      <4>1. \A k \in 1..n : \A t \in DOMAIN Renames(reidQueue[k]) : t \in DOMAIN resolved
        BY <1>6 DEF Consistency, MessagesRight
      <4> QED BY <1>4, <1>6, <1>7, <1>8, <3>2, <4>1
    <3> QED BY <1>4, <1>8, <2>2, <3>1, <3>2, <3>3, <3>4
  <2> QED BY <1>7, <2>1, <2>2
<1> QED BY <1>10, <1>11, <1>12, <1>13, <1>14, <1>15, <1>16 DEF Consistency

\* Reid is told to stop.
LEMMA StopReidStep ==
    ASSUME Typed, Consistency, StopReid
    PROVE  Typed' /\ Consistency'
<1>1. /\ ~running' /\ running' \in BOOLEAN /\ reidQueue' = <<>>
      /\ UNCHANGED <<wire, resolved, inbox, renamed, assocQueue, job, confirmed, entity, mapping, refs,
                     raised, failures, spoilt>>
  BY DEF StopReid, reidVars, rowVars, countVars
<1>2. <<>> \in Seq(Messages) /\ DOMAIN <<>> = {}
  OBVIOUS
<1>3. Typed'
  BY <1>1, <1>2 DEF Typed, Tables, Writing, Telling
<1>4. WireFresh' /\ EntitiesRight'
  BY <1>1 DEF Consistency, WireFresh, EntitiesRight, Tracks
<1>5. MessagesRight'
  BY <1>1, <1>2 DEF MessagesRight
<1>6. JobRight'
  BY <1>1 DEF Consistency, JobRight
<1>7. HalfRenamed'
  BY <1>1 DEF Consistency, HalfRenamed, Temp, Real
<1>8. RowsRight'
  BY <1>1 DEF Consistency, RowsRight
<1> QED BY <1>3, <1>4, <1>5, <1>6, <1>7, <1>8 DEF Consistency

-----------------------------------------------------------------------------
(* The steps of the database thread. *)

\* A message is about ids.
LEMMA TracksOfMessages ==
    ASSUME Writing
    PROVE  \A k \in DOMAIN reidQueue : reidQueue[k].tracks \subseteq Ids
<1>1. \A m \in Messages : m.tracks \subseteq Ids
  BY DEF Messages
<1>2. reidQueue \in Seq(Messages)
  BY DEF Writing
<1> QED BY <1>1, <1>2

\* It takes a message: the renames of that are its own now.
LEMMA TakeMessageStep ==
    ASSUME Typed, Consistency, TakeMessage
    PROVE  Typed' /\ Consistency'
<1> DEFINE h == Head(reidQueue)
           n == Len(reidQueue)
<1>1. UNCHANGED <<wire, resolved, running, inbox, renamed, assocQueue, confirmed, entity, mapping, refs,
                  raised, failures, spoilt>>
  BY DEF TakeMessage, reidVars, rowVars, countVars
<1>2. job.todo = {}
  BY DEF TakeMessage, Idle
<1>3. /\ reidQueue # <<>> /\ reidQueue' = Tail(reidQueue) /\ h \in Messages
      /\ job' \in Jobs /\ job'.pc \in {"idle", "rename"} /\ ~job'.pending
      /\ job'.todo = DOMAIN Renames(h) /\ job'.tracks = h.tracks /\ job'.loiterers = h.loiterers
      /\ \A t \in DOMAIN job'.updates : t \in DOMAIN Renames(h) /\ job'.updates[t] = Renames(h)[t]
      /\ job'.todo \subseteq DOMAIN job'.updates
  BY TakeMessageIs DEF Typed
<1>4. /\ reidQueue \in Seq(Messages) /\ reidQueue' \in Seq(Messages)
      /\ n \in Nat /\ n >= 1 /\ DOMAIN reidQueue = 1..n /\ DOMAIN reidQueue' = 1..n - 1
      /\ h = reidQueue[1] /\ 1 \in 1..n
      /\ \A k \in 1..n - 1 : k + 1 \in 1..n /\ reidQueue'[k] = reidQueue[k + 1]
      /\ \A k \in 1..n : k = 1 \/ (k - 1 \in 1..n - 1 /\ reidQueue'[k - 1] = reidQueue[k])
  BY <1>3 DEF Typed, Writing
<1> HIDE DEF n, h
<1>5. \A i : InWire(i)' = InWire(i)
  BY <1>1 DEF InWire, News
<1>6. \A i : Ahead(i) => Ahead(i)' \/ i \in job'.todo
  <2> SUFFICES ASSUME NEW i, Ahead(i), i \notin job'.todo PROVE Ahead(i)'
    OBVIOUS
  <2>1. CASE InWire(i)
    BY <1>5, <2>1 DEF Ahead
  <2>2. CASE \E k \in 1..n : i \in DOMAIN Renames(reidQueue[k])
    <3>1. PICK k \in 1..n : i \in DOMAIN Renames(reidQueue[k])
      BY <2>2
    <3>2. k # 1
      BY <1>3, <1>4, <3>1
    <3>3. k - 1 \in 1..n - 1 /\ i \in DOMAIN Renames(reidQueue'[k - 1])
      BY <1>4, <3>1, <3>2
    <3> QED BY <1>4, <3>3 DEF Ahead
  <2> QED BY <1>4, <2>1, <2>2 DEF Ahead
<1>7. Typed'
  BY <1>1, <1>3, <1>4 DEF Typed, Tables, Writing, Telling
<1>8. WireFresh' /\ EntitiesRight'
  BY <1>1 DEF Consistency, WireFresh, EntitiesRight
<1>9. HalfRenamed'
  BY <1>3 DEF HalfRenamed
<1>10. RowsRight'
  BY <1>1, <1>2, <1>6 DEF Consistency, RowsRight
<1>11. JobRight'
  <2>1. \A t \in DOMAIN Renames(h) : t \in DOMAIN resolved /\ resolved[t] = Renames(h)[t]
    BY <1>4 DEF Consistency, MessagesRight
  <2>2. h.loiterers \subseteq h.tracks
    BY <1>4 DEF Consistency, MessagesRight
  <2>3. ASSUME NEW i \in h.tracks
        PROVE  /\ entity[i] # "deleted" /\ i \notin DOMAIN Renames(h)
               /\ running /\ i \in DOMAIN resolved =>
                    InWire(i) \/ \E k \in 1..n : 1 < k /\ i \in DOMAIN Renames(reidQueue[k])
    <3>1. 1 \in 1..1
      OBVIOUS
    <3> QED BY <1>4, <2>3, <3>1 DEF Consistency, MessagesRight
  <2>4. ASSUME NEW i \in h.tracks, running, i \in DOMAIN resolved
        PROVE  Ahead(i)'
    <3>1. CASE InWire(i)
      BY <1>5, <3>1 DEF Ahead
    <3>2. CASE \E k \in 1..n : 1 < k /\ i \in DOMAIN Renames(reidQueue[k])
      BY <1>4, <3>2 DEF Ahead
    <3> QED BY <2>3, <2>4, <3>1, <3>2
  <2> QED BY <1>1, <1>3, <2>1, <2>2, <2>3, <2>4 DEF JobRight
<1>12. MessagesRight'
  <2> DEFINE Fine(x) ==
        /\ \A t \in DOMAIN Renames(reidQueue'[x]) :
              t \in DOMAIN resolved' /\ resolved'[t] = Renames(reidQueue'[x])[t]
        /\ reidQueue'[x].loiterers \subseteq reidQueue'[x].tracks
        /\ \A i \in reidQueue'[x].tracks :
              /\ entity'[i] # "deleted" /\ i \notin job'.todo
              /\ \A k \in 1..x : i \notin DOMAIN Renames(reidQueue'[k])
              /\ running' /\ i \in DOMAIN resolved' =>
                    \/ InWire(i)'
                    \/ \E k \in DOMAIN reidQueue' : x < k /\ i \in DOMAIN Renames(reidQueue'[k])
  <2> SUFFICES ASSUME NEW x \in 1..n - 1 PROVE Fine(x)
    BY <1>4 DEF MessagesRight
  <2>1. x + 1 \in 1..n
    BY <1>4
  <2>2. /\ \A t \in DOMAIN Renames(reidQueue[x + 1]) :
              t \in DOMAIN resolved /\ resolved[t] = Renames(reidQueue[x + 1])[t]
        /\ reidQueue[x + 1].loiterers \subseteq reidQueue[x + 1].tracks
    BY <1>4, <2>1 DEF Consistency, MessagesRight
  <2>3. ASSUME NEW i \in reidQueue[x + 1].tracks
        PROVE  /\ entity[i] # "deleted"
               /\ \A k \in 1..x + 1 : i \notin DOMAIN Renames(reidQueue[k])
               /\ running /\ i \in DOMAIN resolved =>
                      InWire(i) \/ \E k \in 1..n : x + 1 < k /\ i \in DOMAIN Renames(reidQueue[k])
    BY <1>4, <2>1, <2>3 DEF Consistency, MessagesRight
  <2>4. ASSUME NEW i \in reidQueue[x + 1].tracks
        PROVE  i \notin job'.todo
    <3>1. 1 \in 1..x + 1
      BY <1>4
    <3> QED BY <1>3, <1>4, <2>3, <2>4, <3>1
  <2>5. ASSUME NEW i \in reidQueue[x + 1].tracks, NEW k \in 1..x
        PROVE  i \notin DOMAIN Renames(reidQueue'[k])
    <3>1. k + 1 \in 1..x + 1 /\ k \in 1..n - 1
      BY <1>4
    <3> QED BY <1>4, <2>3, <2>5, <3>1
  <2>6. ASSUME NEW i \in reidQueue[x + 1].tracks, NEW k \in 1..n, x + 1 < k, i \in DOMAIN Renames(reidQueue[k])
        PROVE  \E l \in 1..n - 1 : x < l /\ i \in DOMAIN Renames(reidQueue'[l])
    <3>1. k - 1 \in 1..n - 1 /\ x < k - 1
      BY <1>4, <2>6
    <3> QED BY <1>4, <2>6, <3>1
  <2>7. reidQueue'[x] = reidQueue[x + 1]
    BY <1>4
  <2> QED BY <1>1, <1>4, <1>5, <2>2, <2>3, <2>4, <2>5, <2>6, <2>7
<1> QED BY <1>7, <1>8, <1>9, <1>10, <1>11, <1>12 DEF Consistency

\* It looks for the rows of a temporary id: without a row of its own there are none.
LEMMA FindRowsStep ==
    ASSUME Typed, Consistency, FindRows
    PROVE  Typed' /\ Consistency'
<1>1. UNCHANGED <<wire, resolved, running, inbox, renamed, reidQueue, assocQueue, confirmed, entity,
                  mapping, refs, raised, failures, spoilt>>
  BY DEF FindRows, reidVars, queueVars, rowVars, countVars
<1>2. PICK t \in job.todo :
        job' = IF entity[t] = "none" THEN Done(job, t)
               ELSE [job EXCEPT !.pc = "create", !.temp = t, !.rows = {r \in refs : r.to = t},
                                !.pending = TRUE]
  BY DEF FindRows
<1>3. job \in Jobs /\ job.todo \subseteq DOMAIN job.updates /\ t \in Temps
  <2>1. job \in Jobs
    BY DEF Typed, Writing
  <2> QED BY <2>1 DEF Jobs, Consistency, JobRight
<1>4. \A i : InWire(i)' = InWire(i) /\ Ahead(i)' = Ahead(i)
  BY <1>1 DEF InWire, Ahead, News
<1>5. WireFresh' /\ EntitiesRight'
  BY <1>1 DEF Consistency, WireFresh, EntitiesRight
<1>6. CASE entity[t] = "none"
  <2>1. /\ job' \in Jobs /\ job'.pc \in {"idle", "rename"} /\ ~job'.pending
        /\ job'.todo = job.todo \ {t} /\ job'.tracks = job.tracks /\ job'.loiterers = job.loiterers
        /\ \A x \in DOMAIN job'.updates : x \in DOMAIN job.updates /\ job'.updates[x] = job.updates[x]
        /\ job'.todo \subseteq DOMAIN job'.updates
    <3>1. job' = Done(job, t)
      BY <1>2, <1>6
    <3> QED BY <1>3, <3>1, DoneIs
  <2>2. Typed'
    BY <1>1, <2>1 DEF Typed, Tables, Writing, Telling
  <2>3. MessagesRight'
    BY <1>1, <1>4, <2>1 DEF Consistency, MessagesRight
  <2>4. JobRight'
    BY <1>1, <1>4, <2>1 DEF Consistency, JobRight
  <2>5. HalfRenamed'
    BY <2>1 DEF HalfRenamed
  <2>6. RowsRight'
    BY <1>1, <1>4, <1>6, <2>1 DEF Consistency, RowsRight
  <2> QED BY <1>5, <2>2, <2>3, <2>4, <2>5, <2>6 DEF Consistency
<1>7. CASE entity[t] # "none"
  <2> DEFINE rows == {r \in refs : r.to = t}
  <2>1. job' = [job EXCEPT !.pc = "create", !.temp = t, !.rows = rows, !.pending = TRUE]
    BY <1>2, <1>7
  <2>2. rows \in SUBSET Rows /\ rows \subseteq refs /\ \A r \in refs : r.to = t <=> r \in rows
    BY DEF Typed, Tables
  <2> HIDE DEF rows
  <2>3. job' \in Jobs
    <3>1. [job EXCEPT !.pc = "create", !.temp = t] \in Jobs
      BY <1>3 DEF Jobs
    <3>2. [job EXCEPT !.pc = "create", !.temp = t, !.rows = rows] \in Jobs
      BY <2>2, <3>1 DEF Jobs
    <3> QED BY <2>1, <3>2 DEF Jobs
  <2>4. /\ job'.pc = "create" /\ job'.temp = t /\ job'.rows = rows /\ job'.pending
        /\ job'.todo = job.todo /\ job'.tracks = job.tracks /\ job'.loiterers = job.loiterers
        /\ job'.updates = job.updates
    BY <1>3, <2>1 DEF Jobs
  <2>5. Typed'
    BY <1>1, <2>3 DEF Typed, Tables, Writing, Telling
  <2>6. MessagesRight'
    BY <1>1, <1>4, <2>4 DEF Consistency, MessagesRight
  <2>7. JobRight'
    BY <1>1, <1>4, <2>4 DEF Consistency, JobRight
  <2>8. HalfRenamed'
    BY <1>1, <1>2, <2>2, <2>4 DEF HalfRenamed, Temp
  <2>9. RowsRight'
    BY <1>1, <1>4, <2>4 DEF Consistency, RowsRight
  <2> QED BY <1>5, <2>5, <2>6, <2>7, <2>8, <2>9 DEF Consistency
<1> QED BY <1>6, <1>7

\* What is committed refers to the real id now, and of reid's nothing to the temporary one.
LEMMA Rewritten ==
    ASSUME Identities, Typed, Consistency, job.pc \in {"create", "delete"}, CommitPending,
           NEW r \in refs'
    PROVE  \/ r \in refs /\ ~(job.pending /\ r.by = "reid" /\ r.to = Temp)
           \/ job.pending /\ r.born = Temp /\ r.to = Real
<1>1. /\ Temp \in Temps /\ Real \in Reals /\ Real \in Ids /\ job \in Jobs
  BY RealIs DEF Typed, Writing, Consistency
<1>2. /\ ~job.pending => refs' = refs
      /\ job.pending => refs' = (refs \ job.rows) \cup {[q EXCEPT !.to = Real] : q \in job.rows}
  BY <1>1, CommitIs DEF Typed
<1>3. CASE ~job.pending
  BY <1>2, <1>3
<1>4. CASE job.pending /\ r \in refs \ job.rows
  BY <1>4 DEF Consistency, HalfRenamed
<1>5. CASE job.pending /\ r \in {[q EXCEPT !.to = Real] : q \in job.rows}
  <2>1. PICK q \in job.rows : r = [q EXCEPT !.to = Real]
    BY <1>5
  <2>2. q \in refs /\ q \in Rows /\ q.to = Temp
    BY <1>5, <2>1 DEF Consistency, HalfRenamed, Typed, Tables
  <2>3. r.to = Real /\ r.born = q.born
    BY <2>1, <2>2 DEF Rows
  <2>4. q.to = q.born
    <3>1. q.to = q.born \/ (q.born \in DOMAIN resolved /\ q.to = resolved[q.born])
      BY <2>2 DEF Consistency, RowsRight
    <3>2. q.born \in DOMAIN resolved => resolved[q.born] \in Reals
      BY Value DEF Identities
    <3> QED BY <1>1, <2>2, <3>1, <3>2, Disjoint
  <2> QED BY <1>5, <2>2, <2>3, <2>4
<1> QED BY <1>2, <1>3, <1>4, <1>5

\* It sees to the row of the real id.
LEMMA CreateRealStep ==
    ASSUME Identities, Typed, Consistency, CreateReal
    PROVE  Typed' /\ Consistency'
<1>1. /\ UNCHANGED <<wire, resolved, running, inbox, renamed, reidQueue, assocQueue, raised>>
      /\ job.pc = "create"
  BY DEF CreateReal, reidVars, queueVars
<1>2. /\ Temp \in job.todo /\ Temp \in Temps /\ Real \in Reals /\ Temp # Real
      /\ Temp \in Ids /\ Real \in Ids /\ Real \notin Temps /\ job \in Jobs /\ job.pending
      /\ Temp \in DOMAIN resolved /\ resolved[Temp] = Real
  BY <1>1, RealIs DEF Typed, Writing, Consistency, HalfRenamed
<1>3. DOMAIN resolved \subseteq Temps
  BY PartialIs DEF Identities
<1>4. \A i : InWire(i)' = InWire(i) /\ Ahead(i)' = Ahead(i)
  BY <1>1 DEF InWire, Ahead, News
<1>5. WireFresh'
  BY <1>1 DEF Consistency, WireFresh
<1>6. /\ entity \in [Ids -> {"none", "live", "deleted"}] /\ confirmed \subseteq Ids /\ spoilt \subseteq Ids
      /\ failures \in 0..MaxFailures
  BY DEF Typed, Tables
<1>7. CASE entity[Real] # "none"
  <2>1. job' = [job EXCEPT !.pc = "delete"] /\ UNCHANGED <<confirmed, entity, mapping, refs, failures, spoilt>>
    BY <1>7 DEF CreateReal
  <2>2. /\ job' \in Jobs /\ job'.pc = "delete" /\ job'.temp = job.temp /\ job'.rows = job.rows
        /\ job'.pending /\ job'.todo = job.todo /\ job'.tracks = job.tracks
        /\ job'.loiterers = job.loiterers /\ job'.updates = job.updates
    BY <1>2, <2>1 DEF Jobs
  <2>3. entity[Real] = "live"
    BY <1>2, <1>3, <1>6, <1>7 DEF Consistency, EntitiesRight
  <2>4. Typed'
    BY <1>1, <2>1, <2>2 DEF Typed, Tables, Writing, Telling
  <2>5. MessagesRight'
    BY <1>1, <1>4, <2>1, <2>2 DEF Consistency, MessagesRight
  <2>6. JobRight'
    BY <1>1, <1>4, <2>1, <2>2 DEF Consistency, JobRight
  <2>7. HalfRenamed'
    <3>1. Temp' = Temp /\ Real' = Real
      BY <2>2 DEF Temp, Real
    <3> QED BY <1>2, <2>1, <2>2, <2>3, <3>1 DEF Consistency, HalfRenamed
  <2>8. RowsRight'
    BY <1>1, <1>4, <2>1, <2>2 DEF Consistency, RowsRight
  <2>9. EntitiesRight'
    BY <1>1, <2>1 DEF Consistency, EntitiesRight
  <2> QED BY <1>5, <2>4, <2>5, <2>6, <2>7, <2>8, <2>9 DEF Consistency
<1>8. CASE entity[Real] = "none"
  <2>1. /\ job' = [job EXCEPT !.pc = "delete", !.pending = FALSE, !.rows = {}]
        /\ confirmed' = confirmed \cup {Real}
        /\ \/ /\ CommitPending
              /\ entity' = [entity EXCEPT ![Real] = "live"]
              /\ UNCHANGED <<failures, spoilt>>
           \/ Fail({Temp, Real})
    BY <1>8 DEF CreateReal
  <2>2. /\ job' \in Jobs /\ job'.pc = "delete" /\ job'.temp = job.temp /\ job'.rows = {}
        /\ ~job'.pending /\ job'.todo = job.todo /\ job'.tracks = job.tracks
        /\ job'.loiterers = job.loiterers /\ job'.updates = job.updates
    <3>1. [job EXCEPT !.pc = "delete", !.pending = FALSE] \in Jobs
      BY <1>2 DEF Jobs
    <3> QED BY <1>2, <2>1, <3>1 DEF Jobs
  <2>3. Temp' = Temp /\ Real' = Real
    BY <2>2 DEF Temp, Real
  <2>4. CASE Fail({Temp, Real})
    <3>1. /\ spoilt' = spoilt \cup {Temp, Real} /\ failures' = failures + 1 /\ failures < MaxFailures
          /\ UNCHANGED <<refs, mapping, entity>>
      BY <2>4 DEF Fail
    <3>2. failures' \in 0..MaxFailures
      BY <1>6, <3>1, RecordsAssumption
    <3>3. Typed'
      BY <1>1, <1>2, <1>6, <2>1, <2>2, <3>1, <3>2 DEF Typed, Tables, Writing, Telling
    <3>4. MessagesRight'
      BY <1>1, <1>4, <2>2, <3>1 DEF Consistency, MessagesRight
    <3>5. JobRight'
      BY <1>1, <1>4, <2>2, <3>1 DEF Consistency, JobRight
    <3>6. HalfRenamed'
      BY <1>2, <2>2, <2>3, <3>1 DEF HalfRenamed, Temp
    <3>7. RowsRight'
      BY <1>1, <1>4, <2>2, <3>1 DEF Consistency, RowsRight
    <3>8. EntitiesRight'
      BY <1>1, <2>1, <3>1 DEF Consistency, EntitiesRight
    <3> QED BY <1>5, <3>3, <3>4, <3>5, <3>6, <3>7, <3>8 DEF Consistency
  <2>5. CASE CommitPending /\ entity' = [entity EXCEPT ![Real] = "live"] /\ UNCHANGED <<failures, spoilt>>
    <3>1. /\ refs' \subseteq Rows /\ mapping' \in Partial(Temps, Reals)
          /\ DOMAIN mapping' = DOMAIN mapping \cup {Temp} /\ mapping'[Temp] = Real
          /\ \A t \in DOMAIN mapping \ {Temp} : mapping'[t] = mapping[t]
      BY <1>2, <2>5, CommitIs DEF Typed
    <3>2. /\ entity' \in [Ids -> {"none", "live", "deleted"}] /\ entity'[Real] = "live"
          /\ \A i \in Ids \ {Real} : entity'[i] = entity[i]
      BY <1>2, <1>6, <2>5
    <3>3. \A r \in refs' :
            \/ r \in refs /\ ~(r.by = "reid" /\ r.to = Temp)
            \/ r.born = Temp /\ r.to = Real
      BY <1>1, <1>2, <2>5, Rewritten
    <3>4. Typed'
      BY <1>1, <1>2, <1>6, <2>1, <2>2, <2>5, <3>1, <3>2 DEF Typed, Tables, Writing, Telling
    <3>5. MessagesRight'
      <4>1. \A k \in DOMAIN reidQueue : reidQueue[k].tracks \subseteq Ids
        BY TracksOfMessages DEF Typed
      <4> QED BY <1>1, <1>4, <2>2, <3>2, <4>1 DEF Consistency, MessagesRight
    <3>6. JobRight'
      <4>1. job.tracks \subseteq Ids /\ job.loiterers \subseteq Ids
        BY <1>2, Disjoint DEF Jobs
      <4> QED BY <1>1, <1>4, <2>2, <2>5, <3>2, <4>1 DEF Consistency, JobRight
    <3>7. HalfRenamed'
      BY <1>2, <2>2, <2>3, <3>1, <3>2, <3>3 DEF HalfRenamed, Temp
    <3>8. EntitiesRight'
      <4>1. ASSUME NEW i \in Ids, entity'[i] = "deleted"
            PROVE  i \in DOMAIN resolved /\ (i \in spoilt \/ (i \in DOMAIN mapping' /\ entity'[mapping'[i]] = "live"))
        <5>1. /\ entity[i] = "deleted" /\ i \in DOMAIN resolved
              /\ i \in spoilt \/ (i \in DOMAIN mapping /\ entity[mapping[i]] = "live")
          BY <3>2, <4>1 DEF Consistency, EntitiesRight
        <5>2. i \in DOMAIN mapping => mapping[i] \in Ids
          BY Value, Disjoint DEF Typed, Tables
        <5> QED BY <3>1, <3>2, <5>1, <5>2
      <4>2. \A i \in confirmed' : entity'[i] # "none" \/ i \in spoilt
        BY <1>6, <2>1, <3>2 DEF Consistency, EntitiesRight
      <4> QED BY <1>1, <2>5, <4>1, <4>2 DEF EntitiesRight
    <3>9. RowsRight'
      <4> DEFINE Good(r) ==
            /\ r.to = r.born \/ (r.born \in DOMAIN resolved' /\ r.to = resolved'[r.born])
            /\ r.by = "reid" =>
                  /\ r.to \in spoilt' \/ entity'[r.to] = "live"
                  /\ running' /\ r.to \in DOMAIN resolved' =>
                         r.to \in spoilt' \/ r.to \in job'.todo \/ Ahead(r.to)'
      <4>1. ASSUME NEW r \in refs', r \in refs PROVE Good(r)
        <5>1. r.to \in Ids
          BY <4>1 DEF Typed, Tables, Rows
        <5> QED BY <1>1, <1>4, <2>2, <2>5, <3>2, <4>1, <5>1 DEF Consistency, RowsRight
      <4>2. ASSUME NEW r \in refs', r.born = Temp, r.to = Real PROVE Good(r)
        BY <1>1, <1>2, <1>3, <3>2, <4>2
      <4>3. \A r \in refs' : Good(r)
        <5> HIDE DEF Good
        <5> QED BY <3>3, <4>1, <4>2
      <4> QED BY <4>3 DEF RowsRight
    <3> QED BY <1>5, <3>4, <3>5, <3>6, <3>7, <3>8, <3>9 DEF Consistency
  <2> QED BY <2>1, <2>4, <2>5
<1> QED BY <1>7, <1>8

\* It deletes the row of the temporary id, whose rows are rewritten by then, or with this.
LEMMA DeleteTempStep ==
    ASSUME Identities, Typed, Consistency, DeleteTemp
    PROVE  Typed' /\ Consistency'
<1>1. /\ UNCHANGED <<wire, resolved, running, inbox, renamed, reidQueue, assocQueue, raised>>
      /\ job.pc = "delete" /\ confirmed' = confirmed \ {Temp} /\ job' = Done(job, Temp)
  BY DEF DeleteTemp, reidVars, queueVars
<1>2. /\ Temp \in job.todo /\ Temp \in Temps /\ Real \in Reals /\ Temp # Real
      /\ Temp \in Ids /\ Real \in Ids /\ Real \notin Temps /\ job \in Jobs
      /\ Temp \in DOMAIN resolved /\ resolved[Temp] = Real
  BY <1>1, RealIs DEF Typed, Writing, Consistency
<1>3. DOMAIN resolved \subseteq Temps
  BY PartialIs DEF Identities
<1>4. \A i : InWire(i)' = InWire(i) /\ Ahead(i)' = Ahead(i)
  BY <1>1 DEF InWire, Ahead, News
<1>5. WireFresh'
  BY <1>1 DEF Consistency, WireFresh
<1>6. /\ entity \in [Ids -> {"none", "live", "deleted"}] /\ confirmed \subseteq Ids /\ spoilt \subseteq Ids
      /\ failures \in 0..MaxFailures
  BY DEF Typed, Tables
<1>7. /\ job' \in Jobs /\ job'.pc \in {"idle", "rename"} /\ ~job'.pending
      /\ job'.todo = job.todo \ {Temp} /\ job'.tracks = job.tracks /\ job'.loiterers = job.loiterers
      /\ \A x \in DOMAIN job'.updates : x \in DOMAIN job.updates /\ job'.updates[x] = job.updates[x]
      /\ job'.todo \subseteq DOMAIN job'.updates
  BY <1>1, <1>2, DoneIs DEF Consistency, JobRight
<1>8. /\ job.tracks \subseteq Ids /\ job.loiterers \subseteq Ids
      /\ \A k \in DOMAIN reidQueue : reidQueue[k].tracks \subseteq Ids
  BY <1>2, Disjoint, TracksOfMessages DEF Jobs, Typed
<1>9. HalfRenamed'
  BY <1>7 DEF HalfRenamed
<1>10. CASE Fail({Temp})
  <2>1. /\ spoilt' = spoilt \cup {Temp} /\ failures' = failures + 1 /\ failures < MaxFailures
        /\ UNCHANGED <<refs, mapping, entity>>
    BY <1>10 DEF Fail
  <2>2. failures' \in 0..MaxFailures
    BY <1>6, <2>1, RecordsAssumption
  <2>3. Typed'
    BY <1>1, <1>2, <1>6, <1>7, <2>1, <2>2 DEF Typed, Tables, Writing, Telling
  <2>4. MessagesRight'
    BY <1>1, <1>4, <1>7, <2>1 DEF Consistency, MessagesRight
  <2>5. JobRight'
    BY <1>1, <1>4, <1>7, <2>1 DEF Consistency, JobRight
  <2>6. RowsRight'
    BY <1>1, <1>4, <1>7, <2>1 DEF Consistency, RowsRight
  <2>7. EntitiesRight'
    BY <1>1, <2>1 DEF Consistency, EntitiesRight
  <2> QED BY <1>5, <1>9, <2>3, <2>4, <2>5, <2>6, <2>7 DEF Consistency
<1>11. CASE CommitPending /\ entity' = [entity EXCEPT ![Temp] = "deleted"] /\ UNCHANGED <<failures, spoilt>>
  <2>1. /\ refs' \subseteq Rows /\ mapping' \in Partial(Temps, Reals)
        /\ ~job.pending => UNCHANGED <<refs, mapping>>
        /\ job.pending =>
              /\ DOMAIN mapping' = DOMAIN mapping \cup {Temp} /\ mapping'[Temp] = Real
              /\ \A t \in DOMAIN mapping \ {Temp} : mapping'[t] = mapping[t]
    BY <1>2, <1>11, CommitIs DEF Typed
  <2>2. /\ entity' \in [Ids -> {"none", "live", "deleted"}] /\ entity'[Temp] = "deleted"
        /\ \A i \in Ids \ {Temp} : entity'[i] = entity[i]
    BY <1>2, <1>6, <1>11
  <2>3. \A r \in refs' :
          \/ r \in refs /\ ~(job.pending /\ r.by = "reid" /\ r.to = Temp)
          \/ job.pending /\ r.born = Temp /\ r.to = Real
    BY <1>1, <1>11, Rewritten
  <2>4. /\ job.pending => entity[Real] = "live"
        /\ ~job.pending /\ Temp \notin spoilt =>
              /\ Temp \in DOMAIN mapping /\ entity[mapping[Temp]] = "live"
              /\ \A r \in refs : r.by = "reid" => r.to # Temp
    BY <1>1 DEF Consistency, HalfRenamed
  <2>5. Typed'
    BY <1>1, <1>2, <1>6, <1>7, <1>11, <2>1, <2>2 DEF Typed, Tables, Writing, Telling
  <2>6. MessagesRight'
    BY <1>1, <1>2, <1>4, <1>7, <1>8, <2>2 DEF Consistency, MessagesRight
  <2>7. JobRight'
    BY <1>1, <1>2, <1>4, <1>7, <1>8, <1>11, <2>2 DEF Consistency, JobRight
  <2>8. EntitiesRight'
    <3>1. \A i \in DOMAIN mapping : mapping[i] \in Ids /\ mapping[i] # Temp
      BY <1>2, Value, Disjoint DEF Typed, Tables
    <3>2. ASSUME NEW i \in Ids \ {Temp}, entity'[i] = "deleted"
          PROVE  i \in DOMAIN resolved /\ (i \in spoilt \/ (i \in DOMAIN mapping' /\ entity'[mapping'[i]] = "live"))
      <4>1. /\ entity[i] = "deleted" /\ i \in DOMAIN resolved
            /\ i \in spoilt \/ (i \in DOMAIN mapping /\ entity[mapping[i]] = "live")
        BY <2>2, <3>2 DEF Consistency, EntitiesRight
      <4> QED BY <2>1, <2>2, <3>1, <3>2, <4>1
    <3>3. Temp \in spoilt \/ (Temp \in DOMAIN mapping' /\ entity'[mapping'[Temp]] = "live")
      <4>1. CASE job.pending
        BY <1>2, <2>1, <2>2, <2>4, <4>1
      <4>2. CASE ~job.pending
        BY <2>1, <2>2, <2>4, <3>1, <4>2
      <4> QED BY <4>1, <4>2
    <3>4. \A i \in confirmed' : entity'[i] # "none" \/ i \in spoilt
      BY <1>1, <1>6, <2>2 DEF Consistency, EntitiesRight
    <3> QED BY <1>1, <1>2, <1>11, <3>2, <3>3, <3>4 DEF EntitiesRight
  <2>9. RowsRight'
    <3> DEFINE Good(r) ==
          /\ r.to = r.born \/ (r.born \in DOMAIN resolved' /\ r.to = resolved'[r.born])
          /\ r.by = "reid" =>
                /\ r.to \in spoilt' \/ entity'[r.to] = "live"
                /\ running' /\ r.to \in DOMAIN resolved' =>
                       r.to \in spoilt' \/ r.to \in job'.todo \/ Ahead(r.to)'
    <3>1. ASSUME NEW r \in refs', r \in refs, ~(job.pending /\ r.by = "reid" /\ r.to = Temp) PROVE Good(r)
      <4>1. /\ r.to \in Ids
            /\ r.by = "reid" /\ r.to = Temp => Temp \in spoilt
        BY <2>4, <3>1 DEF Typed, Tables, Rows
      <4> QED BY <1>1, <1>4, <1>7, <1>11, <2>2, <3>1, <4>1 DEF Consistency, RowsRight
    <3>2. ASSUME NEW r \in refs', job.pending, r.born = Temp, r.to = Real PROVE Good(r)
      BY <1>1, <1>2, <1>3, <2>2, <2>4, <3>2
    <3>3. \A r \in refs' : Good(r)
      <4> HIDE DEF Good
      <4> QED BY <2>3, <3>1, <3>2
    <3> QED BY <3>3 DEF RowsRight
  <2> QED BY <1>5, <1>9, <2>5, <2>6, <2>7, <2>8, <2>9 DEF Consistency
<1> QED BY <1>10, <1>11 DEF DeleteTemp

\* A row that names an id as it is, and whose renaming is yet to come.
LEMMA NewRow ==
    ASSUME Identities, Typed, NEW i \in Ids, Row("reid", 0, i) \in Rows,
           refs' = refs \/ refs' = refs \cup {Row("reid", 0, i)},
           RowsRight, UNCHANGED <<resolved, running>>, \A x : Ahead(x)' = Ahead(x),
           job.todo = {}, job'.todo = {}, spoilt \subseteq spoilt',
           \A x \in Ids : entity[x] = "live" => entity'[x] = "live",
           i \in spoilt' \/ entity'[i] = "live", running /\ i \in DOMAIN resolved => Ahead(i)
    PROVE  RowsRight'
<1> DEFINE row == Row("reid", 0, i)
           Good(r) ==
             /\ r.to = r.born \/ (r.born \in DOMAIN resolved' /\ r.to = resolved'[r.born])
             /\ r.by = "reid" =>
                   /\ r.to \in spoilt' \/ entity'[r.to] = "live"
                   /\ running' /\ r.to \in DOMAIN resolved' =>
                          r.to \in spoilt' \/ r.to \in job'.todo \/ Ahead(r.to)'
<1>1. row.to = i /\ row.born = i
  BY DEF Row
<1>2. Good(row)
  BY <1>1
<1>3. ASSUME NEW r \in refs PROVE Good(r)
  <2>1. r.to \in Ids
    BY <1>3 DEF Typed, Tables, Rows
  <2> QED BY <1>3, <2>1 DEF RowsRight
<1>4. \A r \in refs' : Good(r)
  <2> HIDE DEF Good
  <2> QED BY <1>2, <1>3
<1> QED BY <1>4 DEF RowsRight

\* It writes about a track, after its row if that is not there.
LEMMA WriteTrackStep ==
    ASSUME Identities, Typed, Consistency, WriteTrack
    PROVE  Typed' /\ Consistency'
<1>1. /\ UNCHANGED <<wire, resolved, running, inbox, renamed, reidQueue, assocQueue, mapping, raised>>
      /\ job.pc = "rename" /\ job.todo = {}
  BY DEF WriteTrack, reidVars, queueVars
<1>2. PICK i \in job.tracks :
        /\ \E failed \in {{}, {"row"}} \cup {{"entity"} : x \in {i} \ confirmed} :
              /\ entity' = IF (i \notin confirmed /\ entity[i] = "none") /\ "entity" \notin failed
                           THEN [entity EXCEPT ![i] = "live"] ELSE entity
              /\ refs' = IF "row" \in failed THEN refs ELSE refs \cup {Row("reid", 0, i)}
              /\ failures + Cardinality(failed) <= MaxFailures
              /\ failures' = failures + Cardinality(failed)
              /\ spoilt' = IF failed = {} THEN spoilt ELSE spoilt \cup {i}
        /\ confirmed' = confirmed \cup {i}
        /\ job' = Rest([job EXCEPT !.tracks = @ \ {i}])
  BY DEF WriteTrack
<1>3. PICK failed \in {{}, {"row"}} \cup {{"entity"} : x \in {i} \ confirmed} :
        /\ entity' = IF (i \notin confirmed /\ entity[i] = "none") /\ "entity" \notin failed
                     THEN [entity EXCEPT ![i] = "live"] ELSE entity
        /\ refs' = IF "row" \in failed THEN refs ELSE refs \cup {Row("reid", 0, i)}
        /\ failures + Cardinality(failed) <= MaxFailures
        /\ failures' = failures + Cardinality(failed)
        /\ spoilt' = IF failed = {} THEN spoilt ELSE spoilt \cup {i}
  BY <1>2
<1>4. job \in Jobs /\ i \in Ids /\ job.tracks \subseteq Ids /\ job.loiterers \subseteq Ids
  <2>1. job \in Jobs
    BY DEF Typed, Writing
  <2> QED BY <2>1, Disjoint DEF Jobs
<1>5. /\ entity \in [Ids -> {"none", "live", "deleted"}] /\ confirmed \subseteq Ids /\ spoilt \subseteq Ids
      /\ failures \in Nat /\ refs \subseteq Rows
  BY DEF Typed, Tables
<1>6. \A x : InWire(x)' = InWire(x) /\ Ahead(x)' = Ahead(x)
  BY <1>1 DEF InWire, Ahead, News
<1>7. /\ job' \in Jobs /\ job'.pc \in {"idle", "rename"} /\ ~job'.pending /\ job'.todo = {}
      /\ job'.tracks = job.tracks \ {i} /\ job'.loiterers = job.loiterers
      /\ \A x \in DOMAIN job'.updates : x \in DOMAIN job.updates /\ job'.updates[x] = job.updates[x]
  <2> DEFINE j == [job EXCEPT !.tracks = @ \ {i}]
  <2>1. j \in Jobs
    BY <1>4 DEF Jobs
  <2>2. /\ j.pc = "rename" /\ ~j.pending /\ j.todo = {} /\ j.tracks = job.tracks \ {i}
        /\ j.loiterers = job.loiterers /\ j.updates = job.updates
    BY <1>1, <1>4 DEF Jobs, Consistency, HalfRenamed
  <2>3. job' = Rest(j)
    BY <1>2
  <2> HIDE DEF j
  <2> QED BY <2>1, <2>2, <2>3, RestIs
<1>8. entity[i] # "deleted" /\ (running /\ i \in DOMAIN resolved => Ahead(i))
  BY <1>2 DEF Consistency, JobRight
<1>9. /\ entity' \in [Ids -> {"none", "live", "deleted"}] /\ spoilt \subseteq spoilt'
      /\ spoilt' \subseteq Ids
      /\ \A x \in Ids \ {i} : entity'[x] = entity[x]
      /\ entity'[i] = "live" \/ entity'[i] = entity[i]
  BY <1>3, <1>4, <1>5
<1>10. i \in spoilt' \/ entity'[i] = "live"
  <2>1. CASE i \notin confirmed /\ entity[i] = "none"
    BY <1>3, <1>4, <1>5, <2>1
  <2>2. CASE entity[i] # "none"
    BY <1>4, <1>5, <1>8, <1>9, <2>2
  <2>3. CASE i \in confirmed /\ entity[i] = "none"
    BY <1>9, <2>3 DEF Consistency, EntitiesRight
  <2> QED BY <2>1, <2>2, <2>3
<1>11. Row("reid", 0, i) \in Rows
  BY <1>4 DEF Row, Rows
<1>12. Typed'
  <2>1. Cardinality(failed) \in Nat
    <3>1. failed = {} \/ failed = {"row"} \/ failed = {"entity"}
      OBVIOUS
    <3> QED BY <3>1, FS_EmptySet, FS_Singleton
  <2>2. failures' \in 0..MaxFailures
    BY <1>3, <1>5, <2>1, RecordsAssumption
  <2>3. refs' \subseteq Rows
    BY <1>3, <1>5, <1>11
  <2> QED BY <1>1, <1>2, <1>4, <1>5, <1>7, <1>9, <2>2, <2>3 DEF Typed, Tables, Writing, Telling
<1>13. WireFresh'
  BY <1>1 DEF Consistency, WireFresh
<1>14. MessagesRight'
  <2>1. \A k \in DOMAIN reidQueue : reidQueue[k].tracks \subseteq Ids
    BY TracksOfMessages DEF Typed
  <2> QED BY <1>1, <1>6, <1>7, <1>8, <1>9, <2>1 DEF Consistency, MessagesRight
<1>15. JobRight'
  BY <1>1, <1>4, <1>6, <1>7, <1>8, <1>9, <1>10 DEF Consistency, JobRight
<1>16. HalfRenamed'
  BY <1>7 DEF HalfRenamed
<1>17. EntitiesRight'
  <2>1. ASSUME NEW x \in Ids, entity'[x] = "deleted"
        PROVE  x \in DOMAIN resolved /\ (x \in spoilt' \/ (x \in DOMAIN mapping /\ entity'[mapping[x]] = "live"))
    <3>1. /\ entity[x] = "deleted" /\ x \in DOMAIN resolved
          /\ x \in spoilt \/ (x \in DOMAIN mapping /\ entity[mapping[x]] = "live")
      BY <1>8, <1>9, <2>1 DEF Consistency, EntitiesRight
    <3>2. x \in DOMAIN mapping => mapping[x] \in Ids
      BY Value, Disjoint DEF Typed, Tables
    <3> QED BY <1>9, <3>1, <3>2
  <2>2. \A x \in confirmed' : entity'[x] # "none" \/ x \in spoilt'
    BY <1>2, <1>5, <1>9, <1>10 DEF Consistency, EntitiesRight
  <2> QED BY <1>1, <2>1, <2>2 DEF EntitiesRight
<1>18. RowsRight'
  BY <1>1, <1>3, <1>4, <1>6, <1>7, <1>8, <1>9, <1>10, <1>11, NewRow DEF Consistency
<1> QED BY <1>12, <1>13, <1>14, <1>15, <1>16, <1>17, <1>18 DEF Consistency

\* It writes the incident of a loiterer, whose row was written before, when it was shown.
LEMMA WriteLoitererStep ==
    ASSUME Identities, Typed, Consistency, WriteLoiterer
    PROVE  Typed' /\ Consistency'
<1>1. /\ UNCHANGED <<wire, resolved, running, inbox, renamed, reidQueue, assocQueue, confirmed, entity,
                     mapping, raised, failures, spoilt>>
      /\ job.pc = "rename" /\ job.todo = {} /\ job.tracks = {}
  BY DEF WriteLoiterer, reidVars, queueVars, countVars
<1>2. PICK i \in job.loiterers :
        /\ InsertNumbered({Row("reid", 0, i)})
        /\ job' = Rest([job EXCEPT !.loiterers = @ \ {i}])
  BY DEF WriteLoiterer
<1>3. refs' = refs \/ refs' = refs \cup {Row("reid", 0, i)}
  BY <1>2 DEF InsertNumbered
<1>4. job \in Jobs /\ i \in Ids /\ i \in Reals /\ i \notin Temps
  <2>1. job \in Jobs
    BY DEF Typed, Writing
  <2> QED BY <2>1, Disjoint DEF Jobs
<1>5. \A x : InWire(x)' = InWire(x) /\ Ahead(x)' = Ahead(x)
  BY <1>1 DEF InWire, Ahead, News
<1>6. /\ job' \in Jobs /\ job'.pc \in {"idle", "rename"} /\ ~job'.pending /\ job'.todo = {}
      /\ job'.tracks = {} /\ job'.loiterers = job.loiterers \ {i}
      /\ \A x \in DOMAIN job'.updates : x \in DOMAIN job.updates /\ job'.updates[x] = job.updates[x]
  <2> DEFINE j == [job EXCEPT !.loiterers = @ \ {i}]
  <2>1. j \in Jobs
    BY <1>4 DEF Jobs
  <2>2. /\ j.pc = "rename" /\ ~j.pending /\ j.todo = {} /\ j.tracks = {}
        /\ j.loiterers = job.loiterers \ {i} /\ j.updates = job.updates
    BY <1>1, <1>4 DEF Jobs, Consistency, HalfRenamed
  <2>3. job' = Rest(j)
    BY <1>2
  <2> HIDE DEF j
  <2> QED BY <2>1, <2>2, <2>3, RestIs
<1>7. i \notin DOMAIN resolved
  BY <1>4, PartialIs DEF Identities
<1>8. i \in spoilt \/ entity[i] = "live"
  <2>1. entity[i] # "none" \/ i \in spoilt
    BY <1>1 DEF Consistency, JobRight
  <2>2. entity[i] # "deleted"
    BY <1>4, <1>7 DEF Consistency, EntitiesRight
  <2>3. entity[i] \in {"none", "live", "deleted"}
    BY <1>4 DEF Typed, Tables
  <2> QED BY <2>1, <2>2, <2>3
<1>9. Row("reid", 0, i) \in Rows
  BY <1>4 DEF Row, Rows
<1>10. Typed'
  <2>1. refs' \subseteq Rows
    BY <1>3, <1>9 DEF Typed, Tables
  <2> QED BY <1>1, <1>6, <2>1 DEF Typed, Tables, Writing, Telling
<1>11. WireFresh' /\ EntitiesRight'
  BY <1>1 DEF Consistency, WireFresh, EntitiesRight
<1>12. MessagesRight'
  BY <1>1, <1>5, <1>6 DEF Consistency, MessagesRight
<1>13. JobRight'
  BY <1>1, <1>6 DEF Consistency, JobRight
<1>14. HalfRenamed'
  BY <1>6 DEF HalfRenamed
<1>15. RowsRight'
  BY <1>1, <1>3, <1>4, <1>5, <1>6, <1>7, <1>8, <1>9, NewRow DEF Consistency
<1> QED BY <1>10, <1>11, <1>12, <1>13, <1>14, <1>15 DEF Consistency

-----------------------------------------------------------------------------
\* There are no rows at first.
LEMMA RowsBeginning ==
    RecordsInit => Typed /\ Consistency
<1> SUFFICES ASSUME RecordsInit PROVE Typed /\ Consistency
  OBVIOUS
<1>1. Idle \in Jobs
  <2>1. <<>> \in Partial(Temps, Reals)
    BY Nothing
  <2> QED BY <2>1 DEF Idle, Jobs
<1>2. /\ Idle.pc = "idle" /\ ~Idle.pending /\ Idle.todo = {} /\ Idle.tracks = {} /\ Idle.loiterers = {}
      /\ DOMAIN Idle.updates = {}
  BY Nothing DEF Idle
<1>3. /\ wire = NoFrame /\ running = TRUE /\ inbox = <<>> /\ renamed = <<>> /\ reidQueue = <<>>
      /\ assocQueue = <<>> /\ job = Idle /\ confirmed = {} /\ entity = [i \in Ids |-> "none"]
      /\ mapping = <<>> /\ refs = {} /\ raised = [process \in {"association", "anomaly"} |-> 0]
      /\ failures = 0 /\ spoilt = {}
  BY DEF RecordsInit, ReidInit
<1>4. <<>> \in Partial(Temps, Reals) /\ <<>> \in Seq(Messages) /\ <<>> \in Seq(Frame) /\ DOMAIN <<>> = {}
      /\ Len(<<>>) = 0
  BY Nothing
<1>5. Tables
  BY <1>3, <1>4, RecordsAssumption DEF Tables
<1>6. Writing
  BY <1>1, <1>3, <1>4 DEF Writing
<1>7. Telling
  <2>1. raised \in [{"association", "anomaly"} -> Nat] /\ raised["association"] = 0
    BY <1>3
  <2> QED BY <1>3, <1>4, <2>1 DEF Telling
<1>8. WireFresh /\ EntitiesRight /\ RowsRight
  BY <1>3 DEF WireFresh, EntitiesRight, RowsRight
<1>9. MessagesRight
  BY <1>3, <1>4 DEF MessagesRight
<1>10. JobRight
  BY <1>2, <1>3 DEF JobRight
<1>11. HalfRenamed
  BY <1>2, <1>3 DEF HalfRenamed
<1> QED BY <1>5, <1>6, <1>7, <1>8, <1>9, <1>10, <1>11 DEF Typed, Consistency

\* Every step keeps the rows right.
LEMMA RowsContinuing ==
    Known /\ Loitering /\ Numbered /\ Typed /\ Consistency /\ [Next]_vars => (Typed /\ Consistency)'
<1> SUFFICES ASSUME Known, Loitering, Numbered, Typed, Consistency, [Next]_vars
             PROVE  Typed' /\ Consistency'
  OBVIOUS
<1>1. Identities /\ Told
  BY DEF Known
<1>2. CASE \E f \in Views : /\ Identify(f)
                            /\ UNCHANGED <<loiterVars, queueVars, job, confirmed, rowVars, countVars>>
  BY <1>1, <1>2, IdentifyStep
<1>3. CASE Output
  BY <1>1, <1>3, OutputStep
<1>4. CASE StopReid
  BY <1>4, StopReidStep
<1>5. CASE ReidStep
  BY <1>1, <1>5, TakeMessageStep, FindRowsStep, CreateRealStep, DeleteTempStep, WriteTrackStep,
     WriteLoitererStep DEF ReidStep
<1>6. CASE Association
  BY <1>6, QuietStep, WriteRowStep, RaiseStep DEF Association
<1>7. CASE OtherIncident
  BY <1>7, OtherIncidentStep
<1>8. CASE UNCHANGED vars
  <2>1. UNCHANGED <<wire, resolved, running, inbox, renamed, reidQueue, assocQueue, job, confirmed, entity,
                    mapping, refs, raised, failures, spoilt>>
    BY <1>8 DEF vars, reidVars, queueVars, rowVars, countVars
  <2>2. Typed'
    BY <2>1 DEF Typed, Tables, Writing, Telling
  <2> QED BY <2>1, <2>2, Elsewhere
<1> QED BY <1>2, <1>3, <1>4, <1>5, <1>6, <1>7, <1>8 DEF Next

\* What a row refers to is there, or known under the id that mapping gives; when the database
\* thread has caught up, reid's rows are found under the real ids.
THEOREM RowsFound == Spec => []RowsResolve
<1>1. Known /\ Loitering /\ Numbered /\ Typed /\ Consistency => RowsResolve
  <2> SUFFICES ASSUME Known, Loitering, Numbered, Typed, Consistency PROVE RowsResolve
    OBVIOUS
  <2>1. RecordsTypes
    <3>1. \A i \in DOMAIN entries : i \in PersonIds /\ entries[i].first <= entries[i].last
      BY Value DEF Loitering, Presences
    <3>2. mapping \in Partial(Temps, Ids \ Temps)
      BY Disjoint DEF Typed, Tables
    <3>3. \A r \in refs : r \in [by : {"reid", "association"}, no : Nat, born : Ids, to : Ids]
      BY DEF Typed, Tables, Rows
    <3> QED BY <3>1, <3>2, <3>3 DEF Typed, Tables, Numbered, RecordsTypes
  <2>2. RowsFollow
    <3> SUFFICES ASSUME running, wire = NoFrame, job = Idle, reidQueue = <<>>,
                        NEW r \in refs, r.by = "reid", r.to \in DOMAIN resolved
                 PROVE  r.to \in spoilt
      BY DEF RowsFollow
    <3>1. r.to \in spoilt \/ r.to \in job.todo \/ Ahead(r.to)
      BY DEF Consistency, RowsRight
    <3>2. job.todo = {}
      BY DEF Idle
    <3>3. DOMAIN reidQueue = {}
      OBVIOUS
    <3>4. ~Ahead(r.to)
      BY <3>3 DEF Ahead, InWire
    <3> QED BY <3>1, <3>2, <3>4
  <2>3. ASSUME NEW r \in refs
        PROVE  /\ r.to = r.born \/ (r.born \in DOMAIN resolved /\ r.to = resolved[r.born])
               /\ {r.born, r.to} \cap spoilt = {} =>
                    /\ entity[r.to] = "deleted" => r.to \in DOMAIN mapping /\ entity[mapping[r.to]] = "live"
                    /\ r.by = "reid" => entity[r.to] = "live"
    <3>1. r.to \in Ids
      BY DEF Typed, Tables, Rows
    <3> QED BY <3>1 DEF Consistency, RowsRight, EntitiesRight
  <2> QED BY <2>1, <2>2, <2>3 DEF RowsResolve
<1> QED BY <1>1, Beginning, Continuing, RowsBeginning, RowsContinuing, PTL DEF Spec
=============================================================================
