---------------------------- MODULE SceneProofs -----------------------------
(***************************************************************************)
(* The proofs of the scene's properties, for any persons, bags, cameras,   *)
(* frames, thresholds and incidents.                                       *)
(*                                                                         *)
(* Whether an incident's people are filed under the ids they go by         *)
(* between frames depends on all the phases before: what the message under *)
(* way promotes (WireInv), that an object is stored under one id at most   *)
(* (StoreInv), what each phase left for the next (PhaseInv), that nobody   *)
(* in an incident is forgotten (PeopleInv) and, while a frame is handled,  *)
(* that the maps still hold the ids which this frame replaces (FiledInv).  *)
(* What a step may never do needs more: that nothing is misnamed until an  *)
(* object is renamed (CalmInv), that a bag has one incident (BagMapInv),   *)
(* and that while no frame is lost what reid promotes is known (KeptIds)   *)
(* and a bag left alone has its incident (KeptBags).                       *)
(*                                                                         *)
(* The loops over the ids of a message are folds, in an order that is not  *)
(* known.  SubsetsGood, with a set of sets in place of a predicate, shows  *)
(* what holds of a fold: it holds of the empty set, and of a set if it     *)
(* holds without the element that the fold takes first.                    *)
(***************************************************************************)
EXTENDS Scene, FiniteSetTheorems, NaturalsInduction, WellFoundedInduction, TLAPS

LessThan == {pair \in Nat \X Nat : pair[1] < pair[2]}

\* Every set of natural numbers has a least one.
LEMMA LeastIs ==
    ASSUME NEW S, S \subseteq Nat, S # {}
    PROVE  \E m \in S : \A x \in S : m <= x
<1>1. IsWellFoundedOn(LessThan, Nat)
  BY NatLessThanWellFounded, Zenon DEF OpToRel, LessThan
<1>2. PICK m \in S : \A k \in S : ~(<<k, m>> \in LessThan)
  BY <1>1, WFMin
<1>3. \A k \in S : k \in Nat /\ m \in Nat /\ ~(k < m)
  BY <1>2 DEF LessThan
<1> QED BY <1>3

\* What holds of the empty set, and of a set if it holds of all that lack one element, holds.
LEMMA SubsetsGood ==
    ASSUME NEW S, IsFiniteSet(S), NEW G,
           \A s \in SUBSET S : (\A x \in s : s \ {x} \in G) => s \in G
    PROVE  \A s \in SUBSET S : s \in G
<1> DEFINE Bad == {Cardinality(s) : s \in {t \in SUBSET S : t \notin G}}
<1> SUFFICES ASSUME Bad # {} PROVE FALSE
  OBVIOUS
<1>1. \A s \in SUBSET S : IsFiniteSet(s) /\ Cardinality(s) \in Nat
  BY FS_Subset, FS_CardinalityType
<1>2. Bad \subseteq Nat
  BY <1>1
<1>3. PICK m \in Bad : \A x \in Bad : m <= x
  BY <1>2, LeastIs
<1>4. PICK s \in SUBSET S : s \notin G /\ Cardinality(s) = m
  BY <1>3
<1>5. ASSUME NEW x \in s PROVE s \ {x} \in G
  <2>1. Cardinality(s \ {x}) = m - 1 /\ s \ {x} \in SUBSET S
    BY <1>1, <1>4, FS_RemoveElement
  <2>2. m \in Nat
    BY <1>1, <1>4
  <2>3. CASE s \ {x} \notin G
    <3>1. Cardinality(s \ {x}) \in Bad
      BY <2>1, <2>3
    <3> QED BY <3>1, <2>1, <2>2, <1>3
  <2> QED BY <2>3
<1> QED BY <1>4, <1>5

\* A recursion over the subsets of a finite set has a solution.
Picks(pick, S) == \A s \in SUBSET S : s # {} => pick[s] \in s
Maps(F, S, T) == \A x \in S, y \in T : F[<<x, y>>] \in T
Solves(g, S, base, pick, F) ==
    \A s \in SUBSET S : g[s] = IF s = {} THEN base ELSE F[<<pick[s], g[s \ {pick[s]}]>>]

LEMMA FoldExists ==
    ASSUME NEW S, IsFiniteSet(S), NEW T, NEW base \in T, NEW pick, NEW F,
           Picks(pick, S), Maps(F, S, T)
    PROVE  \E g \in [SUBSET S -> T] : Solves(g, S, base, pick, F)
<1> USE DEF Picks, Maps, Solves
<1> DEFINE Upto(n) == {s \in SUBSET S : Cardinality(s) <= n}
           Rec(g, D) == \A s \in D : g[s] = IF s = {} THEN base ELSE F[<<pick[s], g[s \ {pick[s]}]>>]
           Good(n) == \E g \in [Upto(n) -> T] : Rec(g, Upto(n))
           Bad == {n \in Nat : ~Good(n)}
<1>1. \A s \in SUBSET S : IsFiniteSet(s) /\ Cardinality(s) \in Nat /\ (Cardinality(s) = 0 <=> s = {})
  BY FS_Subset, FS_CardinalityType, FS_EmptySet
<1>2. ASSUME NEW n \in Nat, n \in Bad PROVE n # 0 /\ n - 1 \in Bad
  <2>1. ASSUME n = 0 PROVE FALSE
    <3> DEFINE g == [s \in Upto(n) |-> base]
    <3>1. g \in [Upto(n) -> T] /\ Rec(g, Upto(n))
      BY <1>1, <2>1
    <3>2. Good(n)
      BY <3>1
    <3> QED BY <3>2, <1>2
  <2>2. ASSUME n # 0, n - 1 \notin Bad PROVE FALSE
    <3>1. n - 1 \in Nat
      BY <2>2
    <3>2. Good(n - 1)
      BY <2>2, <3>1
    <3>3. PICK g \in [Upto(n - 1) -> T] : Rec(g, Upto(n - 1))
      BY <3>2
    <3> DEFINE h == [s \in Upto(n) |-> IF s = {} THEN base ELSE F[<<pick[s], g[s \ {pick[s]}]>>]]
    <3>4. ASSUME NEW s \in Upto(n), s # {} PROVE pick[s] \in S /\ s \ {pick[s]} \in Upto(n - 1)
      <4>1. pick[s] \in s /\ s \in SUBSET S
        BY <3>4
      <4>2. Cardinality(s \ {pick[s]}) = Cardinality(s) - 1
        BY <4>1, <1>1, FS_RemoveElement
      <4>3. Cardinality(s) \in Nat /\ Cardinality(s) <= n
        BY <4>1, <1>1
      <4> QED BY <4>1, <4>2, <4>3
    <3>5. h \in [Upto(n) -> T]
      <4>1. ASSUME NEW s \in Upto(n) PROVE h[s] \in T
        <5>1. CASE s = {}
          BY <5>1
        <5>2. CASE s # {}
          <6>1. pick[s] \in S /\ g[s \ {pick[s]}] \in T
            BY <3>4, <5>2
          <6> QED BY <5>2, <6>1
        <5> QED BY <5>1, <5>2
      <4> QED BY <4>1
    <3>6. ASSUME NEW s \in Upto(n - 1) PROVE s \in Upto(n) /\ h[s] = g[s]
      <4>1. s \in Upto(n)
        BY <1>1
      <4> QED BY <4>1, <3>3
    <3>7. Rec(h, Upto(n))
      <4>1. ASSUME NEW s \in Upto(n), s # {} PROVE h[s] = F[<<pick[s], h[s \ {pick[s]}]>>]
        BY <4>1, <3>4, <3>6
      <4> QED BY <4>1
    <3>8. Good(n)
      BY <3>5, <3>7
    <3> QED BY <3>8, <1>2
  <2>3. n # 0
    BY <2>1
  <2> QED BY <2>2, <2>3
<1>3. Bad = {}
  <2> SUFFICES ASSUME Bad # {} PROVE FALSE
    OBVIOUS
  <2> HIDE DEF Bad
  <2>1. Bad \subseteq Nat
    BY DEF Bad
  <2>2. PICK m \in Bad : \A x \in Bad : m <= x
    BY <2>1, LeastIs
  <2>3. m \in Nat /\ m # 0 /\ m - 1 \in Bad
    BY <1>2, <2>1
  <2> QED BY <2>2, <2>3
<1>4. Cardinality(S) \in Nat
  BY <1>1
<1>5. Good(Cardinality(S))
  BY <1>3, <1>4
<1>6. Upto(Cardinality(S)) = SUBSET S
  BY <1>1, <1>4, FS_Subset
<1> QED BY <1>5, <1>6


\* The sum of naturals over a finite set is a natural.
Sums(f, S, g) == g = [s \in SUBSET S |->
    IF s = {} THEN 0 ELSE f[CHOOSE x \in s : TRUE] + g[s \ {CHOOSE x \in s : TRUE}]]

LEMMA SumIsNatural ==
    ASSUME NEW S, IsFiniteSet(S), NEW f, \A x \in S : f[x] \in Nat
    PROVE  SumFunctionOnSet(f, S) \in Nat
<1> DEFINE iter == CHOOSE g : Sums(f, S, g)
<1>1. SumFunctionOnSet(f, S) = iter[S]
  BY DEF SumFunctionOnSet, FoldFunctionOnSet, MapThenFoldSet, Sums
<1>2. \E g : g \in [SUBSET S -> Nat] /\ Sums(f, S, g)
  <2> DEFINE pick == [s \in SUBSET S |-> CHOOSE x \in s : TRUE]
             F == [p \in S \X Nat |-> f[p[1]] + p[2]]
  <2>1. Picks(pick, S)
    BY DEF Picks
  <2>2. \A x \in S, y \in Nat : F[<<x, y>>] = f[x] + y
    OBVIOUS
  <2>3. Maps(F, S, Nat)
    <3> HIDE DEF F
    <3>1. ASSUME NEW x \in S, NEW y \in Nat PROVE F[<<x, y>>] \in Nat
      <4>1. f[x] \in Nat /\ F[<<x, y>>] = f[x] + y
        BY <2>2
      <4> QED BY <4>1
    <3> QED BY <3>1 DEF Maps
  <2>4. PICK g \in [SUBSET S -> Nat] : Solves(g, S, 0, pick, F)
    <3> HIDE DEF F, pick
    <3> QED BY <2>1, <2>3, FoldExists
  <2>5. Sums(f, S, g)
    <3> DEFINE body == [s \in SUBSET S |->
          IF s = {} THEN 0 ELSE f[CHOOSE x \in s : TRUE] + g[s \ {CHOOSE x \in s : TRUE}]]
    <3>1. ASSUME NEW s \in SUBSET S PROVE g[s] = body[s]
      <4>1. CASE s = {}
        BY <2>4, <4>1 DEF Solves
      <4>2. CASE s # {}
        <5>1. pick[s] \in S /\ pick[s] = (CHOOSE x \in s : TRUE) /\ g[s \ {pick[s]}] \in Nat
          BY <2>1, <2>4, <4>2 DEF Picks
        <5>2. g[s] = F[<<pick[s], g[s \ {pick[s]}]>>]
          BY <2>4, <4>2 DEF Solves
        <5> HIDE DEF F
        <5> QED BY <5>1, <5>2, <2>2, <4>2
      <4> QED BY <4>1, <4>2
    <3> QED BY <3>1, <2>4 DEF Sums
  <2> QED BY <2>4, <2>5
<1>3. Sums(f, S, iter)
  BY <1>2
<1>4. \A s \in SUBSET S : iter[s] =
        IF s = {} THEN 0 ELSE f[CHOOSE x \in s : TRUE] + iter[s \ {CHOOSE x \in s : TRUE}]
  <2> HIDE DEF iter
  <2> QED BY <1>3 DEF Sums
<1> HIDE DEF iter
<1> DEFINE G == {s \in SUBSET S : iter[s] \in Nat}
<1>5. ASSUME NEW s \in SUBSET S, \A x \in s : s \ {x} \in G PROVE s \in G
  <2>1. CASE s = {}
    <3>1. iter[s] = 0
      BY <1>4, <2>1
    <3> QED BY <3>1
  <2>2. CASE s # {}
    <3> DEFINE x == CHOOSE y \in s : TRUE
    <3>1. x \in s
      BY <2>2
    <3>2. f[x] \in Nat /\ iter[s \ {x}] \in Nat
      BY <3>1, <1>5
    <3>3. iter[s] = f[x] + iter[s \ {x}]
      BY <1>4, <2>2
    <3> HIDE DEF x
    <3>4. iter[s] \in Nat
      BY <3>2, <3>3
    <3> QED BY <3>4
  <2> QED BY <2>1, <2>2
<1>6. S \in G
  <2>1. \A s \in SUBSET S : (\A x \in s : s \ {x} \in G) => s \in G
    BY <1>5
  <2> HIDE DEF G
  <2>2. \A s \in SUBSET S : s \in G
    BY <2>1, SubsetsGood
  <2> QED BY <2>2
<1> QED BY <1>1, <1>6

\* What is closed under Merge keeps a bag with all that is merged into it.
Merges(old, S, base, g) == g = [s \in SUBSET S |->
    IF s = {} THEN base ELSE Merge(g[s \ {CHOOSE x \in s : TRUE}], old[CHOOSE x \in s : TRUE])]

LEMMA MergedBagIn ==
    ASSUME NEW S, IsFiniteSet(S), NEW old, NEW b, NEW G, NEW H,
           old[b] \in G, \A t \in S : old[t] \in H,
           \A x \in G, y \in H : Merge(x, y) \in G
    PROVE  MergedBag(old, b, S) \in G
<1> DEFINE iter == CHOOSE g : Merges(old, S, old[b], g)
<1>1. MergedBag(old, b, S) = iter[S]
  BY DEF MergedBag, FoldSet, MapThenFoldSet, Merges
<1>2. \E g : g \in [SUBSET S -> G] /\ Merges(old, S, old[b], g)
  <2> DEFINE pick == [s \in SUBSET S |-> CHOOSE x \in s : TRUE]
             F == [p \in S \X G |-> Merge(p[2], old[p[1]])]
  <2>1. Picks(pick, S)
    BY DEF Picks
  <2>2. \A x \in S, y \in G : F[<<x, y>>] = Merge(y, old[x])
    OBVIOUS
  <2>3. Maps(F, S, G)
    <3> HIDE DEF F
    <3> QED BY <2>2 DEF Maps
  <2>4. PICK g \in [SUBSET S -> G] : Solves(g, S, old[b], pick, F)
    <3> HIDE DEF F, pick
    <3> QED BY <2>1, <2>3, FoldExists
  <2>5. Merges(old, S, old[b], g)
    <3> DEFINE body == [s \in SUBSET S |->
          IF s = {} THEN old[b]
          ELSE Merge(g[s \ {CHOOSE x \in s : TRUE}], old[CHOOSE x \in s : TRUE])]
    <3>1. ASSUME NEW s \in SUBSET S PROVE g[s] = body[s]
      <4>1. CASE s = {}
        BY <2>4, <4>1 DEF Solves
      <4>2. CASE s # {}
        <5>1. pick[s] \in S /\ pick[s] = (CHOOSE x \in s : TRUE) /\ g[s \ {pick[s]}] \in G
          BY <2>1, <2>4, <4>2 DEF Picks
        <5>2. g[s] = F[<<pick[s], g[s \ {pick[s]}]>>]
          BY <2>4, <4>2 DEF Solves
        <5> HIDE DEF F
        <5> QED BY <5>1, <5>2, <2>2, <4>2
      <4> QED BY <4>1, <4>2
    <3> QED BY <3>1, <2>4 DEF Merges
  <2> QED BY <2>4, <2>5
<1>3. Merges(old, S, old[b], iter)
  BY <1>2
<1>4. \A s \in SUBSET S : iter[s] =
        IF s = {} THEN old[b] ELSE Merge(iter[s \ {CHOOSE x \in s : TRUE}], old[CHOOSE x \in s : TRUE])
  <2> HIDE DEF iter
  <2> QED BY <1>3 DEF Merges
<1> HIDE DEF iter
<1> DEFINE K == {s \in SUBSET S : iter[s] \in G}
<1>5. ASSUME NEW s \in SUBSET S, \A x \in s : s \ {x} \in K PROVE s \in K
  <2>1. CASE s = {}
    BY <1>4, <2>1
  <2>2. CASE s # {}
    <3> DEFINE x == CHOOSE y \in s : TRUE
    <3>1. x \in s
      BY <2>2
    <3>2. old[x] \in H /\ iter[s \ {x}] \in G
      BY <3>1, <1>5
    <3> QED BY <1>4, <2>2, <3>2
  <2> QED BY <2>1, <2>2
<1>6. S \in K
  <2>1. \A s \in SUBSET S : (\A x \in s : s \ {x} \in K) => s \in K
    BY <1>5
  <2> HIDE DEF K
  <2>2. \A s \in SUBSET S : s \in K
    BY <2>1, SubsetsGood
  <2> QED BY <2>2
<1> QED BY <1>1, <1>6

\* With nothing to merge a bag stays as it is.
LEMMA NothingMerged ==
    ASSUME NEW old, NEW b
    PROVE  MergedBag(old, b, {}) = old[b]
<1>1. IsFiniteSet({})
  BY FS_EmptySet
<1> DEFINE G == {old[b]}
<1>2. old[b] \in G /\ (\A t \in {} : old[t] \in {}) /\ \A x \in G, y \in {} : Merge(x, y) \in G
  OBVIOUS
<1>3. MergedBag(old, b, {}) \in G
  <2> HIDE DEF G
  <2> QED BY <1>1, <1>2, MergedBagIn
<1> QED BY <1>3
-----------------------------------------------------------------------------
(* Finite sets and their listings. *)
\* The image of a finite set is finite.
LEMMA ImageIsFinite ==
    ASSUME NEW S, IsFiniteSet(S), NEW f
    PROVE  IsFiniteSet({f[x] : x \in S})
<1> DEFINE g == [x \in S |-> f[x]]
           T == {f[x] : x \in S}
<1>1. g \in Surjection(S, T)
  BY DEF Surjection
<1> QED BY <1>1, FS_Surjection

\* The listing of a finite set has all its elements and nothing else.
LEMMA SetToSeqLists ==
    ASSUME NEW S, IsFiniteSet(S)
    PROVE  /\ SetToSeq(S) \in Seq(S) /\ Len(SetToSeq(S)) = Cardinality(S) /\ Cardinality(S) \in Nat
           /\ \A n \in 1..Cardinality(S) : SetToSeq(S)[n] \in S
           /\ \A x \in S : \E n \in 1..Cardinality(S) : SetToSeq(S)[n] = x
<1> DEFINE n == Cardinality(S)
<1>1. n \in Nat /\ \E f \in [1..n -> S] : IsInjective(f)
  BY FS_CardinalityType DEF ExistsBijection, Bijection, Injection
<1>2. SetToSeq(S) \in [1..n -> S] /\ IsInjective(SetToSeq(S))
  BY <1>1 DEF SetToSeq
<1>3. SetToSeq(S) \in Injection(1..n, S)
  BY <1>2 DEF Injection, IsInjective
<1>4. 1 \in Int /\ n \in Int
  BY <1>1
<1>5. Cardinality(1..n) = n
  <2>1. Cardinality(1..n) = IF 1 > n THEN 0 ELSE n - 1 + 1
    BY ONLY <1>4, FS_Interval
  <2> QED BY <2>1, <1>1
<1>6. SetToSeq(S) \in Surjection(1..n, S)
  BY <1>3, <1>5, FS_Injection
<1>7. SetToSeq(S) \in Seq(S) /\ Len(SetToSeq(S)) = n
  BY <1>1, <1>2
<1>8. \A x \in S : \E k \in 1..n : SetToSeq(S)[k] = x
  BY <1>6 DEF Surjection
<1> QED BY <1>1, <1>2, <1>7, <1>8

\* What a list has after those of a finite set are added to it.
LEMMA Appended ==
    ASSUME NEW R, NEW s \in Seq(R), NEW T, T \subseteq R, IsFiniteSet(T)
    PROVE  /\ s \o SetToSeq(T) \in Seq(R)
           /\ Cardinality(T) \in Nat /\ Len(s) \in Nat
           /\ Len(s \o SetToSeq(T)) = Len(s) + Cardinality(T)
           /\ DOMAIN (s \o SetToSeq(T)) = 1..(Len(s) + Cardinality(T))
           /\ \A i \in DOMAIN s : (s \o SetToSeq(T))[i] = s[i]
           /\ \A i \in Len(s) + 1..Len(s) + Cardinality(T) : (s \o SetToSeq(T))[i] \in T
           /\ \A x \in T : \E i \in Len(s) + 1..Len(s) + Cardinality(T) : (s \o SetToSeq(T))[i] = x
<1> DEFINE l == SetToSeq(T)
           n == Cardinality(T)
<1>1. /\ l \in Seq(T) /\ Len(l) = n /\ n \in Nat
      /\ \A k \in 1..n : l[k] \in T
      /\ \A x \in T : \E k \in 1..n : l[k] = x
  BY SetToSeqLists
<1> HIDE DEF l, n
<1>2. l \in Seq(R)
  BY <1>1
<1>3. /\ s \o l \in Seq(R) /\ Len(s \o l) = Len(s) + n /\ Len(s) \in Nat
      /\ DOMAIN (s \o l) = 1..(Len(s) + n)
      /\ \A i \in 1..Len(s) + n : (s \o l)[i] = IF i <= Len(s) THEN s[i] ELSE l[i - Len(s)]
  BY <1>1, <1>2
<1>4. \A i \in DOMAIN s : i \in 1..Len(s) + n /\ i <= Len(s)
  BY <1>1, <1>3
<1>5. ASSUME NEW i \in Len(s) + 1..Len(s) + n PROVE (s \o l)[i] \in T
  BY <1>1, <1>3
<1>6. ASSUME NEW x \in T PROVE \E i \in Len(s) + 1..Len(s) + n : (s \o l)[i] = x
  <2>1. PICK k \in 1..n : l[k] = x
    BY <1>1
  <2>2. Len(s) + k \in Len(s) + 1..Len(s) + n /\ (s \o l)[Len(s) + k] = x
    BY <2>1, <1>1, <1>3
  <2> QED BY <2>2
<1> QED BY <1>1, <1>3, <1>4, <1>5, <1>6 DEF l, n

-----------------------------------------------------------------------------
(* Dictionaries. *)
LEMMA PartialIs ==
    ASSUME NEW D, NEW R, NEW f
    PROVE  f \in Partial(D, R) <=> DOMAIN f \subseteq D /\ f \in [DOMAIN f -> R]
  BY DEF Partial

\* dict.update: the new entries win.
LEMMA Overridden ==
    ASSUME NEW f, NEW g
    PROVE  /\ DOMAIN Override(f, g) = DOMAIN f \cup DOMAIN g
           /\ \A x \in DOMAIN f : Override(f, g)[x] = f[x]
           /\ \A x \in DOMAIN g \ DOMAIN f : Override(f, g)[x] = g[x]
           /\ Override(f, g) \in [DOMAIN f \cup DOMAIN g -> Range(f) \cup Range(g)]
           /\ Range(Override(f, g)) \subseteq Range(f) \cup Range(g)
<1>1. /\ DOMAIN Override(f, g) = DOMAIN f \cup DOMAIN g
      /\ \A x \in DOMAIN f : Override(f, g)[x] = f[x]
      /\ \A x \in DOMAIN g \ DOMAIN f : Override(f, g)[x] = g[x]
  BY DEF Override
<1>2. \A x \in DOMAIN f \cup DOMAIN g : Override(f, g)[x] \in Range(f) \cup Range(g)
  BY <1>1 DEF Range
<1>3. Override(f, g) \in [DOMAIN f \cup DOMAIN g -> Range(f) \cup Range(g)]
  BY <1>2 DEF Override
<1> QED BY <1>1, <1>2, <1>3 DEF Range

\* It keeps to the type.
LEMMA OverrideType ==
    ASSUME NEW D, NEW R, NEW f \in Partial(D, R), NEW g \in Partial(D, R)
    PROVE  Override(f, g) \in Partial(D, R)
<1>1. /\ DOMAIN f \subseteq D /\ f \in [DOMAIN f -> R]
      /\ DOMAIN g \subseteq D /\ g \in [DOMAIN g -> R]
  BY PartialIs
<1>2. DOMAIN Override(f, g) = DOMAIN f \cup DOMAIN g
  BY DEF Override
<1>3. Override(f, g) \in [DOMAIN f \cup DOMAIN g -> R]
  BY <1>1 DEF Override
<1> QED BY <1>1, <1>2, <1>3, PartialIs

\* Nothing is in an empty one.
LEMMA Nothing ==
    ASSUME NEW D, NEW R
    PROVE  <<>> \in Partial(D, R) /\ DOMAIN <<>> = {} /\ Range(<<>>) = {} /\ IsInjective(<<>>)
<1>1. DOMAIN <<>> = {} /\ <<>> \in [{} -> R]
  OBVIOUS
<1>2. Range(<<>>) = {} /\ IsInjective(<<>>)
  BY <1>1 DEF Range, IsInjective
<1> QED BY <1>1, <1>2, PartialIs

\* The id of an object is the one it is stored under, if it is.
LEMMA IdInIs ==
    ASSUME NEW store, IsInjective(store), NEW object
    PROVE  /\ object \notin Range(store) => IdIn(store, object) = object
           /\ object \in Range(store) =>
                IdIn(store, object) \in DOMAIN store /\ store[IdIn(store, object)] = object
           /\ \A id \in DOMAIN store : store[id] = object => IdIn(store, object) = id
<1>1. CASE object \notin Range(store)
  BY <1>1 DEF IdIn, Range
<1>2. CASE object \in Range(store)
  <2>1. \E id \in DOMAIN store : store[id] = object
    BY <1>2 DEF Range
  <2>2. IdIn(store, object) = CHOOSE id \in DOMAIN store : store[id] = object
    BY <1>2 DEF IdIn
  <2>3. IdIn(store, object) \in DOMAIN store /\ store[IdIn(store, object)] = object
    BY <2>1, <2>2
  <2> QED BY <1>2, <2>3 DEF IsInjective
<1> QED BY <1>1, <1>2

-----------------------------------------------------------------------------
(* Promotions. *)
\* What holds of a store of objects and of the updates of a frame.
Store(T, R, taken, store) ==
    /\ DOMAIN store \subseteq R /\ IsInjective(store)
    /\ \A id \in DOMAIN store : store[id] \in T \cup {id}
    /\ Range(store) \cap T \subseteq taken
Renames(T, R, updates) ==
    DOMAIN updates \subseteq T /\ \A t \in DOMAIN updates : updates[t] \in R

\* The ids of a store after a frame are those before, those of the updates and the tracks;
\* each of the new ids has one of the objects it replaces, or its own.
Holds(store, updates, tracks, all) ==
    /\ DOMAIN all = DOMAIN store \cup Range(updates) \cup tracks
    /\ \A id \in DOMAIN store : all[id] = store[id]
    /\ \A id \in Range(updates) \ DOMAIN store :
         /\ all[id] \in DOMAIN updates
         /\ updates[all[id]] = id
    /\ \A id \in tracks \ (DOMAIN store \cup Range(updates)) :
         all[id] = id
LEMMA PromotedIs ==
    ASSUME NEW store, NEW updates, NEW heir \in Heirs(store, updates), NEW tracks,
           NEW all, all = Promoted(store, heir, tracks)
    PROVE  Holds(store, updates, tracks, all)
<1> DEFINE own == [id \in tracks |-> id]
           rest == Override(heir, own)
<1>1. /\ DOMAIN heir = Range(updates) \ DOMAIN store
      /\ \A id \in DOMAIN heir : heir[id] \in DOMAIN updates /\ updates[heir[id]] = id
  BY DEF Heirs
<1>2. DOMAIN own = tracks /\ \A id \in tracks : own[id] = id
  OBVIOUS
<1>3. /\ DOMAIN rest = DOMAIN heir \cup tracks
      /\ \A id \in DOMAIN heir : rest[id] = heir[id]
      /\ \A id \in tracks \ DOMAIN heir : rest[id] = id
  <2>1. rest = [x \in DOMAIN heir \cup DOMAIN own |-> IF x \in DOMAIN heir THEN heir[x] ELSE own[x]]
    BY DEF Override
  <2> HIDE DEF own, rest
  <2> QED BY <2>1, <1>2
<1>4. /\ DOMAIN all = DOMAIN store \cup DOMAIN rest
      /\ \A id \in DOMAIN store : all[id] = store[id]
      /\ \A id \in DOMAIN rest \ DOMAIN store : all[id] = rest[id]
  <2>1. all = [x \in DOMAIN store \cup DOMAIN rest |-> IF x \in DOMAIN store THEN store[x] ELSE rest[x]]
    BY DEF Promoted, Override
  <2> HIDE DEF rest
  <2> QED BY <2>1
<1> HIDE DEF own, rest
<1>5. DOMAIN all = DOMAIN store \cup Range(updates) \cup tracks
  BY <1>1, <1>3, <1>4
<1>6. ASSUME NEW id \in Range(updates) \ DOMAIN store
      PROVE  all[id] \in DOMAIN updates /\ updates[all[id]] = id
  <2>1. id \in DOMAIN heir /\ id \in DOMAIN rest \ DOMAIN store
    BY <1>1, <1>3
  <2>2. all[id] = heir[id]
    BY <2>1, <1>3, <1>4
  <2> QED BY <2>1, <2>2, <1>1
<1>7. ASSUME NEW id \in tracks \ (DOMAIN store \cup Range(updates)) PROVE all[id] = id
  <2>1. id \in tracks \ DOMAIN heir /\ id \in DOMAIN rest \ DOMAIN store
    BY <1>1, <1>3
  <2> QED BY <2>1, <1>3, <1>4
<1>8. \A id \in DOMAIN store : all[id] = store[id]
  BY <1>4
<1> QED BY <1>5, <1>6, <1>7, <1>8 DEF Holds

\* A promotion keeps the store in order: every object stored keeps its id, and one that
\* was not stored keeps its own or takes the one it is updated to.
Keeps(T, R, taken, store, updates, new) ==
    /\ Store(T, R, taken, new) /\ new \in Partial(R, T \cup R)
    /\ Range(store) \subseteq Range(new)
    /\ Range(new) \cap T \subseteq Range(store) \cup DOMAIN updates
    /\ \A id \in DOMAIN store : IdIn(new, store[id]) = id
    /\ \A t \in T \ Range(store) :
         \/ IdIn(new, t) = t
         \/ t \in DOMAIN updates /\ IdIn(new, t) = updates[t]
LEMMA PromotedStore ==
    ASSUME NEW T, NEW R, T \cap R = {}, NEW taken, NEW store, Store(T, R, taken, store),
           NEW updates, Renames(T, R, updates), DOMAIN updates \subseteq taken,
           DOMAIN updates \cap Range(store) = {},
           NEW heir \in Heirs(store, updates), NEW tracks, tracks \subseteq R,
           NEW new, new = Promoted(store, heir, tracks)
    PROVE  Keeps(T, R, taken, store, updates, new)
<1>1. /\ DOMAIN new = DOMAIN store \cup Range(updates) \cup tracks
      /\ \A id \in DOMAIN store : new[id] = store[id]
      /\ \A id \in Range(updates) \ DOMAIN store :
           new[id] \in DOMAIN updates /\ updates[new[id]] = id
      /\ \A id \in tracks \ (DOMAIN store \cup Range(updates)) : new[id] = id
  BY PromotedIs DEF Holds
<1>2. /\ DOMAIN store \subseteq R /\ IsInjective(store)
      /\ \A id \in DOMAIN store : store[id] \in T \cup {id}
      /\ Range(store) \cap T \subseteq taken
  BY DEF Store
<1>3. DOMAIN updates \subseteq T /\ Range(updates) \subseteq R
  BY DEF Renames, Range
<1>4. \A id \in DOMAIN store : store[id] \in Range(store)
  BY DEF Range
<1>5. DOMAIN new \subseteq R
  BY <1>1, <1>2, <1>3
<1>6. \A id \in DOMAIN new :
        \/ id \in DOMAIN store /\ new[id] = store[id] /\ new[id] \in Range(store)
        \/ new[id] \in DOMAIN updates /\ updates[new[id]] = id /\ id \notin DOMAIN store
        \/ new[id] = id /\ id \notin DOMAIN store /\ id \notin Range(updates)
  BY <1>1, <1>4
<1>7. \A id \in DOMAIN new : new[id] \in T \cup {id}
  BY <1>2, <1>3, <1>6
<1>8. \A x \in Range(store) : \E id \in DOMAIN store : store[id] = x
  BY DEF Range
<1>9. ASSUME NEW x \in DOMAIN new, NEW y \in DOMAIN new, new[x] = new[y] PROVE x = y
  <2>1. x \in R /\ y \in R
    BY <1>5
  <2>2. CASE new[x] \in Range(store)
    <3>1. CASE x \in DOMAIN store /\ y \in DOMAIN store
      BY <3>1, <1>1, <1>2, <1>9 DEF IsInjective
    <3>2. ASSUME NEW v \in DOMAIN new, v \notin DOMAIN store, new[v] \in Range(store) PROVE FALSE
      <4>1. new[v] = v
        BY <1>6, <3>2
      <4>2. PICK id \in DOMAIN store : store[id] = v
        BY <1>8, <3>2, <4>1
      <4>3. v \in R
        BY <1>5
      <4>4. id = v
        BY <4>2, <4>3, <1>2
      <4> QED BY <4>4, <3>2
    <3> QED BY <3>1, <3>2, <2>2, <1>9
  <2>3. CASE new[x] \notin Range(store)
    BY <2>3, <2>1, <1>3, <1>6, <1>9
  <2> QED BY <2>2, <2>3
<1>10. IsInjective(new)
  BY <1>9 DEF IsInjective
<1>11. Range(new) \cap T \subseteq Range(store) \cup DOMAIN updates
  <2> SUFFICES ASSUME NEW id \in DOMAIN new, new[id] \in T
               PROVE  new[id] \in Range(store) \cup DOMAIN updates
    BY DEF Range
  <2> QED BY <1>5, <1>6
<1>12. Store(T, R, taken, new)
  BY <1>2, <1>5, <1>7, <1>10, <1>11 DEF Store
<1>13. new \in Partial(R, T \cup R)
  <2>1. new \in [DOMAIN new -> T \cup R]
    <3>1. new = [id \in DOMAIN store \cup DOMAIN Override(heir, [id \in tracks |-> id]) |-> new[id]]
      BY DEF Promoted, Override
    <3> QED BY <3>1, <1>5, <1>7, <1>1
  <2> QED BY <2>1, <1>5, PartialIs
<1>14. Range(store) \subseteq Range(new)
  BY <1>1 DEF Range
<1>15. \A id \in DOMAIN store : IdIn(new, store[id]) = id
  BY <1>1, <1>10, IdInIs
<1>16. ASSUME NEW t \in T \ Range(store)
       PROVE  \/ IdIn(new, t) = t
              \/ t \in DOMAIN updates /\ IdIn(new, t) = updates[t]
  <2>1. CASE t \notin Range(new)
    BY <2>1, <1>10, IdInIs
  <2>2. CASE t \in Range(new)
    <3>1. IdIn(new, t) \in DOMAIN new /\ new[IdIn(new, t)] = t
      BY <2>2, <1>10, IdInIs
    <3>2. IdIn(new, t) \in R
      BY <3>1, <1>5
    <3> QED BY <3>1, <3>2, <1>6
  <2> QED BY <2>1, <2>2
<1> QED BY <1>11, <1>12, <1>13, <1>14, <1>15, <1>16 DEF Keeps

-----------------------------------------------------------------------------
(* The invariant. *)
Objects == TempPersons \cup Range(persons)
Renamings == wire.personUpdates
New(id) == IF id \in DOMAIN Renamings THEN Renamings[id] ELSE id
Busy == pc \notin {"fetch", "dead"}
Waiting == pc = "fetch" /\ wire # NoFrame
WaitingBags == pc \in {"fetch", "bags"} /\ wire # NoFrame

\* The message under way: what it promotes was resolved and is no longer tracked.
WireInv ==
    /\ wire \in Views \cup {NoFrame}
    /\ Busy => wire # NoFrame
    /\ seen \subseteq Temps /\ DOMAIN resolved \subseteq seen
    /\ wire # NoFrame =>
         /\ DOMAIN wire.personUpdates \cup DOMAIN wire.bagUpdates \subseteq DOMAIN resolved
         /\ (DOMAIN wire.persons \cup DOMAIN wire.bags) \cap DOMAIN resolved = {}
         /\ Range(wire.personUpdates) \subseteq DOMAIN wire.persons
         /\ Range(wire.bagUpdates) \subseteq DOMAIN wire.bags
         /\ DOMAIN wire.guesses \subseteq DOMAIN wire.persons
         /\ wire.guns \subseteq DOMAIN wire.persons

\* The stores of the objects, each object under one id at most.
StoreInv ==
    /\ Store(TempPersons, RealPersons, DOMAIN resolved, persons)
    /\ Store(TempBags, RealBags, DOMAIN resolved, bags)
    /\ tempPersons \cap Range(persons) = {} /\ tempBags \cap Range(bags) = {}
    /\ Range(tempToId) \subseteq DOMAIN persons

\* What a phase can rely on: nothing new is filed yet, what is in view is known.
PhaseInv ==
    /\ pc \in {"fetch", "bags", "owners", "unattended"} => fresh = 0
    /\ pc # "ids" => managed \cup Range(bagIncident) \subseteq 1..(Len(incident) - fresh)
    /\ Busy => /\ DOMAIN wire.persons \subseteq tempPersons \cup DOMAIN persons
               /\ Range(Renamings) \subseteq DOMAIN persons
               /\ DOMAIN Renamings \cap tempPersons = {}
    /\ Busy /\ pc # "bags" => DOMAIN wire.bags \subseteq tempBags \cup DOMAIN bags

\* The persons of the incidents and bags are objects still there.
PeopleInv ==
    /\ \A i \in DOMAIN incident :
         /\ incident[i].people # {} /\ incident[i].people \subseteq Objects
         /\ incident[i].kind = "BAG" => incident[i].bag # None
    /\ \A b \in BagIds :
         /\ bag[b].owners \subseteq Objects
         /\ bag[b].owner # None => bag[b].owners # {}
         /\ \A p \in PersonIds : bag[b].scores[p] > 0 => p \in TempPersons \cup DOMAIN persons

\* Within a frame the people of an incident are still filed under the ids that this
\* frame replaces.
FiledInv ==
    Busy => \A i \in managed :
      /\ \A id \in incidentPersons[i] : \E p \in incident[i].people : New(PersonId(p)) = New(id)
      /\ \A p \in incident[i].people : \E id \in incidentPersons[i] : New(id) = New(PersonId(p))
      /\ \A p \in incident[i].people :
           PersonId(p) \in DOMAIN Renamings => PersonId(p) \in incidentPersons[i]

\* Until an object is renamed every id is the object's own, and all is filed under it.
CalmInv ==
    /\ outputDead => "renamed" \in history
    /\ Range(output) \subseteq DOMAIN incident
    /\ "renamed" \notin history =>
         /\ \A id \in DOMAIN persons : persons[id] = id
         /\ \A id \in DOMAIN bags : bags[id] = id
         /\ \A i \in DOMAIN incident : Filed(i)
         /\ Busy => DOMAIN Renamings = {}

\* A bag has one incident, which is about it, and open while it is managed.
BagMapInv ==
    /\ IsInjective(bagIncident)
    /\ Range(bagIncident) \subseteq DOMAIN incident
    /\ \A k \in DOMAIN bagIncident \cap TempBags : incident[bagIncident[k]].bag = k
    /\ \A k \in DOMAIN bagIncident :
         bagIncident[k] \in managed => ~incident[bagIncident[k]].resolved

\* With no frame lost, the temporary ids not yet resolved are known or just coming,
KeptIds ==
    "lost" \notin history /\ pc # "dead" =>
      /\ \A t \in seen \ DOMAIN resolved :
           \/ t \in tempPersons \cup tempBags
           \/ Waiting /\ t \in DOMAIN wire.persons
           \/ WaitingBags /\ t \in DOMAIN wire.bags
      /\ Waiting => DOMAIN wire.personUpdates \subseteq tempPersons
      /\ WaitingBags =>
           /\ DOMAIN wire.bagUpdates \subseteq tempBags
           /\ DOMAIN wire.bags \cap RealBags \subseteq DOMAIN bags \cup Range(wire.bagUpdates)
      /\ \A id \in Range(resolved) \cap RealBags :
           id \in DOMAIN bags \/ (WaitingBags /\ id \in Range(wire.bagUpdates))
      /\ \A id \in DOMAIN bags : bags[id] \in TempBags

\* and a bag left alone that was not promoted has its incident.
IsFiled(b) == b \in DOMAIN bagIncident /\ bagIncident[b] \in managed
KeptBags ==
    "lost" \notin history /\ pc # "dead" =>
      \A b \in TempBags \ Range(bags) : bag[b].unattended =>
        \/ IsFiled(b)
        \/ pc \in {"guns", "incidents"}
           /\ \E i \in Fresh : incident[i].kind = "BAG" /\ incident[i].bag = b

Invariant ==
    /\ SceneTypes /\ WireInv /\ StoreInv /\ PhaseInv /\ PeopleInv /\ MapsAgree /\ PeopleAreFiled
    /\ FiledInv /\ CalmInv /\ BagMapInv /\ KeptIds /\ KeptBags

-----------------------------------------------------------------------------
(* What the parts of a frame are. *)
LEMMA FrameIs ==
    ASSUME NEW f \in Views
    PROVE  /\ f # NoFrame /\ f \in Frame
           /\ DOMAIN f.persons \subseteq PersonIds /\ DOMAIN f.bags \subseteq BagIds
           /\ f.personUpdates \in Partial(TempPersons, RealPersons)
           /\ f.guesses \in Partial(TempPersons, RealPersons)
           /\ Renames(TempPersons, RealPersons, f.personUpdates)
           /\ Renames(TempBags, RealBags, f.bagUpdates)
           /\ Range(f.personUpdates) \subseteq RealPersons /\ Range(f.bagUpdates) \subseteq RealBags
           /\ f.guns \subseteq PersonIds
           /\ IsFiniteSet(DOMAIN f.persons) /\ IsFiniteSet(DOMAIN f.bags)
           /\ IsFiniteSet(DOMAIN f.personUpdates) /\ IsFiniteSet(DOMAIN f.bagUpdates)
<1>1. f \in Frame /\ f # NoFrame
  BY ReidAssumption
<1>2. /\ f.persons \in Partial(PersonIds, Cams) /\ f.bags \in Partial(BagIds, Cams)
      /\ f.personUpdates \in Partial(TempPersons, RealPersons)
      /\ f.bagUpdates \in Partial(TempBags, RealBags)
      /\ f.guesses \in Partial(TempPersons, RealPersons) /\ f.guns \subseteq PersonIds
  BY <1>1 DEF Frame
<1>3. /\ DOMAIN f.persons \subseteq PersonIds /\ DOMAIN f.bags \subseteq BagIds
      /\ DOMAIN f.personUpdates \subseteq TempPersons /\ DOMAIN f.bagUpdates \subseteq TempBags
      /\ f.personUpdates \in [DOMAIN f.personUpdates -> RealPersons]
      /\ f.bagUpdates \in [DOMAIN f.bagUpdates -> RealBags]
  BY <1>2, PartialIs
<1>4. /\ \A t \in DOMAIN f.personUpdates : f.personUpdates[t] \in RealPersons
      /\ \A t \in DOMAIN f.bagUpdates : f.bagUpdates[t] \in RealBags
  BY <1>3
<1>5. Renames(TempPersons, RealPersons, f.personUpdates) /\ Renames(TempBags, RealBags, f.bagUpdates)
  BY <1>3, <1>4 DEF Renames
<1>6. Range(f.personUpdates) \subseteq RealPersons /\ Range(f.bagUpdates) \subseteq RealBags
  BY <1>4 DEF Range
<1> DEFINE all == DOMAIN f.persons \cup DOMAIN f.bags \cup DOMAIN f.personUpdates \cup DOMAIN f.bagUpdates
<1>7. IsFiniteSet(all)
  BY ReidAssumption
<1>8. /\ DOMAIN f.persons \in SUBSET all /\ DOMAIN f.bags \in SUBSET all
      /\ DOMAIN f.personUpdates \in SUBSET all /\ DOMAIN f.bagUpdates \in SUBSET all
  OBVIOUS
<1>9. /\ IsFiniteSet(DOMAIN f.persons) /\ IsFiniteSet(DOMAIN f.bags)
      /\ IsFiniteSet(DOMAIN f.personUpdates) /\ IsFiniteSet(DOMAIN f.bagUpdates)
  <2> HIDE DEF all
  <2> QED BY <1>7, <1>8, FS_Subset
<1> QED BY <1>1, <1>2, <1>3, <1>5, <1>6, <1>9

\* The ids apart.
LEMMA Apart ==
    /\ TempPersons \cap RealPersons = {} /\ TempBags \cap RealBags = {} /\ PersonIds \cap BagIds = {}
    /\ PersonIds = TempPersons \cup RealPersons /\ BagIds = TempBags \cup RealBags
    /\ Temps = TempPersons \cup TempBags /\ None \notin PersonIds /\ None \notin BagIds
  BY SceneAssumption DEF PersonIds, BagIds, Temps

-----------------------------------------------------------------------------
(* The frames that reid sends. *)
\* All but the message stays.
LEMMA IdentifyStep ==
    ASSUME Invariant, NEW f \in Views, Identify(f),
           UNCHANGED <<pc, history, personVars, threat, storeVars, bag, incident, fresh,
                       mapVars, outputVars>>
    PROVE  Invariant'
<1> USE DEF personVars, storeVars, mapVars, outputVars
<1> DEFINE updates == Override(f.personUpdates, f.bagUpdates)
           tracks == DOMAIN f.persons \cup DOMAIN f.bags
<1>1. /\ wire = NoFrame /\ wire' = f /\ f # NoFrame /\ Consistent(f)
      /\ seen' = seen \cup (tracks \cap Temps) /\ resolved' = Override(updates, resolved)
      /\ ~Busy /\ pc \in {"fetch", "dead"}
  BY FrameIs DEF Identify, Invariant, WireInv, Busy
<1>2. /\ DOMAIN updates = DOMAIN f.personUpdates \cup DOMAIN f.bagUpdates
      /\ \A t \in DOMAIN f.personUpdates : updates[t] = f.personUpdates[t]
      /\ \A t \in DOMAIN f.bagUpdates \ DOMAIN f.personUpdates : updates[t] = f.bagUpdates[t]
      /\ Range(updates) \subseteq Range(f.personUpdates) \cup Range(f.bagUpdates)
  BY Overridden
<1>3. DOMAIN resolved' = DOMAIN updates \cup DOMAIN resolved
      /\ Range(resolved') \subseteq Range(updates) \cup Range(resolved)
  <2> HIDE DEF updates
  <2> QED BY <1>1, Overridden
<1>4. /\ DOMAIN f.personUpdates \subseteq TempPersons /\ DOMAIN f.bagUpdates \subseteq TempBags
      /\ DOMAIN f.persons \subseteq PersonIds /\ DOMAIN f.bags \subseteq BagIds
      /\ Range(f.personUpdates) \subseteq RealPersons /\ Range(f.bagUpdates) \subseteq RealBags
      /\ f \in Frame
  BY FrameIs DEF Renames
<1>5. Range(f.personUpdates) \subseteq Range(updates) /\ Range(f.bagUpdates) \subseteq Range(updates)
  BY <1>2, <1>4, Apart DEF Range
<1> HIDE DEF updates
<1>6. /\ DOMAIN updates \subseteq seen \ DOMAIN resolved
      /\ tracks \cap (DOMAIN resolved \cup DOMAIN updates) = {}
      /\ Range(updates) \subseteq tracks
      /\ tracks \cap (RealPersons \cup RealBags) \subseteq Range(resolved) \cup Range(updates)
      /\ DOMAIN f.guesses \subseteq DOMAIN f.persons /\ f.guns \subseteq DOMAIN f.persons
  BY <1>1 DEF Consistent, updates
<1>7. /\ Range(f.personUpdates) \subseteq DOMAIN f.persons
      /\ Range(f.bagUpdates) \subseteq DOMAIN f.bags
  BY <1>4, <1>5, <1>6, Apart
<1>8. SceneTypes'
  BY <1>1, <1>4 DEF Invariant, SceneTypes
<1>9. WireInv'
  BY <1>1, <1>2, <1>3, <1>6, <1>7, Apart DEF Invariant, WireInv, Busy
<1>10. StoreInv'
  BY <1>3 DEF Invariant, StoreInv, Store
<1>11. PhaseInv' /\ PeopleInv' /\ MapsAgree' /\ PeopleAreFiled' /\ FiledInv' /\ BagMapInv'
  <2>1. PhaseInv'
    BY <1>1 DEF Invariant, PhaseInv, Busy
  <2>2. PeopleInv' /\ MapsAgree' /\ PeopleAreFiled' /\ BagMapInv'
    BY DEF Invariant, PeopleInv, MapsAgree, PeopleAreFiled, BagMapInv, Objects, PersonId
  <2>3. FiledInv'
    BY <1>1 DEF FiledInv, Busy
  <2> QED BY <2>1, <2>2, <2>3
<1>12. CalmInv'
  BY <1>1 DEF Invariant, CalmInv, Filed, PersonId, BagId, Busy
<1>13. KeptIds'
  <2> SUFFICES ASSUME "lost" \notin history, pc = "fetch" PROVE KeptIds'
    BY <1>1 DEF KeptIds
  <2>1. /\ seen \ DOMAIN resolved \subseteq tempPersons \cup tempBags
        /\ \A id \in Range(resolved) \cap RealBags : id \in DOMAIN bags
        /\ \A id \in DOMAIN bags : bags[id] \in TempBags
    BY <1>1 DEF Invariant, KeptIds, Waiting, WaitingBags
  <2>2. tempPersons \subseteq TempPersons /\ tempBags \subseteq TempBags
    BY DEF Invariant, SceneTypes
  <2>3. DOMAIN f.personUpdates \subseteq tempPersons /\ DOMAIN f.bagUpdates \subseteq tempBags
    BY <2>1, <2>2, <1>2, <1>4, <1>6, Apart
  <2>4. DOMAIN f.bags \cap RealBags \subseteq DOMAIN bags \cup Range(f.bagUpdates)
    BY <2>1, <1>2, <1>4, <1>6, Apart
  <2>5. \A t \in seen' \ DOMAIN resolved' : t \in tempPersons \cup tempBags
        \/ t \in DOMAIN f.persons \/ t \in DOMAIN f.bags
    BY <2>1, <1>1, <1>3
  <2>6. \A id \in Range(resolved') \cap RealBags : id \in DOMAIN bags \/ id \in Range(f.bagUpdates)
    BY <2>1, <1>2, <1>3, <1>4, Apart
  <2> QED BY <1>1, <2>1, <2>3, <2>4, <2>5, <2>6 DEF KeptIds, Waiting, WaitingBags
<1>14. KeptBags'
  BY <1>1 DEF Invariant, KeptBags, IsFiled, Fresh
<1> QED BY <1>8, <1>9, <1>10, <1>11, <1>12, <1>13, <1>14 DEF Invariant

\* A frame that never reaches association leaves no trace but in the history.
LEMMA LoseFrameStep ==
    ASSUME Invariant, LoseFrame
    PROVE  Invariant'
<1> USE DEF personVars, storeVars, mapVars, outputVars
<1>1. /\ pc = "fetch" /\ pc' = pc /\ wire' = NoFrame /\ history' = history \cup {"lost"}
      /\ UNCHANGED <<seen, resolved, personVars, threat, storeVars, bag, incident, fresh,
                     mapVars, outputVars>>
  BY DEF LoseFrame
<1>2. SceneTypes'
  BY <1>1 DEF Invariant, SceneTypes
<1>3. WireInv'
  BY <1>1 DEF Invariant, WireInv, Busy
<1>4. StoreInv' /\ PhaseInv' /\ PeopleInv' /\ MapsAgree' /\ PeopleAreFiled' /\ FiledInv' /\ BagMapInv'
  <2>1. StoreInv'
    BY <1>1 DEF Invariant, StoreInv
  <2>2. PhaseInv'
    BY <1>1 DEF Invariant, PhaseInv, Busy
  <2>3. PeopleInv' /\ MapsAgree' /\ PeopleAreFiled' /\ BagMapInv'
    BY <1>1 DEF Invariant, PeopleInv, MapsAgree, PeopleAreFiled, BagMapInv, Objects, PersonId
  <2>4. FiledInv'
    BY <1>1 DEF FiledInv, Busy
  <2> QED BY <2>1, <2>2, <2>3, <2>4
<1>5. CalmInv'
  BY <1>1 DEF Invariant, CalmInv, Filed, PersonId, BagId, Busy
<1>6. KeptIds' /\ KeptBags'
  BY <1>1 DEF KeptIds, KeptBags
<1> QED BY <1>2, <1>3, <1>4, <1>5, <1>6 DEF Invariant

\* Nor does the end of the thread change anything else.
LEMMA DieStep ==
    ASSUME Invariant, pc # "ids", NEW why \in SUBSET {"twice"}, Die(why)
    PROVE  Invariant'
<1> USE DEF personVars, storeVars, mapVars, outputVars, reidVars
<1>1. /\ pc' = "dead" /\ history' = history \cup why
      /\ UNCHANGED <<reidVars, personVars, threat, storeVars, bag, incident, fresh, mapVars,
         outputVars>>
  BY DEF Die
<1>2. SceneTypes'
  BY <1>1 DEF Invariant, SceneTypes
<1>3. WireInv'
  BY <1>1 DEF Invariant, WireInv, Busy
<1>4. StoreInv' /\ PeopleInv' /\ MapsAgree' /\ PeopleAreFiled' /\ FiledInv' /\ BagMapInv'
  <2>1. StoreInv'
    BY <1>1 DEF Invariant, StoreInv
  <2>2. PeopleInv' /\ MapsAgree' /\ PeopleAreFiled' /\ BagMapInv'
    BY <1>1 DEF Invariant, PeopleInv, MapsAgree, PeopleAreFiled, BagMapInv, Objects, PersonId
  <2>3. FiledInv'
    BY <1>1 DEF FiledInv, Busy
  <2> QED BY <2>1, <2>2, <2>3
<1>5. PhaseInv'
  BY <1>1 DEF Invariant, PhaseInv, Busy
<1>6. CalmInv'
  BY <1>1 DEF Invariant, CalmInv, Filed, PersonId, BagId, Busy
<1>7. KeptIds' /\ KeptBags'
  BY <1>1 DEF KeptIds, KeptBags
<1> QED BY <1>2, <1>3, <1>4, <1>5, <1>6, <1>7 DEF Invariant

\* The output thread takes an incident, and dies of one that is filed under old ids.
LEMMA PublishStep ==
    ASSUME Invariant, Publish
    PROVE  Invariant'
<1> USE DEF personVars, storeVars, mapVars, reidVars
<1>1. /\ output # <<>> /\ ~outputDead /\ output' = Tail(output)
      /\ outputDead' = ~Filed(Head(output))
      /\ UNCHANGED <<reidVars, pc, history, personVars, threat, storeVars, bag, incident, fresh,
         mapVars>>
  BY DEF Publish
<1>2. output \in Seq(Ids) /\ Range(output) \subseteq DOMAIN incident
  BY DEF Invariant, SceneTypes, CalmInv
<1>3. Head(output) \in Range(output) /\ Range(Tail(output)) \subseteq Range(output)
      /\ Tail(output) \in Seq(Ids)
  BY <1>1, <1>2 DEF Range
<1>4. SceneTypes'
  BY <1>1, <1>3 DEF Invariant, SceneTypes
<1>5. WireInv' /\ StoreInv' /\ PhaseInv' /\ PeopleInv' /\ MapsAgree' /\ PeopleAreFiled' /\ BagMapInv'
  BY <1>1 DEF Invariant, WireInv, StoreInv, PhaseInv, PeopleInv, MapsAgree, PeopleAreFiled,
              BagMapInv, Busy, Objects, PersonId, Renamings
<1>6. FiledInv' /\ KeptIds' /\ KeptBags'
  <2>1. FiledInv'
    BY <1>1 DEF Invariant, FiledInv, Busy, New, Renamings, PersonId
  <2>2. KeptIds' /\ KeptBags'
    BY <1>1 DEF Invariant, KeptIds, KeptBags, Waiting, WaitingBags, IsFiled, Fresh
  <2> QED BY <2>1, <2>2
<1>7. CalmInv'
  <2>1. "renamed" \notin history => Filed(Head(output))
    BY <1>2, <1>3 DEF Invariant, CalmInv
  <2>2. Range(output') \subseteq DOMAIN incident'
    BY <1>1, <1>2, <1>3
  <2> QED BY <1>1, <2>1, <2>2 DEF Invariant, CalmInv, Filed, PersonId, BagId, Busy, Renamings
<1> QED BY <1>4, <1>5, <1>6, <1>7 DEF Invariant

\* Nothing that changes nothing breaks it.
LEMMA StutterStep ==
    ASSUME Invariant, UNCHANGED vars
    PROVE  Invariant'
<1> USE DEF vars, personVars, storeVars, mapVars, reidVars, outputVars
<1>1. SceneTypes' /\ WireInv' /\ StoreInv' /\ PhaseInv' /\ PeopleInv'
  BY DEF Invariant, SceneTypes, WireInv, StoreInv, PhaseInv, PeopleInv, Busy, Objects, Renamings
<1>2. MapsAgree' /\ PeopleAreFiled' /\ FiledInv' /\ BagMapInv'
  BY DEF Invariant, MapsAgree, PeopleAreFiled, FiledInv, BagMapInv, Busy, New, Renamings, PersonId
<1>3. CalmInv' /\ KeptIds' /\ KeptBags'
  BY DEF Invariant, CalmInv, KeptIds, KeptBags, Waiting, WaitingBags, IsFiled, Fresh, Filed, PersonId,
         BagId, Busy, Renamings
<1> QED BY <1>1, <1>2, <1>3 DEF Invariant

-----------------------------------------------------------------------------
(* PersonManager.update. *)
\* Saturation.
LEMMA CappedIs ==
    ASSUME NEW n \in Nat, NEW top \in Nat
    PROVE  Capped(n, top) \in 0..top
  BY DEF Capped

\* What is kept of a dictionary.
LEMMA RestrictType ==
    ASSUME NEW D, NEW R, NEW f \in Partial(D, R), NEW S, S \subseteq DOMAIN f
    PROVE  /\ Restrict(f, S) \in Partial(D, R) /\ DOMAIN Restrict(f, S) = S
           /\ \A x \in S : Restrict(f, S)[x] = f[x]
<1>1. DOMAIN f \subseteq D /\ f \in [DOMAIN f -> R]
  BY PartialIs
<1>2. DOMAIN Restrict(f, S) = S /\ Restrict(f, S) \in [S -> R] /\ \A x \in S : Restrict(f, S)[x] = f[x]
  BY <1>1 DEF Restrict
<1> QED BY <1>1, <1>2, PartialIs

\* Where every object is under its own id, ids and objects are the same.
LEMMA OwnIds ==
    ASSUME NEW store, IsInjective(store), \A id \in DOMAIN store : store[id] = id, NEW object
    PROVE  IdIn(store, object) = object
<1>1. CASE object \in Range(store)
  BY <1>1, IdInIs
<1>2. CASE object \notin Range(store)
  BY <1>2, IdInIs
<1> QED BY <1>1, <1>2

\* The gun threats of those that are one person add up, within the limit.
LEMMA ThreatsAdd ==
    ASSUME NEW N \in Nat, NEW f \in [PersonIds -> 0..N], NEW D, IsFiniteSet(D), D \subseteq PersonIds,
           NEW p \in PersonIds, NEW S, S \subseteq D
    PROVE  SumFunctionOnSet(f, S \cup {p}) \in Nat
<1>1. IsFiniteSet(D \cup {p})
  BY FS_AddElement
<1>2. S \cup {p} \in SUBSET (D \cup {p})
  OBVIOUS
<1>3. IsFiniteSet(S \cup {p})
  BY <1>1, <1>2, FS_Subset
<1>4. \A x \in S \cup {p} : f[x] \in Nat
  OBVIOUS
<1> QED BY <1>3, <1>4, SumIsNatural

\* The persons after the promotions of a frame.
LEMMA PersonsPromoted ==
    ASSUME Invariant, UpdatePersons
    PROVE  /\ wire \in Views /\ wire # NoFrame /\ DOMAIN Renamings \subseteq tempPersons
           /\ Store(TempPersons, RealPersons, DOMAIN resolved, persons')
           /\ persons' \in Partial(RealPersons, PersonIds)
           /\ DOMAIN persons' = DOMAIN persons \cup Range(Renamings) \cup (Visible \cap RealPersons)
           /\ Range(persons) \subseteq Range(persons')
           /\ Range(persons') \cap TempPersons \subseteq Range(persons) \cup DOMAIN Renamings
           /\ \A p \in Objects : /\ New(IdIn(persons', p)) = New(PersonId(p))
                                 /\ IdIn(persons', p) \in DOMAIN Renamings
                                      => IdIn(persons', p) = PersonId(p)
           /\ DOMAIN Renamings = {} /\ (\A id \in DOMAIN persons : persons[id] = id)
                => \A id \in DOMAIN persons' : persons'[id] = id
<1>1. PICK heir \in Heirs(persons, Renamings) :
        persons' = Promoted(persons, heir, Visible \cap RealPersons)
  BY DEF UpdatePersons, Renamings
<1>2. wire \in Views /\ wire # NoFrame /\ DOMAIN Renamings \subseteq tempPersons
  BY DEF UpdatePersons, Invariant, WireInv, Renamings
<1>3. /\ Renames(TempPersons, RealPersons, Renamings) /\ Range(Renamings) \subseteq RealPersons
      /\ DOMAIN Renamings \subseteq TempPersons
         /\ \A t \in DOMAIN Renamings : Renamings[t] \in RealPersons
  BY <1>2, FrameIs DEF Renamings, Renames
<1>4. /\ Store(TempPersons, RealPersons, DOMAIN resolved, persons)
      /\ DOMAIN Renamings \subseteq DOMAIN resolved
      /\ DOMAIN Renamings \cap Range(persons) = {}
  BY <1>2 DEF Invariant, StoreInv, WireInv, Renamings
<1>5. /\ Store(TempPersons, RealPersons, DOMAIN resolved, persons')
      /\ persons' \in Partial(RealPersons, TempPersons \cup RealPersons)
      /\ Range(persons) \subseteq Range(persons')
      /\ Range(persons') \cap TempPersons \subseteq Range(persons) \cup DOMAIN Renamings
      /\ \A id \in DOMAIN persons : IdIn(persons', persons[id]) = id
      /\ \A t \in TempPersons \ Range(persons) :
           \/ IdIn(persons', t) = t
           \/ t \in DOMAIN Renamings /\ IdIn(persons', t) = Renamings[t]
  <2> DEFINE tracks == Visible \cap RealPersons
  <2>1. tracks \subseteq RealPersons
    OBVIOUS
  <2>2. persons' = Promoted(persons, heir, tracks) /\ TempPersons \cap RealPersons = {}
    BY <1>1, Apart
  <2> HIDE DEF tracks
  <2>3. Keeps(TempPersons, RealPersons, DOMAIN resolved, persons, Renamings, persons')
    BY <1>3, <1>4, <2>1, <2>2, PromotedStore
  <2> QED BY <2>3 DEF Keeps
<1>6. /\ DOMAIN persons' = DOMAIN persons \cup Range(Renamings) \cup (Visible \cap RealPersons)
      /\ \A id \in DOMAIN persons : persons'[id] = persons[id]
      /\ \A id \in (Visible \cap RealPersons) \ (DOMAIN persons \cup Range(Renamings)) : persons'[id] = id
  <2>1. Holds(persons, Renamings, Visible \cap RealPersons, persons')
    BY <1>1, PromotedIs
  <2> QED BY <2>1 DEF Holds
<1>7. IsInjective(persons) /\ DOMAIN persons \subseteq RealPersons
  BY <1>4 DEF Store
<1>8. ASSUME NEW p \in Objects
      PROVE  /\ New(IdIn(persons', p)) = New(PersonId(p))
             /\ IdIn(persons', p) \in DOMAIN Renamings => IdIn(persons', p) = PersonId(p)
  <2>1. CASE p \in Range(persons)
    <3>1. PersonId(p) \in DOMAIN persons /\ persons[PersonId(p)] = p
      BY <2>1, <1>7, IdInIs DEF PersonId
    <3>2. IdIn(persons', p) = PersonId(p)
      BY <3>1, <1>5
    <3> QED BY <3>2
  <2>2. CASE p \notin Range(persons)
    <3>1. PersonId(p) = p /\ p \in TempPersons
      BY <2>2, <1>7, IdInIs DEF PersonId, Objects
    <3>2. CASE IdIn(persons', p) = p
      BY <3>1, <3>2
    <3>3. CASE p \in DOMAIN Renamings /\ IdIn(persons', p) = Renamings[p]
      <4>1. Renamings[p] \in RealPersons /\ Renamings[p] \notin DOMAIN Renamings
        BY <3>3, <1>3, Apart
      <4> QED BY <3>1, <3>3, <4>1 DEF New
    <3> QED BY <3>1, <3>2, <3>3, <2>2, <1>5
  <2> QED BY <2>1, <2>2
<1>9. DOMAIN Renamings = {} /\ (\A id \in DOMAIN persons : persons[id] = id)
        => \A id \in DOMAIN persons' : persons'[id] = id
  <2>1. DOMAIN Renamings = {} => Range(Renamings) = {}
    BY DEF Range
  <2> QED BY <2>1, <1>6
<1>10. persons' \in Partial(RealPersons, PersonIds)
  BY <1>5, Apart
<1> QED BY <1>2, <1>5, <1>6, <1>8, <1>9, <1>10

\* The rest of what it does.
LEMMA UpdatePersonsTypes ==
    ASSUME Invariant, UpdatePersons
    PROVE  SceneTypes'
<1> USE DEF personVars, storeVars, mapVars, outputVars, reidVars
<1>1. /\ wire \in Views /\ persons' \in Partial(RealPersons, PersonIds) /\ SceneTypes
  BY PersonsPromoted DEF Invariant
<1>2. /\ Renamings \in Partial(TempPersons, RealPersons) /\ IsFiniteSet(DOMAIN Renamings)
      /\ wire.guesses \in Partial(TempPersons, RealPersons) /\ DOMAIN Renamings \subseteq TempPersons
  BY <1>1, FrameIs DEF Renamings, Renames
<1>3. tempToId' \in Partial(TempPersons, RealPersons)
  <2>1. tempToId' = Override(Renamings, tempToId) /\ tempToId \in Partial(TempPersons, RealPersons)
    BY <1>1 DEF UpdatePersons, Renamings, SceneTypes
  <2> QED BY <2>1, <1>2, OverrideType
<1>4. idGuesses' \in Partial(TempPersons, RealPersons)
  <2> DEFINE all == Override(wire.guesses, idGuesses)
  <2>1. idGuesses \in Partial(TempPersons, RealPersons)
    BY <1>1 DEF SceneTypes
  <2>2. all \in Partial(TempPersons, RealPersons)
    BY <2>1, <1>2, OverrideType
  <2>3. idGuesses' = Restrict(all, DOMAIN all \ DOMAIN Renamings)
    BY DEF UpdatePersons, Renamings
  <2> HIDE DEF all
  <2>4. DOMAIN all \ DOMAIN Renamings \subseteq DOMAIN all
    OBVIOUS
  <2> QED BY <2>2, <2>3, <2>4, RestrictType
<1>5. threat' \in [PersonIds -> 0..GunThreshold + 1]
  <2> DEFINE sum(p) == SumFunctionOnSet(threat, Absorbed(p, persons', Renamings) \cup {p})
  <2>1. threat' = [p \in PersonIds |-> Capped(sum(p), GunThreshold + 1)]
    BY DEF UpdatePersons, Renamings
  <2>2. GunThreshold + 1 \in Nat /\ threat \in [PersonIds -> 0..GunThreshold + 1]
    BY <1>1, SceneAssumption DEF SceneTypes
  <2>3. ASSUME NEW p \in PersonIds PROVE sum(p) \in Nat
    <3> DEFINE S == Absorbed(p, persons', Renamings)
               D == DOMAIN Renamings
               N == GunThreshold + 1
    <3>1. S \subseteq D /\ D \subseteq PersonIds /\ N \in Nat /\ threat \in [PersonIds -> 0..N]
          /\ IsFiniteSet(D)
      BY <1>2, <2>2, Apart DEF Absorbed
    <3> HIDE DEF S, D, N
    <3>2. SumFunctionOnSet(threat, S \cup {p}) \in Nat
      BY <3>1, ThreatsAdd
    <3> QED BY <3>2 DEF S
  <2>4. \A p \in PersonIds : Capped(sum(p), GunThreshold + 1) \in 0..GunThreshold + 1
    BY <2>2, <2>3, CappedIs
  <2> HIDE DEF sum
  <2> QED BY <2>1, <2>4
<1>6. tempPersons' \subseteq TempPersons /\ history' \subseteq {"lost", "renamed", "twice"}
      /\ pc' = "bags"
  BY <1>1 DEF UpdatePersons, SceneTypes
<1> QED BY <1>1, <1>3, <1>4, <1>5, <1>6 DEF UpdatePersons, SceneTypes

LEMMA UpdatePersonsStep ==
    ASSUME Invariant, UpdatePersons
    PROVE  Invariant'
<1> USE DEF personVars, storeVars, mapVars, outputVars, reidVars
<1>1. /\ pc = "fetch" /\ pc' = "bags" /\ wire \in Views /\ wire # NoFrame /\ ~outputDead
      /\ tempPersons' = (tempPersons \ DOMAIN Renamings) \cup (Visible \cap TempPersons)
      /\ tempToId' = Override(Renamings, tempToId)
      /\ history' = IF Renamings = <<>> THEN history ELSE history \cup {"renamed"}
      /\ UNCHANGED <<reidVars, storeVars, bag, incident, fresh, mapVars, outputVars>>
  BY PersonsPromoted DEF UpdatePersons, Renamings
<1>2. /\ DOMAIN Renamings \subseteq tempPersons
      /\ Store(TempPersons, RealPersons, DOMAIN resolved, persons')
      /\ DOMAIN persons' = DOMAIN persons \cup Range(Renamings) \cup (Visible \cap RealPersons)
      /\ Range(persons) \subseteq Range(persons')
      /\ Range(persons') \cap TempPersons \subseteq Range(persons) \cup DOMAIN Renamings
      /\ \A p \in Objects : /\ New(IdIn(persons', p)) = New(PersonId(p))
                            /\ IdIn(persons', p) \in DOMAIN Renamings
                                 => IdIn(persons', p) = PersonId(p)
      /\ DOMAIN Renamings = {} /\ (\A id \in DOMAIN persons : persons[id] = id)
           => \A id \in DOMAIN persons' : persons'[id] = id
  BY PersonsPromoted
<1>3. /\ DOMAIN Renamings \subseteq DOMAIN resolved /\ Visible \cap DOMAIN resolved = {}
      /\ Visible \subseteq PersonIds /\ tempPersons \subseteq TempPersons
      /\ Renamings' = Renamings /\ Visible' = Visible
  BY <1>1, FrameIs DEF Invariant, WireInv, SceneTypes, Renamings, Visible
<1>4. WireInv' /\ MapsAgree' /\ BagMapInv'
  BY <1>1 DEF Invariant, WireInv, MapsAgree, BagMapInv, Busy
<1>5. StoreInv'
  <2>1. tempPersons' \cap Range(persons') = {}
    BY <1>1, <1>2, <1>3 DEF Invariant, StoreInv, Store
  <2>2. Range(tempToId') \subseteq DOMAIN persons'
    <3>1. Range(tempToId') \subseteq Range(Renamings) \cup Range(tempToId)
      BY <1>1, Overridden
    <3> QED BY <3>1, <1>2 DEF Invariant, StoreInv
  <2> QED BY <1>1, <1>2, <2>1, <2>2 DEF Invariant, StoreInv
<1>6. PhaseInv'
  <2>1. DOMAIN Renamings \cap tempPersons' = {}
    BY <1>1, <1>3
  <2>2. Visible \subseteq tempPersons' \cup DOMAIN persons'
    BY <1>1, <1>2, <1>3, Apart
  <2> QED BY <1>1, <1>2, <1>3, <2>1, <2>2 DEF Invariant, PhaseInv, Visible
<1>7. PeopleInv'
  BY <1>1, <1>2 DEF Invariant, PeopleInv, Objects
<1>8. PeopleAreFiled'
  BY <1>1 DEF PeopleAreFiled
<1>9. FiledInv'
  <2>1. \A id : New(id)' = New(id)
    BY <1>3 DEF New
  <2>2. ASSUME NEW i \in managed
        PROVE /\ \A id \in incidentPersons[i] : \E p \in incident[i].people : PersonId(p) = id
              /\ \A p \in incident[i].people : PersonId(p) \in incidentPersons[i]
              /\ incident[i].people \subseteq Objects
    <3>1. {PersonId(p) : p \in incident[i].people} = incidentPersons[i] /\ i \in DOMAIN incident
      BY <1>1 DEF Invariant, PeopleAreFiled, SceneTypes
    <3>2. incident[i].people \subseteq Objects
      BY <3>1 DEF Invariant, PeopleInv
    <3> QED BY <3>1, <3>2
  <2>3. ASSUME NEW i \in managed
        PROVE
      /\ \A id \in incidentPersons[i] : \E p \in incident[i].people : New(IdIn(persons', p)) = New(id)
      /\ \A p \in incident[i].people : \E id \in incidentPersons[i] : New(id) = New(IdIn(persons', p))
      /\ \A p \in incident[i].people :
           IdIn(persons', p) \in DOMAIN Renamings => IdIn(persons', p) \in incidentPersons[i]
    <3>1. \A id \in incidentPersons[i] : \E p \in incident[i].people : New(IdIn(persons', p)) = New(id)
      <4> SUFFICES ASSUME NEW id \in incidentPersons[i]
                   PROVE  \E p \in incident[i].people : New(IdIn(persons', p)) = New(id)
        OBVIOUS
      <4>1. PICK p \in incident[i].people : PersonId(p) = id
        BY <2>2
      <4>2. New(IdIn(persons', p)) = New(id)
        BY <4>1, <2>2, <1>2
      <4> QED BY <4>2
    <3>2. ASSUME NEW p \in incident[i].people
          PROVE  /\ \E id \in incidentPersons[i] : New(id) = New(IdIn(persons', p))
                 /\ IdIn(persons', p) \in DOMAIN Renamings => IdIn(persons', p) \in incidentPersons[i]
      BY <2>2, <1>2
    <3> QED BY <3>1, <3>2
  <2>4. \A p : PersonId(p)' = IdIn(persons', p)
    BY DEF PersonId
  <2> QED BY <1>1, <1>3, <2>1, <2>3, <2>4 DEF FiledInv
<1>10. CalmInv'
  <2> SUFFICES ASSUME "renamed" \notin history'
               PROVE  /\ \A id \in DOMAIN persons' : persons'[id] = id
                      /\ \A i \in DOMAIN incident : Filed(i)'
                      /\ DOMAIN Renamings = {}
    BY <1>1, <1>3 DEF Invariant, CalmInv, Busy
  <2>1. "renamed" \notin history /\ DOMAIN Renamings = {}
    <3>1. Renamings = <<>>
      BY <1>1
    <3>2. DOMAIN Renamings = {}
      BY <3>1, Nothing
    <3> QED BY <3>1, <3>2, <1>1
  <2>2. \A id \in DOMAIN persons' : persons'[id] = id
    BY <2>1, <1>2 DEF Invariant, CalmInv
  <2>3. \A p : IdIn(persons', p) = p /\ PersonId(p) = p
    <3>1. IsInjective(persons') /\ IsInjective(persons)
      BY <1>2 DEF Store, Invariant, StoreInv
    <3>2. \A id \in DOMAIN persons : persons[id] = id
      BY <2>1 DEF Invariant, CalmInv
    <3> QED BY <3>1, <3>2, <2>2, OwnIds DEF PersonId
  <2>4. \A i \in DOMAIN incident : Filed(i)'
    BY <2>1, <2>3, <1>1 DEF Invariant, CalmInv, Filed, PersonId, BagId
  <2> QED BY <2>1, <2>2, <2>4
<1>11. KeptIds'
  <2>1. \A t \in seen \ DOMAIN resolved : t \in tempPersons \cup Visible => t \in tempPersons'
    BY <1>1, <1>3, Apart DEF Invariant, WireInv
  <2> QED BY <1>1, <2>1 DEF Invariant, KeptIds, Waiting, WaitingBags, Visible
<1>12. KeptBags'
  BY <1>1 DEF Invariant, KeptBags, IsFiled
<1>13. SceneTypes'
  BY UpdatePersonsTypes
<1> QED BY <1>4, <1>5, <1>6, <1>7, <1>8, <1>9, <1>10, <1>11, <1>12, <1>13 DEF Invariant

-----------------------------------------------------------------------------
(* BagManager.update. *)
\* The bags as the invariant has them: the owners are objects, the scores of known ids.
GoodBags == {x \in Bag :
    /\ x.owners \subseteq Objects
    /\ x.owner # None => x.owners # {}
    /\ \A p \in PersonIds : x.scores[p] > 0 => p \in TempPersons \cup DOMAIN persons}

LEMMA BagsAreGood ==
    ASSUME Invariant
    PROVE  bag \in [BagIds -> GoodBags]
<1>1. bag \in [BagIds -> Bag]
  BY DEF Invariant, SceneTypes
<1>2. ASSUME NEW b \in BagIds PROVE bag[b] \in GoodBags
  BY <1>1 DEF Invariant, PeopleInv, GoodBags
<1> QED BY <1>1, <1>2

\* What the fields of a bag are.
LEMMA BagFields ==
    ASSUME NEW x \in Bag
    PROVE  /\ x.owner \in PersonIds \cup {None} /\ x.owners \in SUBSET PersonIds
           /\ x.scores \in [PersonIds -> 0..OwnerThreshold + 1]
           /\ x.alone \in 0..UnattendedTime + 1 /\ x.gone \in 0..UnattendedTime + 1
           /\ x.unattended \in BOOLEAN /\ x.hits \in 0..2 /\ x.firstCheck \in BOOLEAN
  BY DEF Bag

\* A merge keeps them so, and keeps the owner.
LEMMA MergeIsGood ==
    ASSUME NEW x \in GoodBags, NEW y \in GoodBags
    PROVE  Merge(x, y) \in GoodBags /\ (x.owner # None => Merge(x, y).owner = x.owner)
<1>1. x \in Bag /\ y \in Bag
  BY DEF GoodBags
<1> DEFINE hits == Capped(x.hits + y.hits, 2)
           scores == [p \in PersonIds |-> IF y.scores[p] > 0 THEN y.scores[p] ELSE x.scores[p]]
<1>2. hits \in 0..2
  <2>1. x.hits + y.hits \in Nat /\ 2 \in Nat
    BY <1>1, BagFields
  <2> QED BY <2>1, CappedIs
<1>3. scores \in [PersonIds -> 0..OwnerThreshold + 1]
  BY <1>1, BagFields
<1>4. \A p \in PersonIds : scores[p] > 0 => p \in TempPersons \cup DOMAIN persons
  BY DEF GoodBags
<1>5. CASE x.owner # None
  <2>1. Merge(x, y) = [x EXCEPT !.hits = hits]
    BY <1>5 DEF Merge
  <2> HIDE DEF hits, scores
  <2> QED BY <2>1, <1>1, <1>2, <1>5 DEF GoodBags, Bag
<1>6. CASE x.owner = None /\ y.owner = None
  <2>1. Merge(x, y) = [x EXCEPT !.hits = hits, !.scores = scores]
    BY <1>6 DEF Merge
  <2> HIDE DEF hits, scores
  <2> QED BY <2>1, <1>1, <1>2, <1>3, <1>4, <1>6 DEF GoodBags, Bag
<1>7. CASE x.owner = None /\ y.owner # None
  <2>1. Merge(x, y) = [y EXCEPT !.hits = hits, !.scores = scores,
                                !.gone = x.gone, !.firstCheck = x.firstCheck]
    BY <1>7 DEF Merge
  <2>2. x.gone \in 0..UnattendedTime + 1 /\ x.firstCheck \in BOOLEAN
    BY <1>1, BagFields
  <2> HIDE DEF hits, scores
  <2> QED BY <2>1, <2>2, <1>1, <1>2, <1>3, <1>4, <1>7 DEF GoodBags, Bag
<1> QED BY <1>5, <1>6, <1>7

\* So do the hits and the ages.
LEMMA SeenAndAged ==
    ASSUME NEW x \in GoodBags
    PROVE  /\ Seen(x) \in GoodBags /\ Seen(x).owner = x.owner /\ Seen(x).unattended = x.unattended
           /\ Aged(x) \in GoodBags /\ Aged(x).owner = x.owner /\ Aged(x).unattended = x.unattended
<1>1. x \in Bag
  BY DEF GoodBags
<1>2. x.hits + 1 \in Nat /\ x.alone + 1 \in Nat /\ x.gone + 1 \in Nat /\ UnattendedTime + 1 \in Nat
      /\ 2 \in Nat
  BY <1>1, BagFields, SceneAssumption
<1> DEFINE hits == Capped(x.hits + 1, 2)
           alone == Capped(x.alone + 1, UnattendedTime + 1)
           gone == Capped(x.gone + 1, UnattendedTime + 1)
<1>3. hits \in 0..2 /\ alone \in 0..UnattendedTime + 1 /\ gone \in 0..UnattendedTime + 1
  BY <1>2, CappedIs
<1>4. Seen(x) = [x EXCEPT !.gone = 0, !.hits = hits] /\ Aged(x) = [x EXCEPT !.alone = alone,
      !.gone = gone]
  BY DEF Seen, Aged
<1>5. 0 \in 0..UnattendedTime + 1
  BY SceneAssumption
<1> HIDE DEF hits, alone, gone
<1>6. Seen(x) \in GoodBags /\ Seen(x).owner = x.owner /\ Seen(x).unattended = x.unattended
  BY <1>1, <1>3, <1>4, <1>5 DEF GoodBags, Bag
<1>7. Aged(x) \in GoodBags /\ Aged(x).owner = x.owner /\ Aged(x).unattended = x.unattended
  BY <1>1, <1>3, <1>4 DEF GoodBags, Bag
<1> QED BY <1>6, <1>7

\* A bag that others are merged into stays good and keeps its owner.
LEMMA MergedIsGood ==
    ASSUME NEW old \in [BagIds -> GoodBags], NEW b \in BagIds, NEW S, S \subseteq BagIds, IsFiniteSet(S)
    PROVE  /\ MergedBag(old, b, S) \in GoodBags
           /\ old[b].owner # None => MergedBag(old, b, S).owner = old[b].owner
<1>1. old[b] \in GoodBags /\ \A t \in S : old[t] \in GoodBags
  OBVIOUS
<1>2. MergedBag(old, b, S) \in GoodBags
  <2>1. \A x \in GoodBags, y \in GoodBags : Merge(x, y) \in GoodBags
    BY MergeIsGood
  <2> QED BY <1>1, <2>1, MergedBagIn
<1>3. ASSUME old[b].owner # None PROVE MergedBag(old, b, S).owner = old[b].owner
  <2> DEFINE G == {x \in GoodBags : x.owner = old[b].owner}
  <2>1. \A x \in G, y \in GoodBags : Merge(x, y) \in G
    BY <1>3, MergeIsGood
  <2>2. old[b] \in G
    BY <1>1
  <2>3. MergedBag(old, b, S) \in G
    <3> HIDE DEF G
    <3> QED BY <1>1, <2>1, <2>2, MergedBagIn
  <2> QED BY <2>3
<1> QED BY <1>2, <1>3

\* The store of the bags after the promotions of a frame.
LEMMA BagsPromoted ==
    ASSUME Invariant, UpdateBags
    PROVE  /\ wire \in Views /\ wire # NoFrame /\ DOMAIN wire.bagUpdates \subseteq tempBags
           /\ Store(TempBags, RealBags, DOMAIN resolved, bags')
           /\ bags' \in Partial(RealBags, BagIds)
           /\ Holds(bags, wire.bagUpdates, DOMAIN wire.bags \cap RealBags, bags')
           /\ Range(bags) \subseteq Range(bags')
           /\ Range(bags') \cap TempBags \subseteq Range(bags) \cup DOMAIN wire.bagUpdates
<1> DEFINE updates == wire.bagUpdates
           tracks == DOMAIN wire.bags \cap RealBags
<1>1. PICK heir \in Heirs(bags, updates) : bags' = Promoted(bags, heir, tracks)
  BY DEF UpdateBags
<1>2. wire \in Views /\ wire # NoFrame /\ DOMAIN updates \subseteq tempBags
  BY DEF UpdateBags, Invariant, WireInv, Busy
<1>3. Renames(TempBags, RealBags, updates)
  BY <1>2, FrameIs
<1>4. /\ Store(TempBags, RealBags, DOMAIN resolved, bags) /\ DOMAIN updates \subseteq DOMAIN resolved
      /\ DOMAIN updates \cap Range(bags) = {}
  BY <1>2 DEF Invariant, StoreInv, WireInv
<1>5. tracks \subseteq RealBags /\ TempBags \cap RealBags = {}
  BY Apart
<1> HIDE DEF updates, tracks
<1>6. Keeps(TempBags, RealBags, DOMAIN resolved, bags, updates, bags')
  BY <1>1, <1>3, <1>4, <1>5, PromotedStore
<1>7. Holds(bags, updates, tracks, bags')
  BY <1>1, PromotedIs
<1>8. bags' \in Partial(RealBags, BagIds)
  BY <1>6, Apart DEF Keeps
<1> QED BY <1>2, <1>6, <1>7, <1>8 DEF Keeps, updates, tracks

\* The bags themselves.
LEMMA BagsMerged ==
    ASSUME Invariant, UpdateBags
    PROVE  /\ bag' \in [BagIds -> GoodBags]
           /\ \A b \in BagIds : bag[b].owner # None => bag'[b].owner = bag[b].owner
           /\ \A b \in BagIds \ Range(bags') : bag'[b].unattended = bag[b].unattended
<1> DEFINE old == [b \in BagIds |-> IF b \in tempBags \cup Range(bags) THEN Aged(bag[b]) ELSE bag[b]]
           others(b) == Absorbed(b, bags', wire.bagUpdates)
           merged(b) == MergedBag(old, b, others(b))
           visible == {IF id \in TempBags THEN id ELSE bags'[id] : id \in DOMAIN wire.bags}
<1>1. bag' = [b \in BagIds |-> IF b \in visible THEN Seen(merged(b)) ELSE merged(b)]
  BY DEF UpdateBags
<1>2. wire \in Views /\ bag \in [BagIds -> GoodBags]
  BY BagsPromoted, BagsAreGood
<1>3. IsFiniteSet(DOMAIN wire.bagUpdates) /\ DOMAIN wire.bagUpdates \subseteq BagIds
  BY <1>2, FrameIs, Apart DEF Renames
<1>4. /\ old \in [BagIds -> GoodBags]
      /\ \A b \in BagIds : old[b].owner = bag[b].owner /\ old[b].unattended = bag[b].unattended
  BY <1>2, SeenAndAged
<1>5. ASSUME NEW b \in BagIds
      PROVE  /\ merged(b) \in GoodBags
             /\ old[b].owner # None => merged(b).owner = old[b].owner
             /\ b \notin Range(bags') => merged(b) = old[b]
  <2> DEFINE S == others(b)
  <2>1. S \in SUBSET DOMAIN wire.bagUpdates
    BY DEF Absorbed
  <2>2. S \subseteq BagIds /\ IsFiniteSet(S)
    <3> HIDE DEF S
    <3> QED BY <2>1, <1>3, FS_Subset
  <2>3. /\ MergedBag(old, b, S) \in GoodBags
        /\ old[b].owner # None => MergedBag(old, b, S).owner = old[b].owner
    <3> HIDE DEF S, old
    <3> QED BY <2>2, <1>4, MergedIsGood
  <2>4. ASSUME b \notin Range(bags') PROVE S = {}
    <3> SUFFICES ASSUME NEW t \in S PROVE FALSE
      OBVIOUS
    <3>1. t \in DOMAIN wire.bagUpdates /\ bags'[wire.bagUpdates[t]] = b
      BY DEF Absorbed
    <3>2. wire.bagUpdates[t] \in DOMAIN bags'
      BY <3>1, BagsPromoted DEF Holds, Range
    <3> QED BY <3>1, <3>2, <2>4 DEF Range
  <2>5. MergedBag(old, b, {}) = old[b]
    <3> HIDE DEF old
    <3> QED BY NothingMerged
  <2> HIDE DEF S, old
  <2> QED BY <2>3, <2>4, <2>5 DEF S
<1> HIDE DEF merged, visible, old
<1>6. ASSUME NEW b \in BagIds
      PROVE  /\ bag'[b] \in GoodBags
             /\ bag[b].owner # None => bag'[b].owner = bag[b].owner
             /\ b \notin Range(bags') => bag'[b].unattended = bag[b].unattended
  <2>1. bag'[b] = Seen(merged(b)) \/ bag'[b] = merged(b)
    BY <1>1
  <2>2. merged(b) \in GoodBags /\ Seen(merged(b)) \in GoodBags
        /\ Seen(merged(b)).owner = merged(b).owner
        /\ Seen(merged(b)).unattended = merged(b).unattended
    BY <1>5, SeenAndAged
  <2> QED BY <2>1, <2>2, <1>4, <1>5
<1> QED BY <1>1, <1>6

LEMMA UpdateBagsStep ==
    ASSUME Invariant, UpdateBags
    PROVE  Invariant'
<1> USE DEF personVars, storeVars, mapVars, outputVars, reidVars
<1>1. /\ pc = "bags" /\ pc' = "owners"
      /\ tempBags' = (tempBags \ DOMAIN wire.bagUpdates) \cup (DOMAIN wire.bags \cap TempBags)
      /\ history' = IF wire.bagUpdates = <<>> THEN history ELSE history \cup {"renamed"}
      /\ UNCHANGED <<reidVars, personVars, threat, incident, fresh, mapVars, outputVars>>
  BY DEF UpdateBags
<1>2. /\ wire \in Views /\ wire # NoFrame /\ DOMAIN wire.bagUpdates \subseteq tempBags
      /\ Store(TempBags, RealBags, DOMAIN resolved, bags')
      /\ bags' \in Partial(RealBags, BagIds)
      /\ Holds(bags, wire.bagUpdates, DOMAIN wire.bags \cap RealBags, bags')
      /\ Range(bags) \subseteq Range(bags')
      /\ Range(bags') \cap TempBags \subseteq Range(bags) \cup DOMAIN wire.bagUpdates
  BY BagsPromoted
<1>3. /\ DOMAIN bags' = DOMAIN bags \cup Range(wire.bagUpdates) \cup (DOMAIN wire.bags \cap RealBags)
      /\ \A id \in DOMAIN bags : bags'[id] = bags[id]
      /\ \A id \in Range(wire.bagUpdates) \ DOMAIN bags : bags'[id] \in DOMAIN wire.bagUpdates
      /\ \A id \in (DOMAIN wire.bags \cap RealBags) \ (DOMAIN bags \cup Range(wire.bagUpdates)) :
           bags'[id] = id
  BY <1>2 DEF Holds
<1>4. /\ DOMAIN wire.bagUpdates \subseteq DOMAIN resolved /\ DOMAIN wire.bags \cap DOMAIN resolved = {}
      /\ DOMAIN wire.bags \subseteq BagIds /\ DOMAIN wire.bagUpdates \subseteq TempBags
      /\ tempBags \subseteq TempBags
  BY <1>2, FrameIs DEF Invariant, WireInv, SceneTypes, Renames
<1>5. /\ bag' \in [BagIds -> GoodBags]
      /\ \A b \in BagIds \ Range(bags') : bag'[b].unattended = bag[b].unattended
  BY BagsMerged
<1>6. SceneTypes'
  <2>1. bag' \in [BagIds -> Bag]
    BY <1>5 DEF GoodBags
  <2>2. tempBags' \subseteq TempBags /\ history' \subseteq {"lost", "renamed", "twice"}
    BY <1>1, <1>4 DEF Invariant, SceneTypes
  <2> QED BY <1>1, <1>2, <2>1, <2>2 DEF Invariant, SceneTypes
<1>7. WireInv' /\ MapsAgree' /\ BagMapInv' /\ PeopleAreFiled'
  BY <1>1 DEF Invariant, WireInv, MapsAgree, BagMapInv, PeopleAreFiled, Busy
<1>8. StoreInv'
  <2>1. tempBags' \cap Range(bags') = {}
    BY <1>1, <1>2, <1>4 DEF Invariant, StoreInv, Store
  <2> QED BY <1>1, <1>2, <2>1 DEF Invariant, StoreInv
<1>9. PhaseInv'
  <2>1. DOMAIN wire.bags \subseteq tempBags' \cup DOMAIN bags'
    BY <1>1, <1>3, <1>4, Apart
  <2> QED BY <1>1, <2>1 DEF Invariant, PhaseInv, Busy, Renamings
<1>10. PeopleInv'
  <2>1. \A b \in BagIds :
         /\ bag'[b].owners \subseteq Objects
         /\ bag'[b].owner # None => bag'[b].owners # {}
         /\ \A p \in PersonIds : bag'[b].scores[p] > 0 => p \in TempPersons \cup DOMAIN persons
    BY <1>5 DEF GoodBags
  <2> QED BY <1>1, <2>1 DEF Invariant, PeopleInv, Objects
<1>11. FiledInv'
  BY <1>1 DEF Invariant, FiledInv, Busy, New, Renamings, PersonId
<1>12. CalmInv'
  <2> SUFFICES ASSUME "renamed" \notin history'
               PROVE  /\ \A id \in DOMAIN bags' : bags'[id] = id
                      /\ \A i \in DOMAIN incident : Filed(i)'
    BY <1>1 DEF Invariant, CalmInv, Busy, Renamings
  <2>1. "renamed" \notin history /\ DOMAIN wire.bagUpdates = {} /\ Range(wire.bagUpdates) = {}
    <3>1. wire.bagUpdates = <<>>
      BY <1>1
    <3>2. DOMAIN wire.bagUpdates = {} /\ Range(wire.bagUpdates) = {}
      BY <3>1, Nothing
    <3> QED BY <3>1, <3>2, <1>1
  <2>2. \A id \in DOMAIN bags' : bags'[id] = id
    BY <2>1, <1>3 DEF Invariant, CalmInv
  <2>3. \A b : IdIn(bags', b) = b /\ BagId(b) = b
    <3>1. IsInjective(bags') /\ IsInjective(bags)
      BY <1>2 DEF Store, Invariant, StoreInv
    <3>2. \A id \in DOMAIN bags : bags[id] = id
      BY <2>1 DEF Invariant, CalmInv
    <3> QED BY <3>1, <3>2, <2>2, OwnIds DEF BagId
  <2>4. \A i \in DOMAIN incident : Filed(i)'
    BY <2>1, <2>3, <1>1 DEF Invariant, CalmInv, Filed, PersonId, BagId
  <2> QED BY <2>2, <2>4
<1>13. KeptIds'
  <2> SUFFICES ASSUME "lost" \notin history PROVE KeptIds'
    BY <1>1 DEF KeptIds
  <2>1. /\ \A t \in seen \ DOMAIN resolved : t \in tempPersons \cup tempBags \/ t \in DOMAIN wire.bags
        /\ DOMAIN wire.bags \cap RealBags \subseteq DOMAIN bags \cup Range(wire.bagUpdates)
        /\ \A id \in Range(resolved) \cap RealBags : id \in DOMAIN bags \/ id \in Range(wire.bagUpdates)
        /\ \A id \in DOMAIN bags : bags[id] \in TempBags
    BY <1>1, <1>2 DEF Invariant, KeptIds, Waiting, WaitingBags
  <2>2. \A t \in seen \ DOMAIN resolved : t \in tempBags \cup DOMAIN wire.bags => t \in tempBags'
    BY <1>1, <1>4, Apart DEF Invariant, WireInv
  <2>3. \A id \in DOMAIN bags' : bags'[id] \in TempBags
    BY <2>1, <1>3, <1>4
  <2> QED BY <1>1, <1>3, <2>1, <2>2, <2>3 DEF KeptIds, Waiting, WaitingBags
<1>14. KeptBags'
  BY <1>1, <1>2, <1>5, Apart DEF Invariant, KeptBags, IsFiled
<1> QED BY <1>6, <1>7, <1>8, <1>9, <1>10, <1>11, <1>12, <1>13, <1>14 DEF Invariant

-----------------------------------------------------------------------------
(* BagManager.get_new_bag_owners. *)
\* An id that is known names an object.
LEMMA PersonOfIs ==
    ASSUME Invariant, NEW p \in TempPersons \cup DOMAIN persons
    PROVE  PersonOf(p) \in Objects /\ PersonOf(p) \in PersonIds /\ p \in PersonIds
<1>1. /\ DOMAIN persons \subseteq RealPersons
      /\ \A id \in DOMAIN persons : persons[id] \in TempPersons \cup {id}
  BY DEF Invariant, StoreInv, Store
<1>2. CASE p \in TempPersons
  BY <1>2, Apart DEF PersonOf, Objects
<1>3. CASE p \notin TempPersons
  <2>1. p \in DOMAIN persons /\ PersonOf(p) = persons[p]
    BY <1>3 DEF PersonOf
  <2> QED BY <2>1, <1>1, Apart DEF Objects, Range
<1> QED BY <1>2, <1>3

\* So does one of a bag, once the bags of the frame are in the store.
LEMMA BagOfIs ==
    ASSUME Invariant, NEW id \in tempBags \cup DOMAIN bags
    PROVE  BagOf(id) \in BagIds
<1>1. /\ DOMAIN bags \subseteq RealBags /\ tempBags \subseteq TempBags
      /\ \A x \in DOMAIN bags : bags[x] \in TempBags \cup {x}
  BY DEF Invariant, StoreInv, Store, SceneTypes
<1> QED BY <1>1, Apart DEF BagOf

LEMMA VisibleBagsAre ==
    ASSUME Invariant, Busy, pc # "bags"
    PROVE  VisibleBags \subseteq BagIds /\ IsFiniteSet(VisibleBags)
<1>1. wire \in Views /\ DOMAIN wire.bags \subseteq tempBags \cup DOMAIN bags
  BY DEF Invariant, WireInv, PhaseInv
<1>2. \A id \in DOMAIN wire.bags : BagOf(id) \in BagIds
  BY <1>1, BagOfIs
<1> DEFINE f == [id \in DOMAIN wire.bags |-> BagOf(id)]
<1>3. VisibleBags = {f[id] : id \in DOMAIN wire.bags}
  BY DEF VisibleBags
<1>4. IsFiniteSet(DOMAIN wire.bags)
  BY <1>1, FrameIs
<1>5. IsFiniteSet({f[id] : id \in DOMAIN wire.bags})
  <2> HIDE DEF f
  <2> QED BY <1>4, ImageIsFinite
<1> QED BY <1>2, <1>3, <1>5

\* What becomes of a bag without owner: who is near is known, and so is who scored.
LEMMA FoundIsGood ==
    ASSUME Invariant, NEW b \in GoodBags, NEW near,
           near \subseteq {p \in PersonIds : KnownPerson(p)}, NEW x \in Found(b, near)
    PROVE  x \in GoodBags /\ x.unattended = b.unattended
<1> DEFINE scores == [p \in PersonIds |->
                        Capped(b.scores[p] + (IF p \in near THEN 1 ELSE 0), OwnerThreshold + 1)]
           sure == {p \in Best(scores, PersonIds) : scores[p] > OwnerThreshold}
           checks == ~b.firstCheck /\ b.hits > 1
           likely == IF checks THEN Best(scores, {p \in PersonIds : KnownPerson(p)}) ELSE {}
           candidates == IF sure # {} THEN sure ELSE likely
           scored == [b EXCEPT !.scores = scores, !.firstCheck = @ \/ checks]
           Known == TempPersons \cup DOMAIN persons
<1>1. b \in Bag /\ OwnerThreshold \in Nat
  BY SceneAssumption DEF GoodBags
<1>2. tempPersons \subseteq TempPersons /\ near \subseteq Known
  BY DEF Invariant, SceneTypes, KnownPerson
<1>3. ASSUME NEW p \in PersonIds
      PROVE  scores[p] \in 0..OwnerThreshold + 1 /\ (scores[p] > 0 => p \in Known)
  <2> DEFINE n == b.scores[p] + (IF p \in near THEN 1 ELSE 0)
  <2>1. b.scores[p] \in Nat /\ OwnerThreshold + 1 \in Nat /\ n \in Nat
    BY <1>1, BagFields
  <2>2. Capped(n, OwnerThreshold + 1) \in 0..OwnerThreshold + 1
    BY <2>1, CappedIs
  <2>3. ASSUME p \notin Known PROVE Capped(n, OwnerThreshold + 1) = 0
    <3>1. ~(b.scores[p] > 0) /\ p \notin near
      BY <2>3, <1>2 DEF GoodBags
    <3>2. n = 0
      BY <3>1, <2>1
    <3> QED BY <3>2, <1>1 DEF Capped
  <2> QED BY <2>2, <2>3
<1>4. scores \in [PersonIds -> 0..OwnerThreshold + 1]
  BY <1>3
<1>5. candidates \subseteq Known
  <2>1. sure \subseteq Known
    <3> SUFFICES ASSUME NEW p \in PersonIds, scores[p] > OwnerThreshold PROVE p \in Known
      BY DEF Best
    <3> HIDE DEF scores, Known
    <3> QED BY <1>1, <1>3
  <2>2. likely \subseteq Known
    BY <1>2 DEF Best, KnownPerson
  <2> QED BY <2>1, <2>2
<1>6. \/ x = scored
      \/ \E p \in candidates : x = [scored EXCEPT !.owner = PersonOf(p), !.owners = {PersonOf(p)}]
  <2>1. Found(b, near) = IF candidates = {} THEN {scored}
          ELSE {[scored EXCEPT !.owner = PersonOf(p), !.owners = {PersonOf(p)}] : p \in candidates}
    BY DEF Found
  <2> HIDE DEF candidates, scored
  <2> QED BY <2>1
<1>7. scored \in GoodBags /\ scored.unattended = b.unattended
  <2> DEFINE check == b.firstCheck \/ checks
  <2>1. scored = [b EXCEPT !.scores = scores, !.firstCheck = check] /\ check \in BOOLEAN
    OBVIOUS
  <2> HIDE DEF scored, check, scores
  <2> QED BY <2>1, <1>1, <1>3, <1>4 DEF GoodBags, Bag
<1>8. ASSUME NEW p \in candidates
      PROVE  /\ [scored EXCEPT !.owner = PersonOf(p), !.owners = {PersonOf(p)}] \in GoodBags
             /\ [scored EXCEPT !.owner = PersonOf(p),
                !.owners = {PersonOf(p)}].unattended = b.unattended
  <2>1. PersonOf(p) \in Objects /\ PersonOf(p) \in PersonIds
    BY <1>5, PersonOfIs
  <2> DEFINE o == PersonOf(p)
  <2> HIDE DEF scored, candidates, o
  <2>2. [scored EXCEPT !.owner = o, !.owners = {o}] \in GoodBags
        /\ [scored EXCEPT !.owner = o, !.owners = {o}].unattended = b.unattended
    BY <2>1, <1>7 DEF GoodBags, Bag, o
  <2> QED BY <2>2 DEF o
<1> HIDE DEF scored, candidates
<1> QED BY <1>6, <1>7, <1>8

\* The bags after it.
LEMMA OwnersFound ==
    ASSUME Invariant, FindOwners
    PROVE  /\ bag' \in [BagIds -> GoodBags]
           /\ \A b \in BagIds : bag'[b].unattended = bag[b].unattended
           /\ \A b \in BagIds : bag[b].owner # None => bag'[b] = bag[b]
<1>1. bag \in [BagIds -> GoodBags]
  BY BagsAreGood
<1>2. CASE UNCHANGED bag
  BY <1>1, <1>2
<1>3. CASE Visible # {}
  <2> DEFINE known == {p \in PersonIds : KnownPerson(p)}
  <2>0. PICK near \in [Ownerless -> SUBSET known] :
          \E found \in [Ownerless -> UNION {Found(bag[b], near[b]) : b \in Ownerless}] :
            /\ \A b \in Ownerless : found[b] \in Found(bag[b], near[b])
            /\ bag' = Override(found, bag)
    BY <1>3 DEF FindOwners
  <2>1. PICK found \in [Ownerless -> UNION {Found(bag[b], near[b]) : b \in Ownerless}] :
          /\ \A b \in Ownerless : found[b] \in Found(bag[b], near[b])
          /\ bag' = Override(found, bag)
    BY <2>0
  <2>2. Ownerless \subseteq BagIds /\ \A b \in Ownerless : bag[b].owner = None
    <3>1. VisibleBags \subseteq BagIds
      BY VisibleBagsAre DEF FindOwners, Busy
    <3> QED BY <3>1 DEF Ownerless
  <2>3. ASSUME NEW b \in Ownerless PROVE found[b] \in GoodBags
               /\ found[b].unattended = bag[b].unattended
    <3>1. bag[b] \in GoodBags /\ near[b] \subseteq known /\ found[b] \in Found(bag[b], near[b])
      BY <1>1, <2>1, <2>2
    <3> QED BY <3>1, FoundIsGood
  <2>4. bag' = [x \in Ownerless \cup BagIds |-> IF x \in Ownerless THEN found[x] ELSE bag[x]]
    BY <1>1, <2>1 DEF Override
  <2> QED BY <1>1, <2>2, <2>3, <2>4
<1> QED BY <1>2, <1>3 DEF FindOwners

LEMMA FindOwnersStep ==
    ASSUME Invariant, FindOwners
    PROVE  Invariant'
<1> USE DEF personVars, storeVars, mapVars, outputVars, reidVars
<1>1. /\ pc = "owners" /\ pc' = "unattended"
      /\ UNCHANGED <<reidVars, history, personVars, threat, storeVars, incident, fresh, mapVars,
         outputVars>>
  BY DEF FindOwners
<1>2. /\ bag' \in [BagIds -> GoodBags]
      /\ \A b \in BagIds : bag'[b].unattended = bag[b].unattended
  BY OwnersFound
<1>3. SceneTypes'
  <2>1. bag' \in [BagIds -> Bag]
    BY <1>2 DEF GoodBags
  <2> QED BY <1>1, <2>1 DEF Invariant, SceneTypes
<1>4. WireInv' /\ StoreInv' /\ PhaseInv' /\ MapsAgree' /\ BagMapInv' /\ PeopleAreFiled'
  BY <1>1 DEF Invariant, WireInv, StoreInv, PhaseInv, MapsAgree, BagMapInv, PeopleAreFiled, Busy,
     Renamings
<1>5. PeopleInv'
  <2>1. \A b \in BagIds :
         /\ bag'[b].owners \subseteq Objects
         /\ bag'[b].owner # None => bag'[b].owners # {}
         /\ \A p \in PersonIds : bag'[b].scores[p] > 0 => p \in TempPersons \cup DOMAIN persons
    BY <1>2 DEF GoodBags
  <2> QED BY <1>1, <2>1 DEF Invariant, PeopleInv, Objects
<1>6. FiledInv'
  BY <1>1 DEF Invariant, FiledInv, Busy, New, Renamings, PersonId
<1>7. CalmInv' /\ KeptIds'
  BY <1>1 DEF Invariant, CalmInv, KeptIds, Filed, PersonId, BagId, Busy, Renamings, Waiting, WaitingBags
<1>8. KeptBags'
  BY <1>1, <1>2, Apart DEF Invariant, KeptBags, IsFiled
<1> QED BY <1>3, <1>4, <1>5, <1>6, <1>7, <1>8 DEF Invariant

-----------------------------------------------------------------------------
(* BagManager.get_new_unattended_bags. *)
\* The id of an object is an id of its kind.
LEMMA IdsAre ==
    ASSUME Invariant
    PROVE  /\ \A p \in PersonIds : PersonId(p) \in PersonIds
           /\ \A b \in BagIds : BagId(b) \in BagIds
           /\ \A p : PersonId(p) \in TempPersons => PersonId(p) = p
           /\ \A b : BagId(b) \in TempBags => BagId(b) = b
           /\ \A p : p \notin Range(persons) => PersonId(p) = p
           /\ \A b : b \notin Range(bags) => BagId(b) = b
<1>1. /\ DOMAIN persons \subseteq RealPersons /\ IsInjective(persons)
      /\ DOMAIN bags \subseteq RealBags /\ IsInjective(bags)
  BY DEF Invariant, StoreInv, Store
<1>2. ASSUME NEW p
      PROVE  /\ p \in PersonIds => PersonId(p) \in PersonIds
             /\ PersonId(p) \in TempPersons => PersonId(p) = p
             /\ p \notin Range(persons) => PersonId(p) = p
  <2>1. PersonId(p) = p \/ PersonId(p) \in DOMAIN persons
    BY <1>1, IdInIs DEF PersonId
  <2>2. p \notin Range(persons) => PersonId(p) = p
    BY <1>1, IdInIs DEF PersonId
  <2> QED BY <1>1, <2>1, <2>2, Apart
<1>3. ASSUME NEW b
      PROVE  /\ b \in BagIds => BagId(b) \in BagIds
             /\ BagId(b) \in TempBags => BagId(b) = b
             /\ b \notin Range(bags) => BagId(b) = b
  <2>1. BagId(b) = b \/ BagId(b) \in DOMAIN bags
    BY <1>1, IdInIs DEF BagId
  <2>2. b \notin Range(bags) => BagId(b) = b
    BY <1>1, IdInIs DEF BagId
  <2> QED BY <1>1, <2>1, <2>2, Apart
<1> QED BY <1>2, <1>3

\* An incident that is raised.
LEMMA RaiseIs ==
    ASSUME Invariant, NEW kind \in {"GUN", "BAG"}, NEW b \in BagIds \cup {None},
           NEW people, people \subseteq PersonIds
    PROVE  /\ Raise(kind, b, people) \in Incident
           /\ Raise(kind, b, people).kind = kind /\ Raise(kind, b, people).bag = b
           /\ Raise(kind, b, people).people = people
           /\ \A p \in people : PersonId(p) \in Raise(kind, b, people).roles
           /\ b # None => BagId(b) \in Raise(kind, b, people).roles
<1> DEFINE roles == {PersonId(p) : p \in people} \cup (IF b = None THEN {} ELSE {BagId(b)})
<1>1. roles \subseteq PersonIds \cup BagIds
  BY IdsAre
<1>2. Raise(kind, b, people) = [kind |-> kind, bag |-> b, people |-> people, resolved |-> FALSE,
                                confirmed |-> FALSE, roles |-> roles]
  BY DEF Raise
<1>3. /\ \A p \in people : PersonId(p) \in roles
      /\ b # None => BagId(b) \in roles
  OBVIOUS
<1> HIDE DEF roles
<1> QED BY <1>1, <1>2, <1>3 DEF Incident

\* What the fields of an incident are.
LEMMA IncidentFields ==
    ASSUME NEW x \in Incident
    PROVE  /\ x.kind \in {"GUN", "BAG"} /\ x.bag \in BagIds \cup {None} /\ x.people \in SUBSET PersonIds
           /\ x.roles \in SUBSET (PersonIds \cup BagIds)
           /\ x.resolved \in BOOLEAN /\ x.confirmed \in BOOLEAN
  BY DEF Incident

LEMMA IncidentsAre ==
    ASSUME Invariant
    PROVE  /\ incident \in Seq(Incident) /\ Len(incident) \in Nat /\ DOMAIN incident = 1..Len(incident)
           /\ \A i \in DOMAIN incident : incident[i] \in Incident
           /\ fresh \in 0..Len(incident) /\ managed \subseteq DOMAIN incident
           /\ Len(incident) <= MaxIncidents /\ MaxIncidents \in Nat
<1>1. /\ incident \in Seq(Incident) /\ fresh \in 0..Len(incident) /\ managed \subseteq DOMAIN incident
      /\ Len(incident) <= MaxIncidents /\ MaxIncidents \in Nat
  BY SceneAssumption DEF Invariant, SceneTypes
<1>2. Len(incident) \in Nat /\ DOMAIN incident = 1..Len(incident)
  BY <1>1
<1>3. \A i \in DOMAIN incident : incident[i] \in Incident
  BY <1>1
<1> QED BY <1>1, <1>2, <1>3

\* The parts of a scan.
Scannable == {b \in VisibleBags : bag[b].hits > 1}
Left(scan) == {b \in scan.bags : ~Attended(b) /\ bag[b].alone > UnattendedTime}
Raised(scan) == {b \in Left(scan) : ~bag[b].unattended}
Back(scan) == {b \in scan.bags \ Left(scan) : bag[b].unattended}
Ended(scan) == {bagIncident[BagId(b)] : b \in Back(scan)}
ScannedBag(scan, b) ==
    IF b = scan.last THEN [bag[b] EXCEPT !.alone = 0]
    ELSE IF b \notin scan.bags THEN bag[b]
    ELSE IF b \in Back(scan) THEN [ResolvedBag(bag[b]) EXCEPT !.owner = Owner(b)]
    ELSE [bag[b] EXCEPT !.owner = Owner(b),
                        !.alone = IF Attended(b) THEN 0 ELSE @,
                        !.unattended = @ \/ b \in Raised(scan)]
Reports(scan) == {Raise("BAG", b, bag[b].owners) : b \in Raised(scan)}
ResolvedBy(scan) ==
    [i \in DOMAIN incident |-> [incident[i] EXCEPT !.resolved = @ \/ i \in Ended(scan)]]
Scans(scan) ==
    /\ {BagId(b) : b \in Back(scan)} \subseteq DOMAIN bagIncident
    /\ bag' = [b \in BagIds |-> ScannedBag(scan, b)]
    /\ bagIncident' = Restrict(bagIncident, DOMAIN bagIncident \ {BagId(b) : b \in Back(scan)})
    /\ Len(incident) + Cardinality(Reports(scan)) <= MaxIncidents
    /\ incident' = ResolvedBy(scan) \o SetToSeq(Reports(scan))
    /\ fresh' = Cardinality(Reports(scan))

LEMMA ScanIs ==
    ASSUME ScanBags
    PROVE  \E scan \in Scanned(Scannable) : Scans(scan)
  BY DEF ScanBags, Scans, Scannable, Left, Raised, Back, Ended, ScannedBag, Reports, ResolvedBy

\* It looks at bags in view, none of which has an owner under a temporary id beside it.
LEMMA ScannedAre ==
    ASSUME Invariant, pc = "unattended", NEW scan \in Scanned(Scannable)
    PROVE  /\ scan.bags \subseteq VisibleBags /\ scan.bags \subseteq BagIds /\ IsFiniteSet(scan.bags)
           /\ \A b \in scan.bags : ~TempOwnerStands(b)
<1>1. VisibleBags \subseteq BagIds /\ IsFiniteSet(VisibleBags)
  BY VisibleBagsAre DEF Busy
<1> DEFINE standing == {b \in Scannable : TempOwnerStands(b)}
<1>2. \/ scan = [last |-> None, bags |-> Scannable] /\ standing = {}
      \/ scan \in [last : standing, bags : SUBSET (Scannable \ standing)]
  BY DEF Scanned
<1>3. scan.bags \subseteq Scannable \ standing
  BY <1>2
<1>4. scan.bags \in SUBSET VisibleBags
  BY <1>3 DEF Scannable
<1> QED BY <1>1, <1>3, <1>4, FS_Subset

\* The owner of a bag after it: another one only by the replacement of his id.
LEMMA OwnerIs ==
    ASSUME Invariant, NEW b \in BagIds
    PROVE  /\ Owner(b) \in PersonIds \cup {None}
           /\ Owner(b) # None => bag[b].owner # None
           /\ Owner(b) # bag[b].owner =>
                /\ bag[b].owner # None
                /\ bag[b].owner \in DOMAIN tempToId
                /\ Owner(b) = persons[tempToId[bag[b].owner]]
<1>1. bag[b].owner \in PersonIds \cup {None}
  BY BagsAreGood, BagFields DEF GoodBags
<1>2. CASE Owner(b) = bag[b].owner
  BY <1>1, <1>2
<1>3. CASE Owner(b) # bag[b].owner
  <2> DEFINE id == PersonId(bag[b].owner)
  <2>1. HasTempOwner(b) /\ id \in DOMAIN tempToId /\ Owner(b) = persons[tempToId[id]]
    BY <1>3 DEF Owner
  <2>2. bag[b].owner # None /\ id = bag[b].owner
    BY <2>1, IdsAre DEF HasTempOwner
  <2>3. tempToId[id] \in DOMAIN persons
    BY <2>1 DEF Invariant, StoreInv, Range
  <2>4. persons[tempToId[id]] \in PersonIds
    <3>1. persons \in Partial(RealPersons, PersonIds)
      BY DEF Invariant, SceneTypes
    <3>2. persons \in [DOMAIN persons -> PersonIds]
      BY <3>1, PartialIs
    <3> QED BY <3>2, <2>3
  <2> QED BY <2>1, <2>2, <2>4
<1> QED BY <1>2, <1>3

\* The bags after it.
LEMMA BagsScanned ==
    ASSUME Invariant, pc = "unattended", NEW scan \in Scanned(Scannable), Scans(scan)
    PROVE  /\ bag' \in [BagIds -> GoodBags]
           /\ \A b \in BagIds :
                /\ bag'[b].owner \in {bag[b].owner, Owner(b)}
                /\ bag'[b].unattended
                     => b \in Raised(scan) \/ (bag[b].unattended /\ b \notin Back(scan))
<1>1. bag' = [b \in BagIds |-> ScannedBag(scan, b)]
  BY DEF Scans
<1>2. ASSUME NEW b \in BagIds
      PROVE  /\ ScannedBag(scan, b) \in GoodBags
             /\ ScannedBag(scan, b).owner \in {bag[b].owner, Owner(b)}
             /\ ScannedBag(scan, b).unattended
                  => b \in Raised(scan) \/ (bag[b].unattended /\ b \notin Back(scan))
  <2> DEFINE x == bag[b]
             o == Owner(b)
  <2>1. x \in GoodBags /\ x \in Bag
    BY BagsAreGood DEF GoodBags
  <2>2. o \in PersonIds \cup {None} /\ (o # None => x.owner # None)
    BY OwnerIs
  <2>3. 0 \in 0..UnattendedTime + 1 /\ x.alone \in 0..UnattendedTime + 1
        /\ x.gone \in 0..UnattendedTime + 1
        /\ x.unattended \in BOOLEAN
    BY <2>1, BagFields, SceneAssumption
  <2>4. ASSUME b \in Back(scan) PROVE b \notin Raised(scan) /\ b \in scan.bags
    BY <2>4 DEF Back, Raised
  <2>5. \A c \in Raised(scan) : c \in scan.bags
    BY DEF Raised, Left
  <2>6. CASE b = scan.last
    <3>1. ScannedBag(scan, b) = [x EXCEPT !.alone = 0]
      BY <2>6 DEF ScannedBag
    <3>2. [x EXCEPT !.alone = 0] \in GoodBags /\ [x EXCEPT !.alone = 0].owner = x.owner
          /\ [x EXCEPT !.alone = 0].unattended = x.unattended
      <4> HIDE DEF x
      <4> QED BY <2>1, <2>3 DEF GoodBags, Bag
    <3>3. b \notin scan.bags
      <4>1. b # None
        BY Apart
      <4>2. \/ scan = [last |-> None, bags |-> Scannable]
            \/ scan \in [last : {c \in Scannable : TempOwnerStands(c)},
                         bags : SUBSET (Scannable \ {c \in Scannable : TempOwnerStands(c)})]
        BY DEF Scanned
      <4> QED BY <4>1, <4>2, <2>6
    <3> QED BY <3>1, <3>2, <3>3, <2>4
  <2>7. CASE b # scan.last /\ b \notin scan.bags
    <3>1. ScannedBag(scan, b) = x
      BY <2>7 DEF ScannedBag
    <3> QED BY <3>1, <2>1, <2>4, <2>7
  <2>8. CASE b # scan.last /\ b \in Back(scan)
    <3>1. ScannedBag(scan, b) = [ResolvedBag(x) EXCEPT !.owner = o]
      BY <2>4, <2>8 DEF ScannedBag
    <3>2. ResolvedBag(x) = [x EXCEPT !.alone = x.gone, !.unattended = FALSE]
      BY DEF ResolvedBag
    <3> DEFINE y == ResolvedBag(x)
    <3> HIDE DEF x, o
    <3>3. y \in GoodBags /\ y \in Bag /\ y.owner = x.owner /\ y.unattended = FALSE
          /\ y.owners = x.owners
      BY <3>2, <2>1, <2>3 DEF GoodBags, Bag
    <3> HIDE DEF y
    <3>4. [y EXCEPT !.owner = o] \in GoodBags /\ [y EXCEPT !.owner = o].owner = o
          /\ [y EXCEPT !.owner = o].unattended = FALSE
      BY <3>3, <2>2 DEF GoodBags, Bag
    <3> QED BY <3>1, <3>4 DEF y, o
  <2>9. CASE b # scan.last /\ b \in scan.bags /\ b \notin Back(scan)
    <3> DEFINE alone == IF Attended(b) THEN 0 ELSE x.alone
               unattended == x.unattended \/ b \in Raised(scan)
    <3>1. ScannedBag(scan, b) = [x EXCEPT !.owner = o, !.alone = alone, !.unattended = unattended]
      BY <2>9 DEF ScannedBag
    <3>2. alone \in 0..UnattendedTime + 1 /\ unattended \in BOOLEAN
      BY <2>3
    <3>3. unattended => b \in Raised(scan) \/ x.unattended
      OBVIOUS
    <3> DEFINE y == [x EXCEPT !.owner = o, !.alone = alone, !.unattended = unattended]
    <3>4. y \in GoodBags /\ y.owner = o /\ y.unattended = unattended
      <4> HIDE DEF x, o, alone, unattended
      <4> QED BY <2>1, <2>2, <3>2 DEF GoodBags, Bag
    <3> HIDE DEF y, unattended
    <3> QED BY <3>1, <3>3, <3>4, <2>9 DEF y
  <2> QED BY <2>4, <2>6, <2>7, <2>8, <2>9
<1> QED BY <1>1, <1>2

\* The incidents after it: those it resolves, and a new one for every bag it reports.
LEMMA IncidentsReported ==
    ASSUME Invariant, pc = "unattended", NEW scan \in Scanned(Scannable), Scans(scan)
    PROVE  /\ incident' \in Seq(Incident) /\ fresh' \in Nat
           /\ Len(incident') = Len(incident) + fresh' /\ Len(incident') <= MaxIncidents
           /\ DOMAIN incident' = 1..(Len(incident) + fresh')
           /\ \A i \in DOMAIN incident :
                incident'[i] = [incident[i] EXCEPT !.resolved = @ \/ i \in Ended(scan)]
           /\ \A i \in Len(incident) + 1..Len(incident) + fresh' :
                \E b \in Raised(scan) : incident'[i] = Raise("BAG", b, bag[b].owners)
           /\ \A b \in Raised(scan) : \E i \in Len(incident) + 1..Len(incident) + fresh' :
                incident'[i] = Raise("BAG", b, bag[b].owners)
<1> DEFINE new == Reports(scan)
           old == ResolvedBy(scan)
<1>1. Raised(scan) \subseteq BagIds /\ IsFiniteSet(Raised(scan))
  <2>1. Raised(scan) \in SUBSET scan.bags /\ scan.bags \subseteq BagIds /\ IsFiniteSet(scan.bags)
    BY ScannedAre DEF Raised, Left
  <2> QED BY <2>1, FS_Subset
<1>2. \A b \in Raised(scan) : Raise("BAG", b, bag[b].owners) \in Incident
  <2> SUFFICES ASSUME NEW b \in Raised(scan) PROVE Raise("BAG", b, bag[b].owners) \in Incident
    OBVIOUS
  <2>1. bag[b].owners \subseteq PersonIds /\ b \in BagIds
    BY <1>1, BagsAreGood, BagFields DEF GoodBags
  <2> QED BY <2>1, RaiseIs
<1>3. new \subseteq Incident /\ IsFiniteSet(new)
  <2> DEFINE f == [b \in Raised(scan) |-> Raise("BAG", b, bag[b].owners)]
  <2>1. new = {f[b] : b \in Raised(scan)}
    BY DEF Reports
  <2>2. IsFiniteSet({f[b] : b \in Raised(scan)})
    <3> HIDE DEF f
    <3> QED BY <1>1, ImageIsFinite
  <2>3. new \subseteq Incident
    BY <1>2 DEF Reports
  <2> QED BY <2>1, <2>2, <2>3
<1>4. /\ old \in Seq(Incident) /\ Len(old) = Len(incident) /\ DOMAIN old = DOMAIN incident
      /\ \A i \in DOMAIN incident :
           old[i] = [incident[i] EXCEPT !.resolved = @ \/ i \in Ended(scan)]
  <2>1. old = [i \in 1..Len(incident) |-> [incident[i] EXCEPT !.resolved = @ \/ i \in Ended(scan)]]
    BY IncidentsAre DEF ResolvedBy
  <2>2. ASSUME NEW i \in 1..Len(incident)
        PROVE  [incident[i] EXCEPT !.resolved = @ \/ i \in Ended(scan)] \in Incident
    <3> DEFINE x == incident[i]
               r == x.resolved \/ i \in Ended(scan)
    <3>1. x \in Incident /\ r \in BOOLEAN
      BY IncidentsAre, IncidentFields
    <3>2. [x EXCEPT !.resolved = r] \in Incident
      <4> HIDE DEF x, r
      <4> QED BY <3>1 DEF Incident
    <3> QED BY <3>2
  <2>3. Len(incident) \in Nat /\ DOMAIN incident = 1..Len(incident)
    BY IncidentsAre
  <2>4. old \in [1..Len(incident) -> Incident]
    BY <2>1, <2>2
  <2> HIDE DEF old
  <2>5. old \in Seq(Incident) /\ Len(old) = Len(incident) /\ DOMAIN old = 1..Len(incident)
    BY <2>3, <2>4
  <2> QED BY <2>1, <2>3, <2>5
<1>5. /\ incident' = old \o SetToSeq(new) /\ fresh' = Cardinality(new)
      /\ Len(incident) + Cardinality(new) <= MaxIncidents
  BY DEF Scans
<1> HIDE DEF old, new
<1>6. /\ incident' \in Seq(Incident) /\ fresh' \in Nat /\ Len(incident') = Len(incident) + fresh'
      /\ DOMAIN incident' = 1..(Len(incident) + fresh')
      /\ \A i \in DOMAIN incident : incident'[i] = old[i]
      /\ \A i \in Len(incident) + 1..Len(incident) + fresh' : incident'[i] \in new
      /\ \A x \in new : \E i \in Len(incident) + 1..Len(incident) + fresh' : incident'[i] = x
  BY <1>3, <1>4, <1>5, Appended
<1>7. /\ \A x \in new : \E b \in Raised(scan) : x = Raise("BAG", b, bag[b].owners)
      /\ \A b \in Raised(scan) : Raise("BAG", b, bag[b].owners) \in new
  BY DEF new, Reports
<1> QED BY <1>4, <1>5, <1>6, <1>7

LEMMA ScanBagsStep ==
    ASSUME Invariant, ScanBags
    PROVE  Invariant'
<1> USE DEF personVars, storeVars, mapVars, outputVars, reidVars
<1>1. PICK scan \in Scanned(Scannable) : Scans(scan)
  BY ScanIs
<1>2. /\ pc = "unattended" /\ pc' = "guns"
      /\ UNCHANGED <<reidVars, history, personVars, threat, storeVars, managed, personIncidents,
                     incidentPersons, outputVars>>
  BY DEF ScanBags
<1> DEFINE new == Len(incident) + 1..Len(incident) + fresh'
<1>3. /\ incident' \in Seq(Incident) /\ fresh' \in Nat /\ fresh = 0
      /\ Len(incident') = Len(incident) + fresh' /\ Len(incident') <= MaxIncidents
      /\ DOMAIN incident' = 1..(Len(incident) + fresh')
      /\ \A i \in DOMAIN incident :
           incident'[i] = [incident[i] EXCEPT !.resolved = @ \/ i \in Ended(scan)]
      /\ \A i \in new : \E b \in Raised(scan) : incident'[i] = Raise("BAG", b, bag[b].owners)
      /\ \A b \in Raised(scan) : \E i \in new : incident'[i] = Raise("BAG", b, bag[b].owners)
  BY <1>1, <1>2, IncidentsReported DEF Invariant, PhaseInv
<1>4. /\ Len(incident) \in Nat /\ DOMAIN incident = 1..Len(incident)
      /\ managed \subseteq DOMAIN incident /\ \A i \in DOMAIN incident : incident[i] \in Incident
  BY IncidentsAre
<1>5. /\ DOMAIN incident \subseteq DOMAIN incident' /\ Fresh' = new
      /\ \A i \in DOMAIN incident' : i \in DOMAIN incident \/ i \in new
  BY <1>3, <1>4 DEF Fresh
<1>6. \A i \in DOMAIN incident :
        /\ incident'[i].people = incident[i].people /\ incident'[i].roles = incident[i].roles
        /\ incident'[i].bag = incident[i].bag /\ incident'[i].kind = incident[i].kind
        /\ incident'[i].resolved = (incident[i].resolved \/ i \in Ended(scan))
  BY <1>3, <1>4 DEF Incident
<1>7. /\ bag' \in [BagIds -> GoodBags]
      /\ \A b \in BagIds : bag'[b].unattended
           => b \in Raised(scan) \/ (bag[b].unattended /\ b \notin Back(scan))
  BY <1>1, <1>2, BagsScanned
<1>8. Raised(scan) \subseteq BagIds /\ Back(scan) \subseteq BagIds
  BY <1>2, ScannedAre DEF Raised, Left, Back
<1>9. ASSUME NEW b \in Raised(scan)
      PROVE  LET x == Raise("BAG", b, bag[b].owners)
             IN  /\ x.kind = "BAG" /\ x.bag = b /\ b # None
                 /\ x.people # {} /\ x.people \subseteq Objects
                 /\ (\A p \in x.people : PersonId(p) \in x.roles) /\ BagId(b) \in x.roles
  <2>1. bag[b] \in GoodBags /\ bag[b].owners \subseteq PersonIds /\ b \in BagIds
    BY <1>8, BagsAreGood, BagFields DEF GoodBags
  <2>2. bag[b].owner # None
    BY DEF Raised, Left, Attended
  <2>3. bag[b].owners # {} /\ bag[b].owners \subseteq Objects
    BY <2>1, <2>2 DEF GoodBags
  <2> QED BY <2>1, <2>3, RaiseIs, Apart
<1> HIDE DEF new
<1>10. /\ bagIncident' = Restrict(bagIncident, DOMAIN bagIncident \ {BagId(b) : b \in Back(scan)})
       /\ {BagId(b) : b \in Back(scan)} \subseteq DOMAIN bagIncident
       /\ bagIncident \in Partial(BagIds, Ids)
  BY <1>1 DEF Scans, Invariant, SceneTypes
<1>11. /\ bagIncident' \in Partial(BagIds, Ids)
       /\ DOMAIN bagIncident' = DOMAIN bagIncident \ {BagId(b) : b \in Back(scan)}
       /\ \A k \in DOMAIN bagIncident' : bagIncident'[k] = bagIncident[k]
  <2> DEFINE rest == DOMAIN bagIncident \ {BagId(b) : b \in Back(scan)}
  <2>1. rest \subseteq DOMAIN bagIncident
    OBVIOUS
  <2> HIDE DEF rest
  <2> QED BY <2>1, <1>10, RestrictType DEF rest
<1>12. Range(bagIncident') \subseteq Range(bagIncident)
  BY <1>11 DEF Range
<1>13. SceneTypes'
  <2>1. bag' \in [BagIds -> Bag]
    BY <1>7 DEF GoodBags
  <2>2. managed' \subseteq DOMAIN incident' /\ fresh' \in 0..Len(incident')
    BY <1>2, <1>3, <1>4, <1>5
  <2> QED BY <1>2, <1>3, <1>11, <2>1, <2>2 DEF Invariant, SceneTypes
<1>14. WireInv' /\ StoreInv' /\ MapsAgree' /\ PeopleAreFiled'
  BY <1>2 DEF Invariant, WireInv, StoreInv, MapsAgree, PeopleAreFiled, Busy
<1>15. PhaseInv'
  <2>1. managed \cup Range(bagIncident) \subseteq 1..Len(incident)
    BY <1>2, <1>3, <1>4 DEF Invariant, PhaseInv
  <2>2. Len(incident') - fresh' = Len(incident)
    BY <1>3, <1>4
  <2> QED BY <1>2, <1>12, <2>1, <2>2 DEF Invariant, PhaseInv, Busy, Renamings
<1>16. PeopleInv'
  <2>1. \A b \in BagIds :
         /\ bag'[b].owners \subseteq Objects
         /\ bag'[b].owner # None => bag'[b].owners # {}
         /\ \A p \in PersonIds : bag'[b].scores[p] > 0 => p \in TempPersons \cup DOMAIN persons
    BY <1>7 DEF GoodBags
  <2>2. ASSUME NEW i \in DOMAIN incident'
        PROVE  /\ incident'[i].people # {} /\ incident'[i].people \subseteq Objects
               /\ incident'[i].kind = "BAG" => incident'[i].bag # None
    <3>1. CASE i \in DOMAIN incident
      BY <3>1, <1>6 DEF Invariant, PeopleInv
    <3>2. CASE i \in new
      BY <3>2, <1>3, <1>9
    <3> QED BY <3>1, <3>2, <1>5
  <2> QED BY <1>2, <2>1, <2>2 DEF PeopleInv, Objects
<1>17. FiledInv'
  <2>1. \A p : PersonId(p)' = PersonId(p) /\ New(p)' = New(p)
    BY <1>2 DEF PersonId, New, Renamings
  <2>2. \A i \in managed : incident'[i].people = incident[i].people
    BY <1>4, <1>6
  <2> QED BY <1>2, <2>1, <2>2 DEF Invariant, FiledInv, Busy, Renamings
<1>18. CalmInv'
  <2> SUFFICES ASSUME "renamed" \notin history, NEW i \in DOMAIN incident' PROVE Filed(i)'
    BY <1>2, <1>5 DEF Invariant, CalmInv, Busy, Renamings
  <2>1. \A p : PersonId(p)' = PersonId(p) /\ BagId(p)' = BagId(p)
    BY <1>2 DEF PersonId, BagId
  <2>2. CASE i \in DOMAIN incident
    BY <2>1, <2>2, <1>6 DEF Invariant, CalmInv, Filed
  <2>3. CASE i \in new
    BY <2>1, <2>3, <1>3, <1>9 DEF Filed
  <2> QED BY <2>2, <2>3, <1>5
<1>19. BagMapInv'
  <2>1. /\ IsInjective(bagIncident) /\ Range(bagIncident) \subseteq DOMAIN incident
        /\ \A k \in DOMAIN bagIncident \cap TempBags : incident[bagIncident[k]].bag = k
        /\ \A k \in DOMAIN bagIncident :
             bagIncident[k] \in managed => ~incident[bagIncident[k]].resolved
    BY DEF Invariant, BagMapInv
  <2>2. IsInjective(bagIncident')
    BY <2>1, <1>11 DEF IsInjective
  <2>3. \A k \in DOMAIN bagIncident' : bagIncident[k] \in DOMAIN incident
    BY <2>1, <1>11 DEF Range
  <2>4. \A k \in DOMAIN bagIncident' \cap TempBags : incident'[bagIncident'[k]].bag = k
    BY <2>1, <2>3, <1>6, <1>11
  <2>5. ASSUME NEW k \in DOMAIN bagIncident', bagIncident'[k] \in managed
        PROVE  ~incident'[bagIncident'[k]].resolved
    <3>1. bagIncident[k] \notin Ended(scan)
      <4> SUFFICES ASSUME NEW b \in Back(scan), bagIncident[k] = bagIncident[BagId(b)] PROVE FALSE
        BY DEF Ended
      <4>1. BagId(b) \in DOMAIN bagIncident /\ k # BagId(b) /\ k \in DOMAIN bagIncident
        BY <1>10, <1>11
      <4> QED BY <4>1, <2>1 DEF IsInjective
    <3> QED BY <3>1, <2>1, <2>3, <2>5, <1>6, <1>11
  <2>6. Range(bagIncident') \subseteq DOMAIN incident'
    BY <2>1, <1>5, <1>12
  <2> QED BY <1>2, <2>2, <2>4, <2>5, <2>6 DEF BagMapInv
<1>20. KeptIds'
  BY <1>2 DEF Invariant, KeptIds, Waiting, WaitingBags
<1>21. KeptBags'
  <2> SUFFICES ASSUME "lost" \notin history, NEW b \in TempBags \ Range(bags), bag'[b].unattended
               PROVE  \/ IsFiled(b)'
                      \/ \E i \in Fresh' : incident'[i].kind = "BAG" /\ incident'[i].bag = b
    BY <1>2 DEF KeptBags
  <2>1. CASE b \in Raised(scan)
    <3>1. PICK i \in new : incident'[i] = Raise("BAG", b, bag[b].owners)
      BY <2>1, <1>3
    <3>2. incident'[i].kind = "BAG" /\ incident'[i].bag = b
      BY <3>1, <2>1, <1>9
    <3> QED BY <3>1, <3>2, <1>5
  <2>2. CASE bag[b].unattended /\ b \notin Back(scan)
    <3>1. IsFiled(b)
      BY <2>2, <1>2 DEF Invariant, KeptBags
    <3>2. b \notin {BagId(c) : c \in Back(scan)}
      <4> SUFFICES ASSUME NEW c \in Back(scan), b = BagId(c) PROVE FALSE
        OBVIOUS
      <4>1. b = c
        BY IdsAre
      <4> QED BY <4>1, <2>2
    <3> QED BY <3>1, <3>2, <1>2, <1>11 DEF IsFiled
  <2> QED BY <2>1, <2>2, <1>7, Apart
<1> QED BY <1>13, <1>14, <1>15, <1>16, <1>17, <1>18, <1>19, <1>20, <1>21 DEF Invariant

-----------------------------------------------------------------------------
(* GunManager.get_new_gunmen. *)
Armed == {PersonOf(p) : p \in {q \in wire.guns : ~HasGunIncident(q)}}
ThreatNow == [p \in PersonIds |->
                Capped(threat[p] + (IF p \in Armed THEN 1 ELSE 0), GunThreshold + 1)]
Gunmen == {q \in Armed : ThreatNow[q] > GunThreshold}
GunReports == {Raise("GUN", None, {p}) : p \in Gunmen}

\* Those armed are objects in view.
LEMMA ArmedAre ==
    ASSUME Invariant, pc = "guns"
    PROVE  Armed \subseteq PersonIds \cap Objects /\ IsFiniteSet(Gunmen)
<1>1. /\ wire \in Views /\ wire.guns \subseteq DOMAIN wire.persons
      /\ DOMAIN wire.persons \subseteq tempPersons \cup DOMAIN persons
         /\ tempPersons \subseteq TempPersons
  BY DEF Invariant, WireInv, PhaseInv, Busy, SceneTypes
<1>2. \A p \in wire.guns : PersonOf(p) \in Objects /\ PersonOf(p) \in PersonIds
  <2> SUFFICES ASSUME NEW p \in wire.guns PROVE PersonOf(p) \in Objects /\ PersonOf(p) \in PersonIds
    OBVIOUS
  <2>1. p \in TempPersons \cup DOMAIN persons
    BY <1>1
  <2> QED BY <2>1, PersonOfIs
<1> DEFINE f == [p \in wire.guns |-> PersonOf(p)]
           all == {f[p] : p \in wire.guns}
<1>3. wire.guns \in SUBSET DOMAIN wire.persons /\ IsFiniteSet(DOMAIN wire.persons)
  BY <1>1, FrameIs
<1>4. IsFiniteSet(wire.guns)
  BY <1>3, FS_Subset
<1>5. IsFiniteSet(all)
  <2> HIDE DEF f
  <2> QED BY <1>4, ImageIsFinite
<1>6. Gunmen \in SUBSET all
  BY DEF Gunmen, Armed
<1>7. IsFiniteSet(Gunmen)
  <2> HIDE DEF all
  <2> QED BY <1>5, <1>6, FS_Subset
<1> QED BY <1>2, <1>7 DEF Armed

\* The incidents after it.
LEMMA GunsReported ==
    ASSUME Invariant, SeeGuns
    PROVE  /\ incident' \in Seq(Incident) /\ fresh' \in Nat
           /\ Len(incident') <= MaxIncidents
           /\ Len(incident') - fresh' = Len(incident) - fresh /\ fresh <= fresh'
           /\ Len(incident') = Len(incident) + (fresh' - fresh)
           /\ DOMAIN incident' = 1..Len(incident')
           /\ \A i \in DOMAIN incident : incident'[i] = incident[i]
           /\ \A i \in DOMAIN incident' \ DOMAIN incident :
                \E p \in Gunmen : incident'[i] = Raise("GUN", None, {p})
           /\ threat' = ThreatNow
<1>1. /\ pc = "guns" /\ threat' = ThreatNow
      /\ Len(incident) + Cardinality(GunReports) <= MaxIncidents
      /\ incident' = incident \o SetToSeq(GunReports) /\ fresh' = fresh + Cardinality(GunReports)
  BY DEF SeeGuns, Add, GunReports, Gunmen, ThreatNow, Armed
<1>2. \A p \in Gunmen : p \in PersonIds /\ Raise("GUN", None, {p}) \in Incident
  <2> SUFFICES ASSUME NEW p \in Gunmen PROVE p \in PersonIds /\ Raise("GUN", None, {p}) \in Incident
    OBVIOUS
  <2>1. p \in PersonIds
    BY <1>1, ArmedAre DEF Gunmen
  <2> QED BY <2>1, RaiseIs
<1>3. GunReports \subseteq Incident /\ IsFiniteSet(GunReports)
  <2> DEFINE f == [p \in Gunmen |-> Raise("GUN", None, {p})]
  <2>1. GunReports = {f[p] : p \in Gunmen}
    BY DEF GunReports
  <2>2. IsFiniteSet(Gunmen)
    BY <1>1, ArmedAre
  <2>3. IsFiniteSet({f[p] : p \in Gunmen})
    <3> HIDE DEF f
    <3> QED BY <2>2, ImageIsFinite
  <2> QED BY <2>1, <2>3, <1>2 DEF GunReports
<1>4. incident \in Seq(Incident) /\ Len(incident) \in Nat /\ DOMAIN incident = 1..Len(incident)
      /\ fresh \in 0..Len(incident)
  BY IncidentsAre
<1>5. /\ incident' \in Seq(Incident) /\ Cardinality(GunReports) \in Nat
      /\ Len(incident') = Len(incident) + Cardinality(GunReports)
      /\ DOMAIN incident' = 1..(Len(incident) + Cardinality(GunReports))
      /\ \A i \in DOMAIN incident : incident'[i] = incident[i]
      /\ \A i \in Len(incident) + 1..Len(incident) + Cardinality(GunReports) : incident'[i] \in GunReports
  BY <1>1, <1>3, <1>4, Appended
<1>6. \A i \in DOMAIN incident' \ DOMAIN incident : incident'[i] \in GunReports
  BY <1>4, <1>5
<1>7. \A x \in GunReports : \E p \in Gunmen : x = Raise("GUN", None, {p})
  BY DEF GunReports
<1>8. /\ fresh' \in Nat /\ Len(incident') - fresh' = Len(incident) - fresh /\ fresh <= fresh'
      /\ Len(incident') = Len(incident) + (fresh' - fresh) /\ Len(incident') <= MaxIncidents
      /\ DOMAIN incident' = 1..Len(incident')
  BY <1>1, <1>4, <1>5
<1> QED BY <1>1, <1>5, <1>6, <1>7, <1>8

LEMMA SeeGunsStep ==
    ASSUME Invariant, SeeGuns
    PROVE  Invariant'
<1> USE DEF personVars, storeVars, mapVars, outputVars, reidVars
<1>1. /\ pc = "guns" /\ pc' = "incidents"
      /\ UNCHANGED <<reidVars, history, personVars, storeVars, bag, mapVars, outputVars>>
  BY DEF SeeGuns
<1>2. /\ incident' \in Seq(Incident) /\ fresh' \in Nat
      /\ Len(incident') <= MaxIncidents
      /\ Len(incident') - fresh' = Len(incident) - fresh /\ fresh <= fresh'
      /\ Len(incident') = Len(incident) + (fresh' - fresh)
      /\ DOMAIN incident' = 1..Len(incident')
      /\ \A i \in DOMAIN incident : incident'[i] = incident[i]
      /\ \A i \in DOMAIN incident' \ DOMAIN incident :
           \E p \in Gunmen : incident'[i] = Raise("GUN", None, {p})
      /\ threat' = ThreatNow
  BY GunsReported
<1>3. /\ Len(incident) \in Nat /\ DOMAIN incident = 1..Len(incident) /\ fresh \in 0..Len(incident)
      /\ managed \subseteq DOMAIN incident
  BY IncidentsAre
<1>4. DOMAIN incident \subseteq DOMAIN incident' /\ fresh' \in 0..Len(incident')
      /\ Fresh \subseteq Fresh'
      /\ Fresh \subseteq DOMAIN incident
  BY <1>2, <1>3 DEF Fresh
<1>5. ASSUME NEW i \in DOMAIN incident' \ DOMAIN incident
      PROVE  /\ incident'[i].people # {} /\ incident'[i].people \subseteq Objects
             /\ incident'[i].kind = "GUN" /\ incident'[i].bag = None
             /\ \A p \in incident'[i].people : PersonId(p) \in incident'[i].roles
  <2>1. PICK p \in Gunmen : incident'[i] = Raise("GUN", None, {p})
    BY <1>2
  <2>2. p \in PersonIds /\ p \in Objects
    BY <1>1, ArmedAre DEF Gunmen
  <2> QED BY <2>1, <2>2, RaiseIs
<1>6. SceneTypes'
  <2>1. threat' \in [PersonIds -> 0..GunThreshold + 1]
    <3>1. GunThreshold + 1 \in Nat /\ threat \in [PersonIds -> 0..GunThreshold + 1]
      BY SceneAssumption DEF Invariant, SceneTypes
    <3>2. ASSUME NEW p \in PersonIds
          PROVE  Capped(threat[p] + (IF p \in Armed THEN 1 ELSE 0),
                 GunThreshold + 1) \in 0..GunThreshold + 1
      <4>1. threat[p] + (IF p \in Armed THEN 1 ELSE 0) \in Nat
        BY <3>1
      <4> QED BY <4>1, <3>1, CappedIs
    <3> QED BY <1>2, <3>2 DEF ThreatNow
  <2> QED BY <1>1, <1>2, <1>3, <1>4, <2>1 DEF Invariant, SceneTypes
<1>7. WireInv' /\ StoreInv' /\ MapsAgree' /\ PeopleAreFiled'
  BY <1>1 DEF Invariant, WireInv, StoreInv, MapsAgree, PeopleAreFiled, Busy
<1>8. PhaseInv'
  BY <1>1, <1>2 DEF Invariant, PhaseInv, Busy, Renamings
<1>9. PeopleInv'
  <2>1. ASSUME NEW i \in DOMAIN incident'
        PROVE  /\ incident'[i].people # {} /\ incident'[i].people \subseteq Objects
               /\ incident'[i].kind = "BAG" => incident'[i].bag # None
    BY <1>2, <1>5 DEF Invariant, PeopleInv
  <2> QED BY <1>1, <2>1 DEF Invariant, PeopleInv, Objects
<1>10. FiledInv'
  <2>1. \A p : PersonId(p)' = PersonId(p) /\ New(p)' = New(p)
    BY <1>1 DEF PersonId, New, Renamings
  <2>2. \A i \in managed : incident'[i] = incident[i]
    BY <1>2, <1>3
  <2> QED BY <1>1, <2>1, <2>2 DEF Invariant, FiledInv, Busy, Renamings
<1>11. CalmInv'
  <2> SUFFICES ASSUME "renamed" \notin history, NEW i \in DOMAIN incident' PROVE Filed(i)'
    BY <1>1, <1>4 DEF Invariant, CalmInv, Busy, Renamings
  <2>1. \A p : PersonId(p)' = PersonId(p) /\ BagId(p)' = BagId(p)
    BY <1>1 DEF PersonId, BagId
  <2>2. CASE i \in DOMAIN incident
    BY <2>1, <2>2, <1>2 DEF Invariant, CalmInv, Filed
  <2>3. CASE i \notin DOMAIN incident
    BY <2>1, <2>3, <1>5 DEF Filed
  <2> QED BY <2>2, <2>3
<1>12. BagMapInv'
  <2>1. \A k \in DOMAIN bagIncident : bagIncident[k] \in DOMAIN incident
    BY DEF Invariant, BagMapInv, Range
  <2>2. \A k \in DOMAIN bagIncident : incident'[bagIncident[k]] = incident[bagIncident[k]]
    BY <2>1, <1>2
  <2> QED BY <1>1, <1>4, <2>2 DEF Invariant, BagMapInv
<1>13. KeptIds'
  BY <1>1 DEF Invariant, KeptIds, Waiting, WaitingBags
<1>14. KeptBags'
  <2> SUFFICES ASSUME "lost" \notin history, NEW b \in TempBags \ Range(bags), bag[b].unattended
               PROVE  \/ IsFiled(b)'
                      \/ \E i \in Fresh' : incident'[i].kind = "BAG" /\ incident'[i].bag = b
    BY <1>1 DEF KeptBags
  <2>1. CASE IsFiled(b)
    BY <2>1, <1>1 DEF IsFiled
  <2>2. CASE \E i \in Fresh : incident[i].kind = "BAG" /\ incident[i].bag = b
    BY <2>2, <1>2, <1>4
  <2> QED BY <2>1, <2>2, <1>1 DEF Invariant, KeptBags
<1> QED BY <1>6, <1>7, <1>8, <1>9, <1>10, <1>11, <1>12, <1>13, <1>14 DEF Invariant

-----------------------------------------------------------------------------
(* IncidentManager.update. *)
Deleted(message) == SystemResolved \cup Resolving(message)
NewPeople == [i \in Fresh |-> {PersonId(p) : p \in incident[i].people}]
NewBags == {i \in Fresh : incident[i].kind = "BAG"}
NewBagMap ==
    [b \in {BagId(incident[i].bag) : i \in NewBags} |->
        CHOOSE i \in NewBags : BagId(incident[i].bag) = b]
Updates(message) ==
    /\ incident' = [i \in DOMAIN incident |->
         [incident[i] EXCEPT !.resolved = i \in Resolving(message),
                             !.confirmed = @ \/ message = <<i, "CONFIRMED">>]]
    /\ threat' = [p \in PersonIds |->
         IF \E i \in Resolving(message) : incident[i].kind = "GUN" /\ p \in incident[i].people
         THEN 0 ELSE threat[p]]
    /\ bag' = [b \in BagIds |->
         IF \E i \in Resolving(message) : incident[i].bag = b THEN ResolvedBag(bag[b]) ELSE bag[b]]
    /\ managed' = (managed \ Deleted(message)) \cup Fresh
    /\ personIncidents' = [p \in PersonIds |->
         (personIncidents[p] \ Deleted(message)) \cup {i \in Fresh : p \in NewPeople[i]}]
    /\ incidentPersons' = Override(NewPeople, Restrict(incidentPersons, managed \ Deleted(message)))
    /\ bagIncident' = Override(NewBagMap, bagIncident)

LEMMA UpdateIs ==
    ASSUME UpdateIncidents
    PROVE  \E message \in Messages : Updates(message)
  BY DEF UpdateIncidents, Updates, Deleted, NewPeople, NewBags, NewBagMap

\* What the message ends is managed.
LEMMA ResolvingIs ==
    ASSUME NEW message \in Messages
    PROVE  Resolving(message) \subseteq managed
<1>1. CASE message = <<>>
  BY <1>1 DEF Resolving
<1>2. CASE message \in managed \X {"CONFIRMED", "RESOLVED"}
  BY <1>2 DEF Resolving
<1> QED BY <1>1, <1>2 DEF Messages

\* The incidents of the frame are apart from those managed before, or filed for a bag.
LEMMA FreshAre ==
    ASSUME Invariant, pc = "incidents"
    PROVE  /\ Fresh \subseteq DOMAIN incident /\ Fresh \subseteq Ids
           /\ managed \cap Fresh = {} /\ Range(bagIncident) \cap Fresh = {}
           /\ NewPeople \in [Fresh -> (SUBSET PersonIds) \ {{}}]
           /\ \A i \in Fresh : \A p \in PersonIds : PersonId(p) \in PersonIds
           /\ \A i \in NewBags : incident[i].bag \in BagIds /\ BagId(incident[i].bag) \in BagIds
<1>1. /\ Len(incident) \in Nat /\ DOMAIN incident = 1..Len(incident) /\ fresh \in 0..Len(incident)
      /\ managed \subseteq DOMAIN incident /\ Len(incident) <= MaxIncidents /\ MaxIncidents \in Nat
      /\ \A i \in DOMAIN incident : incident[i] \in Incident
  BY IncidentsAre
<1>2. managed \cup Range(bagIncident) \subseteq 1..(Len(incident) - fresh)
  BY DEF Invariant, PhaseInv
<1>3. Fresh \subseteq DOMAIN incident /\ Fresh \subseteq Ids
  BY <1>1 DEF Fresh, Ids
<1>4. managed \cap Fresh = {} /\ Range(bagIncident) \cap Fresh = {}
  <2> SUFFICES ASSUME NEW i \in 1..(Len(incident) - fresh), i \in Fresh PROVE FALSE
    BY <1>2
  <2> QED BY <1>1 DEF Fresh
<1>5. /\ \A p \in PersonIds : PersonId(p) \in PersonIds
      /\ \A b \in BagIds : BagId(b) \in BagIds
  BY IdsAre
<1>6. ASSUME NEW i \in Fresh
      PROVE  {PersonId(p) : p \in incident[i].people} \in (SUBSET PersonIds) \ {{}}
  <2>1. incident[i].people \subseteq PersonIds
    BY <1>1, <1>3, IncidentFields
  <2>2. incident[i].people # {}
    BY <1>3 DEF Invariant, PeopleInv
  <2>3. \A p \in incident[i].people : PersonId(p) \in PersonIds
    BY <2>1, <1>5
  <2> DEFINE ids == {PersonId(p) : p \in incident[i].people}
  <2>4. ids \subseteq PersonIds
    BY <2>3
  <2>5. ids # {}
    BY <2>2
  <2> HIDE DEF ids
  <2>6. ids \in (SUBSET PersonIds) \ {{}}
    BY <2>4, <2>5
  <2> QED BY <2>6 DEF ids
<1>7. ASSUME NEW i \in NewBags
      PROVE  incident[i].bag \in BagIds /\ BagId(incident[i].bag) \in BagIds
  <2>1. i \in DOMAIN incident /\ incident[i].kind = "BAG"
    BY <1>3 DEF NewBags
  <2>2. incident[i].bag # None /\ incident[i].bag \in BagIds \cup {None}
    BY <2>1, <1>1, IncidentFields DEF Invariant, PeopleInv
  <2> QED BY <2>2, <1>5
<1> QED BY <1>3, <1>4, <1>5, <1>6, <1>7 DEF NewPeople

\* The map of the bags after it: one new incident for each.
LEMMA NewBagMapIs ==
    ASSUME Invariant, pc = "incidents"
    PROVE  /\ NewBagMap \in Partial(BagIds, Ids) /\ Range(NewBagMap) \subseteq Fresh
           /\ \A k \in DOMAIN NewBagMap :
                /\ NewBagMap[k] \in NewBags /\ BagId(incident[NewBagMap[k]].bag) = k
           /\ \A i \in NewBags : BagId(incident[i].bag) \in DOMAIN NewBagMap
<1>1. /\ Fresh \subseteq Ids
      /\ \A i \in NewBags : incident[i].bag \in BagIds /\ BagId(incident[i].bag) \in BagIds
  BY FreshAre
<1>2. DOMAIN NewBagMap = {BagId(incident[i].bag) : i \in NewBags}
  BY DEF NewBagMap
<1>3. ASSUME NEW k \in DOMAIN NewBagMap
      PROVE  NewBagMap[k] \in NewBags /\ BagId(incident[NewBagMap[k]].bag) = k /\ k \in BagIds
  <2>1. \E i \in NewBags : BagId(incident[i].bag) = k
    BY <1>2
  <2>2. NewBagMap[k] = CHOOSE i \in NewBags : BagId(incident[i].bag) = k
    BY <1>2 DEF NewBagMap
  <2>3. NewBagMap[k] \in NewBags /\ BagId(incident[NewBagMap[k]].bag) = k
    BY <2>1, <2>2
  <2> QED BY <2>1, <2>3, <1>1
<1>4. NewBags \subseteq Fresh
  BY DEF NewBags
<1>5. NewBagMap = [k \in DOMAIN NewBagMap |-> NewBagMap[k]]
  BY DEF NewBagMap
<1>6. NewBagMap \in [DOMAIN NewBagMap -> Ids] /\ DOMAIN NewBagMap \subseteq BagIds
  <2> HIDE DEF NewBagMap
  <2>1. \A k \in DOMAIN NewBagMap : NewBagMap[k] \in Ids /\ k \in BagIds
    BY <1>1, <1>3, <1>4
  <2> QED BY <2>1, <1>5
<1>7. NewBagMap \in Partial(BagIds, Ids)
  BY <1>6, PartialIs
<1>8. Range(NewBagMap) \subseteq Fresh
  BY <1>3, <1>4 DEF Range
<1>9. \A i \in NewBags : BagId(incident[i].bag) \in DOMAIN NewBagMap
  BY <1>2
<1> QED BY <1>3, <1>7, <1>8, <1>9

\* The maps of the incidents after it, and the bags.
LEMMA ResolvedBagIs ==
    ASSUME NEW x \in GoodBags
    PROVE  /\ ResolvedBag(x) \in GoodBags /\ ResolvedBag(x).owner = x.owner
           /\ ~ResolvedBag(x).unattended
<1>1. x \in Bag
  BY DEF GoodBags
<1>2. /\ x.owner \in PersonIds \cup {None} /\ x.owners \in SUBSET PersonIds
      /\ x.scores \in [PersonIds -> 0..OwnerThreshold + 1]
      /\ x.alone \in 0..UnattendedTime + 1 /\ x.gone \in 0..UnattendedTime + 1
      /\ x.unattended \in BOOLEAN /\ x.hits \in 0..2 /\ x.firstCheck \in BOOLEAN
  BY <1>1, BagFields
<1>3. /\ ResolvedBag(x) \in Bag /\ ResolvedBag(x).owner = x.owner /\ ResolvedBag(x).owners = x.owners
      /\ ResolvedBag(x).scores = x.scores /\ ~ResolvedBag(x).unattended
  BY <1>1, <1>2 DEF ResolvedBag, Bag
<1> QED BY <1>3 DEF GoodBags

LEMMA BagsResolved ==
    ASSUME Invariant, NEW message \in Messages, Updates(message)
    PROVE  /\ bag' \in [BagIds -> GoodBags]
           /\ \A b \in BagIds :
                /\ bag'[b].owner = bag[b].owner
                /\ bag'[b].unattended =>
                     bag[b].unattended /\ \A i \in Resolving(message) : incident[i].bag # b
<1>1. /\ bag \in [BagIds -> GoodBags]
      /\ bag' = [b \in BagIds |->
           IF \E i \in Resolving(message) : incident[i].bag = b THEN ResolvedBag(bag[b]) ELSE bag[b]]
  BY BagsAreGood DEF Updates
<1>2. \A b \in BagIds : /\ ResolvedBag(bag[b]) \in GoodBags /\ ResolvedBag(bag[b]).owner = bag[b].owner
                        /\ ~ResolvedBag(bag[b]).unattended
  BY <1>1, ResolvedBagIs
<1>3. \A b \in BagIds : bag'[b] =
        IF \E i \in Resolving(message) : incident[i].bag = b THEN ResolvedBag(bag[b]) ELSE bag[b]
  BY <1>1
<1>4. \A b \in BagIds : bag'[b] \in GoodBags
  BY <1>1, <1>2, <1>3
<1>5. bag' \in [BagIds -> GoodBags]
  BY <1>1, <1>4
<1> QED BY <1>2, <1>3, <1>5

\* The maps of the incidents after it.
LEMMA MapsUpdated ==
    ASSUME Invariant, pc = "incidents", NEW message \in Messages, Updates(message)
    PROVE  /\ managed' = (managed \ Deleted(message)) \cup Fresh
           /\ (managed \ Deleted(message)) \cap Fresh = {}
           /\ incidentPersons' \in [managed' -> (SUBSET PersonIds) \ {{}}]
           /\ \A i \in Fresh : incidentPersons'[i] = {PersonId(p) : p \in incident[i].people}
           /\ \A i \in managed \ Deleted(message) : incidentPersons'[i] = incidentPersons[i]
           /\ \A p \in PersonIds : personIncidents'[p] =
                (personIncidents[p] \ Deleted(message)) \cup {i \in Fresh : p \in incidentPersons'[i]}
           /\ personIncidents' \in [PersonIds -> SUBSET Ids]
           /\ DOMAIN bagIncident' = DOMAIN NewBagMap \cup DOMAIN bagIncident
           /\ \A k \in DOMAIN NewBagMap : bagIncident'[k] = NewBagMap[k]
           /\ \A k \in DOMAIN bagIncident \ DOMAIN NewBagMap : bagIncident'[k] = bagIncident[k]
           /\ bagIncident' \in Partial(BagIds, Ids)
           /\ Range(bagIncident') \subseteq Fresh \cup Range(bagIncident)
<1>1. /\ Fresh \subseteq Ids /\ managed \cap Fresh = {}
      /\ NewPeople \in [Fresh -> (SUBSET PersonIds) \ {{}}]
  BY FreshAre
<1>2. /\ managed' = (managed \ Deleted(message)) \cup Fresh
      /\ personIncidents' = [p \in PersonIds |->
           (personIncidents[p] \ Deleted(message)) \cup {i \in Fresh : p \in NewPeople[i]}]
      /\ incidentPersons' = Override(NewPeople, Restrict(incidentPersons, managed \ Deleted(message)))
      /\ bagIncident' = Override(NewBagMap, bagIncident)
  BY DEF Updates
<1>3. /\ incidentPersons \in [managed -> (SUBSET PersonIds) \ {{}}]
      /\ personIncidents \in [PersonIds -> SUBSET Ids] /\ bagIncident \in Partial(BagIds, Ids)
  BY DEF Invariant, SceneTypes
<1> DEFINE kept == managed \ Deleted(message)
           old == Restrict(incidentPersons, kept)
<1>4. /\ DOMAIN old = kept
      /\ \A i \in kept : old[i] = incidentPersons[i] /\ old[i] \in (SUBSET PersonIds) \ {{}}
  BY <1>3 DEF Restrict
<1>5. DOMAIN NewPeople = Fresh
      /\ \A i \in Fresh : NewPeople[i] = {PersonId(p) : p \in incident[i].people}
  BY DEF NewPeople
<1>6. /\ DOMAIN incidentPersons' = Fresh \cup kept
      /\ \A i \in Fresh : incidentPersons'[i] = NewPeople[i]
      /\ \A i \in kept \ Fresh : incidentPersons'[i] = old[i]
      /\ incidentPersons' = [i \in Fresh \cup kept |-> incidentPersons'[i]]
  <2>1. incidentPersons' = Override(NewPeople, old)
    BY <1>2
  <2> HIDE DEF old
  <2> QED BY <2>1, <1>4, <1>5 DEF Override
<1>7. kept \cap Fresh = {}
  BY <1>1
<1> HIDE DEF old, kept
<1>8. incidentPersons' \in [managed' -> (SUBSET PersonIds) \ {{}}]
  <2>1. managed' = Fresh \cup kept
    BY <1>2 DEF kept
  <2>2. \A i \in Fresh \cup kept : incidentPersons'[i] \in (SUBSET PersonIds) \ {{}}
    <3> SUFFICES ASSUME NEW i \in Fresh \cup kept
                 PROVE  incidentPersons'[i] \in (SUBSET PersonIds) \ {{}}
      OBVIOUS
    <3>1. CASE i \in Fresh
      BY <3>1, <1>1, <1>6
    <3>2. CASE i \in kept \ Fresh
      BY <3>2, <1>4, <1>6
    <3> QED BY <3>1, <3>2
  <2> QED BY <2>1, <2>2, <1>6
<1>9. \A i \in kept : incidentPersons'[i] = incidentPersons[i]
  BY <1>4, <1>6, <1>7
<1>10. \A i \in Fresh : incidentPersons'[i] = {PersonId(p) : p \in incident[i].people}
  BY <1>5, <1>6
<1>11. \A p \in PersonIds : personIncidents'[p] =
         (personIncidents[p] \ Deleted(message)) \cup {i \in Fresh : p \in incidentPersons'[i]}
  BY <1>2, <1>6
<1>12. personIncidents' \in [PersonIds -> SUBSET Ids]
  <2>1. \A p \in PersonIds : personIncidents'[p] \in SUBSET Ids
    BY <1>1, <1>3, <1>11
  <2> QED BY <2>1, <1>2
<1>13. /\ NewBagMap \in Partial(BagIds, Ids) /\ Range(NewBagMap) \subseteq Fresh
  BY NewBagMapIs
<1>14. /\ DOMAIN bagIncident' = DOMAIN NewBagMap \cup DOMAIN bagIncident
       /\ \A k \in DOMAIN NewBagMap : bagIncident'[k] = NewBagMap[k]
       /\ \A k \in DOMAIN bagIncident \ DOMAIN NewBagMap : bagIncident'[k] = bagIncident[k]
       /\ Range(bagIncident') \subseteq Fresh \cup Range(bagIncident)
  <2>1. /\ DOMAIN bagIncident' = DOMAIN NewBagMap \cup DOMAIN bagIncident
        /\ \A k \in DOMAIN NewBagMap : bagIncident'[k] = NewBagMap[k]
        /\ \A k \in DOMAIN bagIncident \ DOMAIN NewBagMap : bagIncident'[k] = bagIncident[k]
    BY <1>2 DEF Override
  <2>2. Range(Override(NewBagMap, bagIncident)) \subseteq Range(NewBagMap) \cup Range(bagIncident)
    BY Overridden
  <2> QED BY <2>1, <2>2, <1>2, <1>13
<1>15. bagIncident' \in Partial(BagIds, Ids)
  BY <1>2, <1>3, <1>13, OverrideType
<1>16. kept \cap Fresh = {} /\ managed' = kept \cup Fresh
  BY <1>2, <1>7 DEF kept
<1> QED BY <1>8, <1>9, <1>10, <1>11, <1>12, <1>14, <1>15, <1>16 DEF kept

LEMMA UpdateIncidentsStep ==
    ASSUME Invariant, UpdateIncidents
    PROVE  Invariant'
<1> USE DEF personVars, storeVars, mapVars, outputVars, reidVars
<1>1. PICK message \in Messages : Updates(message)
  BY UpdateIs
<1>2. /\ pc = "incidents" /\ pc' = "ids"
      /\ UNCHANGED <<reidVars, history, personVars, storeVars, fresh, outputVars>>
  BY DEF UpdateIncidents
<1> DEFINE kept == managed \ Deleted(message)
<1>3. /\ managed' = kept \cup Fresh /\ kept \cap Fresh = {}
      /\ incidentPersons' \in [managed' -> (SUBSET PersonIds) \ {{}}]
      /\ \A i \in Fresh : incidentPersons'[i] = {PersonId(p) : p \in incident[i].people}
      /\ \A i \in kept : incidentPersons'[i] = incidentPersons[i]
      /\ \A p \in PersonIds : personIncidents'[p] =
           (personIncidents[p] \ Deleted(message)) \cup {i \in Fresh : p \in incidentPersons'[i]}
      /\ personIncidents' \in [PersonIds -> SUBSET Ids]
  BY <1>1, <1>2, MapsUpdated
<1>4. /\ DOMAIN bagIncident' = DOMAIN NewBagMap \cup DOMAIN bagIncident
      /\ \A k \in DOMAIN NewBagMap : bagIncident'[k] = NewBagMap[k]
      /\ \A k \in DOMAIN bagIncident \ DOMAIN NewBagMap : bagIncident'[k] = bagIncident[k]
      /\ bagIncident' \in Partial(BagIds, Ids)
      /\ Range(bagIncident') \subseteq Fresh \cup Range(bagIncident)
  BY <1>1, <1>2, MapsUpdated
<1>5. /\ Fresh \subseteq DOMAIN incident /\ Fresh \subseteq Ids
      /\ managed \cap Fresh = {} /\ Range(bagIncident) \cap Fresh = {}
      /\ \A i \in NewBags : incident[i].bag \in BagIds /\ BagId(incident[i].bag) \in BagIds
  BY <1>2, FreshAre
<1>6. /\ \A k \in DOMAIN NewBagMap : NewBagMap[k] \in NewBags /\ BagId(incident[NewBagMap[k]].bag) = k
      /\ \A i \in NewBags : BagId(incident[i].bag) \in DOMAIN NewBagMap
      /\ NewBags \subseteq Fresh
  BY <1>2, NewBagMapIs DEF NewBags
<1>7. /\ Len(incident) \in Nat /\ DOMAIN incident = 1..Len(incident) /\ incident \in Seq(Incident)
      /\ managed \subseteq DOMAIN incident /\ \A i \in DOMAIN incident : incident[i] \in Incident
      /\ fresh \in 0..Len(incident) /\ Len(incident) <= MaxIncidents
  BY IncidentsAre
<1>8. Resolving(message) \subseteq managed /\ Resolving(message) \subseteq Deleted(message)
      /\ SystemResolved \subseteq Deleted(message)
  BY <1>1, ResolvingIs DEF Deleted
<1>9. /\ DOMAIN incident' = DOMAIN incident
      /\ \A i \in DOMAIN incident : incident'[i] =
           [incident[i] EXCEPT !.resolved = i \in Resolving(message),
                               !.confirmed = @ \/ message = <<i, "CONFIRMED">>]
      /\ incident' = [i \in 1..Len(incident) |-> incident'[i]]
  BY <1>1, <1>7 DEF Updates
<1>10. \A i \in DOMAIN incident :
         /\ incident'[i].people = incident[i].people /\ incident'[i].roles = incident[i].roles
         /\ incident'[i].bag = incident[i].bag /\ incident'[i].kind = incident[i].kind
         /\ incident'[i].resolved = (i \in Resolving(message)) /\ incident'[i] \in Incident
  <2> SUFFICES ASSUME NEW i \in DOMAIN incident
               PROVE  /\ incident'[i].people = incident[i].people
                         /\ incident'[i].roles = incident[i].roles
                      /\ incident'[i].bag = incident[i].bag /\ incident'[i].kind = incident[i].kind
                      /\ incident'[i].resolved = (i \in Resolving(message)) /\ incident'[i] \in Incident
    OBVIOUS
  <2> DEFINE x == incident[i]
             r == i \in Resolving(message)
             c == x.confirmed \/ message = <<i, "CONFIRMED">>
  <2>1. x \in Incident /\ r \in BOOLEAN /\ c \in BOOLEAN
    BY <1>7
  <2>2. incident'[i] = [x EXCEPT !.resolved = r, !.confirmed = c]
    BY <1>9
  <2>3. incident'[i].resolved = r /\ incident'[i] \in Incident
        /\ incident'[i].people = x.people /\ incident'[i].roles = x.roles
        /\ incident'[i].bag = x.bag /\ incident'[i].kind = x.kind
    <3> HIDE DEF x, r, c
    <3> QED BY <2>1, <2>2 DEF Incident
  <2> QED BY <2>3
<1>11. incident' \in Seq(Incident) /\ Len(incident') = Len(incident)
  <2>1. incident' \in [1..Len(incident) -> Incident]
    BY <1>7, <1>9, <1>10
  <2>2. incident' \in Seq(Incident) /\ DOMAIN incident' = 1..Len(incident)
    BY <2>1, <1>7
  <2> QED BY <2>1, <2>2, <1>7
<1>12. /\ bag' \in [BagIds -> GoodBags]
       /\ \A b \in BagIds : bag'[b].unattended =>
            bag[b].unattended /\ \A i \in Resolving(message) : incident[i].bag # b
  BY <1>1, BagsResolved
<1>13. \A p : PersonId(p)' = PersonId(p) /\ New(p)' = New(p) /\ BagId(p)' = BagId(p)
  BY <1>2 DEF PersonId, New, Renamings, BagId
<1> HIDE DEF kept
<1>14. kept \subseteq managed /\ kept \cap Resolving(message) = {}
       /\ managed' \subseteq DOMAIN incident'
  BY <1>3, <1>5, <1>7, <1>8, <1>9 DEF kept
<1>15. SceneTypes'
  <2>1. bag' \in [BagIds -> Bag]
    BY <1>12 DEF GoodBags
  <2>2. threat' \in [PersonIds -> 0..GunThreshold + 1]
    <3>1. threat \in [PersonIds -> 0..GunThreshold + 1] /\ 0 \in 0..GunThreshold + 1
      BY SceneAssumption DEF Invariant, SceneTypes
    <3>2. threat' = [p \in PersonIds |->
             IF \E i \in Resolving(message) : incident[i].kind = "GUN" /\ p \in incident[i].people
             THEN 0 ELSE threat[p]]
      BY <1>1 DEF Updates
    <3> QED BY <3>1, <3>2
  <2> QED BY <1>2, <1>3, <1>4, <1>7, <1>11, <1>14, <2>1, <2>2 DEF Invariant, SceneTypes
<1>16. WireInv' /\ StoreInv' /\ PeopleAreFiled'
  BY <1>2 DEF Invariant, WireInv, StoreInv, PeopleAreFiled, Busy
<1>17. PhaseInv'
  BY <1>2 DEF Invariant, PhaseInv, Busy, Renamings
<1>18. PeopleInv'
  <2>1. \A b \in BagIds :
         /\ bag'[b].owners \subseteq Objects
         /\ bag'[b].owner # None => bag'[b].owners # {}
         /\ \A p \in PersonIds : bag'[b].scores[p] > 0 => p \in TempPersons \cup DOMAIN persons
    BY <1>12 DEF GoodBags
  <2> QED BY <1>2, <1>9, <1>10, <2>1 DEF Invariant, PeopleInv, Objects
<1>19. MapsAgree'
  <2> SUFFICES ASSUME NEW p \in PersonIds, NEW i \in Ids
               PROVE  i \in personIncidents'[p] <=> i \in managed' /\ p \in incidentPersons'[i]
    BY DEF MapsAgree
  <2>1. i \in personIncidents[p] <=> i \in managed /\ p \in incidentPersons[i]
    BY DEF Invariant, MapsAgree
  <2>2. i \in personIncidents'[p] <=>
          \/ i \in personIncidents[p] /\ i \notin Deleted(message)
          \/ i \in Fresh /\ p \in incidentPersons'[i]
    BY <1>3
  <2> QED BY <2>1, <2>2, <1>3, <1>5 DEF kept
<1>20. FiledInv'
  <2> DEFINE Right(i, ids, people) ==
               /\ \A id \in ids : \E p \in people : New(PersonId(p)) = New(id)
               /\ \A p \in people : \E id \in ids : New(id) = New(PersonId(p))
               /\ \A p \in people : PersonId(p) \in DOMAIN Renamings => PersonId(p) \in ids
  <2>1. ASSUME NEW i \in managed' PROVE Right(i, incidentPersons'[i], incident'[i].people)
    <3>1. incident'[i].people = incident[i].people
      BY <1>9, <1>10, <1>14
    <3>2. CASE i \in Fresh
      BY <3>1, <3>2, <1>3
    <3>3. CASE i \in kept
      <4>1. Right(i, incidentPersons[i], incident[i].people)
        BY <3>3, <1>2, <1>14 DEF Invariant, FiledInv, Busy
      <4> QED BY <3>1, <3>3, <4>1, <1>3
    <3> QED BY <3>2, <3>3, <1>3
  <2>2. \A i \in managed' : Right(i, incidentPersons'[i], incident'[i].people)
    BY <2>1
  <2> QED BY <2>2, <1>2, <1>13 DEF FiledInv, Renamings
<1>21. CalmInv'
  <2>1. \A i \in DOMAIN incident : Filed(i) => Filed(i)'
    BY <1>10, <1>13 DEF Filed
  <2> QED BY <2>1, <1>2, <1>9 DEF Invariant, CalmInv, Busy, Renamings
<1>22. BagMapInv'
  <2>1. /\ IsInjective(bagIncident) /\ Range(bagIncident) \subseteq DOMAIN incident
        /\ \A k \in DOMAIN bagIncident \cap TempBags : incident[bagIncident[k]].bag = k
    BY DEF Invariant, BagMapInv
  <2>2. \A k \in DOMAIN bagIncident \ DOMAIN NewBagMap :
          bagIncident'[k] \in Range(bagIncident) /\ bagIncident'[k] \notin Fresh
    BY <1>4, <1>5 DEF Range
  <2>3. IsInjective(bagIncident')
    <3> SUFFICES ASSUME NEW k \in DOMAIN bagIncident', NEW l \in DOMAIN bagIncident',
                        bagIncident'[k] = bagIncident'[l]
                 PROVE  k = l
      BY DEF IsInjective
    <3>1. CASE k \in DOMAIN NewBagMap /\ l \in DOMAIN NewBagMap
      BY <3>1, <1>4, <1>6
    <3>2. CASE k \notin DOMAIN NewBagMap /\ l \notin DOMAIN NewBagMap
      BY <3>2, <1>4, <2>1 DEF IsInjective
    <3>3. CASE k \in DOMAIN NewBagMap /\ l \notin DOMAIN NewBagMap
      BY <3>3, <1>4, <1>6, <2>2
    <3>4. CASE k \notin DOMAIN NewBagMap /\ l \in DOMAIN NewBagMap
      BY <3>4, <1>4, <1>6, <2>2
    <3> QED BY <3>1, <3>2, <3>3, <3>4
  <2>4. Range(bagIncident') \subseteq DOMAIN incident'
    BY <2>1, <1>4, <1>5, <1>9
  <2>5. ASSUME NEW k \in DOMAIN bagIncident' \cap TempBags PROVE incident'[bagIncident'[k]].bag = k
    <3>1. CASE k \in DOMAIN NewBagMap
      <4> DEFINE i == NewBagMap[k]
      <4>1. i \in NewBags /\ BagId(incident[i].bag) = k /\ bagIncident'[k] = i /\ i \in DOMAIN incident
        BY <3>1, <1>4, <1>5, <1>6
      <4>2. incident[i].bag = k
        BY <4>1, <2>5, IdsAre
      <4> QED BY <4>1, <4>2, <1>10
    <3>2. CASE k \notin DOMAIN NewBagMap
      <4>1. k \in DOMAIN bagIncident /\ bagIncident'[k] = bagIncident[k]
            /\ bagIncident[k] \in DOMAIN incident
        BY <3>2, <1>4, <2>1 DEF Range
      <4> QED BY <4>1, <2>1, <2>5, <1>10
    <3> QED BY <3>1, <3>2
  <2>6. ASSUME NEW k \in DOMAIN bagIncident', bagIncident'[k] \in managed'
        PROVE  ~incident'[bagIncident'[k]].resolved
    <3>1. bagIncident'[k] \notin Resolving(message)
      BY <2>6, <1>3, <1>5, <1>8, <1>14
    <3>2. bagIncident'[k] \in DOMAIN incident
      BY <2>6, <1>9, <1>14
    <3> QED BY <3>1, <3>2, <1>10
  <2> QED BY <2>3, <2>4, <2>5, <2>6 DEF BagMapInv
<1>23. KeptIds'
  BY <1>2 DEF Invariant, KeptIds, Waiting, WaitingBags
<1>24. KeptBags'
  <2> SUFFICES ASSUME "lost" \notin history, NEW b \in TempBags \ Range(bags), bag'[b].unattended
               PROVE  b \in DOMAIN bagIncident' /\ bagIncident'[b] \in managed'
    BY <1>2 DEF KeptBags, IsFiled
  <2>1. bag[b].unattended /\ \A i \in Resolving(message) : incident[i].bag # b
    BY <1>12, Apart
  <2>2. CASE b \in DOMAIN NewBagMap
    BY <2>2, <1>3, <1>4, <1>6
  <2>3. CASE b \notin DOMAIN NewBagMap
    <3>1. ~\E i \in Fresh : incident[i].kind = "BAG" /\ incident[i].bag = b
      <4> SUFFICES ASSUME NEW i \in Fresh, incident[i].kind = "BAG", incident[i].bag = b PROVE FALSE
        OBVIOUS
      <4>1. BagId(b) = b /\ i \in NewBags
        BY IdsAre DEF NewBags
      <4> QED BY <4>1, <2>3, <1>6
    <3>2. b \in DOMAIN bagIncident /\ bagIncident[b] \in managed
      BY <2>1, <3>1, <1>2 DEF Invariant, KeptBags, IsFiled
    <3>3. incident[bagIncident[b]].bag = b /\ ~incident[bagIncident[b]].resolved
      BY <3>2 DEF Invariant, BagMapInv
    <3>4. bagIncident[b] \notin Deleted(message)
      BY <3>2, <3>3, <2>1 DEF Deleted, SystemResolved
    <3> QED BY <3>2, <3>4, <2>3, <1>3, <1>4 DEF kept
  <2> QED BY <2>2, <2>3
<1> QED BY <1>15, <1>16, <1>17, <1>18, <1>19, <1>20, <1>21, <1>22, <1>23, <1>24 DEF Invariant

-----------------------------------------------------------------------------
(* IncidentManager.update_ids. *)
Updated ==
    [t \in {u \in DOMAIN wire.personUpdates : personIncidents[u] # {}} |-> wire.personUpdates[t]]
Touched == UNION {personIncidents[t] : t \in DOMAIN Updated}
Newer(id) == IF id \in DOMAIN Updated THEN Updated[id] ELSE id
UpdatedIncident(i) ==
    IF i \notin Touched THEN incident[i]
    ELSE [incident[i] EXCEPT !.people = Entities(i, Updated), !.roles = {Newer(id) : id \in @}]
Heard == [n \in 1..fresh |-> Len(incident) - fresh + n]

LEMMA UpdateIdsIs ==
    ASSUME UpdateIds
    PROVE  /\ pc = "ids" /\ pc' = "fetch" /\ fresh' = 0 /\ wire' = NoFrame
           /\ incident' = [i \in DOMAIN incident |-> UpdatedIncident(i)]
           /\ incidentPersons' = [i \in managed |->
                IF i \in Touched THEN {Newer(id) : id \in incidentPersons[i]} ELSE incidentPersons[i]]
           /\ personIncidents' = [p \in PersonIds |->
                IF p \in DOMAIN Updated THEN {}
                ELSE personIncidents[p] \cup
                     UNION {personIncidents[t] : t \in {u \in DOMAIN Updated : Updated[u] = p}}]
           /\ output' = output \o Heard
           /\ UNCHANGED <<frames, seen, resolved, history, personVars, threat, storeVars, bag, managed,
                          bagIncident, outputDead>>
  BY DEF UpdateIds, Updated, Touched, Newer, UpdatedIncident, Heard

\* The ids that the frame replaces, where anything is filed under them.
LEMMA UpdatedIs ==
    ASSUME Invariant, pc = "ids"
    PROVE  /\ DOMAIN Updated \subseteq DOMAIN Renamings /\ DOMAIN Updated \subseteq TempPersons
           /\ \A t \in DOMAIN Updated : Updated[t] = Renamings[t]
           /\ \A t \in DOMAIN Renamings :
                Renamings[t] \in RealPersons /\ Renamings[t] \in DOMAIN persons
           /\ DOMAIN Renamings \subseteq TempPersons
           /\ Touched \subseteq managed
           /\ \A i \in managed : \A id \in incidentPersons[i] :
                /\ id \in DOMAIN Renamings => id \in DOMAIN Updated /\ i \in Touched
                /\ Newer(id) = New(id)
           /\ \A id \in PersonIds : Newer(id) \in PersonIds /\ New(id) \in PersonIds
<1>1. /\ wire \in Views /\ Range(Renamings) \subseteq DOMAIN persons
  BY DEF Invariant, WireInv, PhaseInv, Busy
<1>2. DOMAIN Renamings \subseteq TempPersons /\ \A t \in DOMAIN Renamings : Renamings[t] \in RealPersons
  BY <1>1, FrameIs DEF Renames, Renamings
<1>3. \A t \in DOMAIN Renamings : Renamings[t] \in DOMAIN persons
  BY <1>1 DEF Range
<1>4. /\ DOMAIN Updated = {u \in DOMAIN Renamings : personIncidents[u] # {}}
      /\ \A t \in DOMAIN Updated : Updated[t] = Renamings[t]
  BY DEF Updated, Renamings
<1>5. personIncidents \in [PersonIds -> SUBSET Ids]
      /\ incidentPersons \in [managed -> (SUBSET PersonIds) \ {{}}]
      /\ managed \subseteq DOMAIN incident
  BY DEF Invariant, SceneTypes
<1>6. managed \subseteq Ids
  BY IncidentsAre DEF Ids
<1>7. \A p \in PersonIds, i \in Ids : i \in personIncidents[p] <=> i \in managed
      /\ p \in incidentPersons[i]
  BY DEF Invariant, MapsAgree
<1>8. Touched \subseteq managed
  <2> SUFFICES ASSUME NEW t \in DOMAIN Updated, NEW i \in personIncidents[t] PROVE i \in managed
    BY DEF Touched
  <2>1. t \in PersonIds
    BY <1>2, <1>4, Apart
  <2> QED BY <2>1, <1>5, <1>7
<1>9. ASSUME NEW i \in managed, NEW id \in incidentPersons[i]
      PROVE  /\ id \in DOMAIN Renamings => id \in DOMAIN Updated /\ i \in Touched
             /\ Newer(id) = New(id)
  <2>1. i \in personIncidents[id]
    BY <1>5, <1>6, <1>7
  <2>2. id \in DOMAIN Renamings => id \in DOMAIN Updated /\ i \in Touched
    BY <2>1, <1>4 DEF Touched
  <2> QED BY <2>2, <1>4 DEF Newer, New
<1>10. \A id \in PersonIds : Newer(id) \in PersonIds /\ New(id) \in PersonIds
  BY <1>2, <1>4, Apart DEF Newer, New
<1> QED BY <1>2, <1>3, <1>4, <1>8, <1>9, <1>10

\* The people of an incident after it go by the ids that replace theirs.
LEMMA EntitiesAre ==
    ASSUME Invariant, pc = "ids", NEW i \in DOMAIN incident
    PROVE  /\ UpdatedIncident(i) \in Incident
           /\ UpdatedIncident(i).people # {} /\ UpdatedIncident(i).people \subseteq Objects
           /\ UpdatedIncident(i).kind = incident[i].kind /\ UpdatedIncident(i).bag = incident[i].bag
           /\ UpdatedIncident(i).resolved = incident[i].resolved
           /\ i \in managed => {PersonId(p) : p \in UpdatedIncident(i).people}
                                 = {New(id) : id \in incidentPersons[i]}
<1>1. /\ DOMAIN Updated \subseteq DOMAIN Renamings
      /\ \A t \in DOMAIN Updated : Updated[t] = Renamings[t]
      /\ \A t \in DOMAIN Renamings :
           Renamings[t] \in RealPersons /\ Renamings[t] \in DOMAIN persons
      /\ Touched \subseteq managed
      /\ \A j \in managed : \A id \in incidentPersons[j] :
           id \in DOMAIN Renamings => id \in DOMAIN Updated /\ j \in Touched
  BY UpdatedIs
<1>2. \A id \in PersonIds : Newer(id) \in PersonIds
  BY UpdatedIs
<1>3. \A id \in DOMAIN persons : persons[id] \in Objects /\ persons[id] \in PersonIds
  <2> SUFFICES ASSUME NEW id \in DOMAIN persons PROVE persons[id] \in Objects
                      /\ persons[id] \in PersonIds
    OBVIOUS
  <2>1. id \notin TempPersons
    BY Apart DEF Invariant, StoreInv, Store
  <2> QED BY <2>1, PersonOfIs DEF PersonOf
<1>4. /\ incident[i] \in Incident /\ incident[i].people \subseteq PersonIds
      /\ incident[i].roles \subseteq PersonIds \cup BagIds
      /\ incident[i].people # {} /\ incident[i].people \subseteq Objects
  BY IncidentsAre, IncidentFields DEF Invariant, PeopleInv
<1> DEFINE entity(p) == IF PersonId(p) \in DOMAIN Updated THEN persons[Updated[PersonId(p)]] ELSE p
<1>5. Entities(i, Updated) = {entity(p) : p \in incident[i].people}
  BY DEF Entities
<1>6. \A p \in incident[i].people : entity(p) \in Objects /\ entity(p) \in PersonIds
  BY <1>1, <1>3, <1>4
<1>7. \A p : PersonId(entity(p)) = Newer(PersonId(p))
  <2> SUFFICES ASSUME NEW p PROVE PersonId(entity(p)) = Newer(PersonId(p))
    OBVIOUS
  <2>1. CASE PersonId(p) \in DOMAIN Updated
    <3>1. Updated[PersonId(p)] \in DOMAIN persons /\ IsInjective(persons)
      BY <2>1, <1>1 DEF Invariant, StoreInv, Store
    <3>2. PersonId(persons[Updated[PersonId(p)]]) = Updated[PersonId(p)]
      BY <3>1, IdInIs DEF PersonId
    <3> QED BY <2>1, <3>2 DEF Newer
  <2>2. CASE PersonId(p) \notin DOMAIN Updated
    BY <2>2 DEF Newer
  <2> QED BY <2>1, <2>2
<1>8. \A x \in Entities(i, Updated) : \E p \in incident[i].people : PersonId(x) = Newer(PersonId(p))
  BY <1>5, <1>7
<1>9. \A p \in incident[i].people : \E x \in Entities(i, Updated) : PersonId(x) = Newer(PersonId(p))
  BY <1>5, <1>7
<1>10. /\ Entities(i, Updated) # {} /\ Entities(i, Updated) \subseteq Objects
       /\ Entities(i, Updated) \subseteq PersonIds
  BY <1>4, <1>5, <1>6
<1>11. {Newer(id) : id \in incident[i].roles} \subseteq PersonIds \cup BagIds
  <2> SUFFICES ASSUME NEW id \in PersonIds \cup BagIds PROVE Newer(id) \in PersonIds \cup BagIds
    BY <1>4
  <2>1. CASE id \in PersonIds
    BY <2>1, <1>2
  <2>2. CASE id \notin PersonIds
    <3>1. id \notin DOMAIN Updated
      BY <2>2, UpdatedIs, Apart
    <3> QED BY <3>1 DEF Newer
  <2> QED BY <2>1, <2>2
<1> DEFINE people == Entities(i, Updated)
           roles == {Newer(id) : id \in incident[i].roles}
           x == incident[i]
<1>12. UpdatedIncident(i) = IF i \notin Touched THEN x ELSE [x EXCEPT !.people = people,
       !.roles = roles]
  BY DEF UpdatedIncident
<1>13. /\ UpdatedIncident(i) \in Incident
       /\ UpdatedIncident(i).people = (IF i \notin Touched THEN x.people ELSE people)
       /\ UpdatedIncident(i).kind = x.kind /\ UpdatedIncident(i).bag = x.bag
       /\ UpdatedIncident(i).resolved = x.resolved
  <2>1. /\ x \in Incident /\ people \subseteq PersonIds /\ roles \subseteq PersonIds \cup BagIds
    BY <1>4, <1>10, <1>11
  <2> HIDE DEF x, people, roles
  <2>2. CASE i \notin Touched
    BY <2>1, <2>2, <1>12
  <2>3. CASE i \in Touched
    BY <2>1, <2>3, <1>12 DEF Incident
  <2> QED BY <2>2, <2>3
<1>14. UpdatedIncident(i).people # {} /\ UpdatedIncident(i).people \subseteq Objects
  BY <1>4, <1>10, <1>13
<1>15. ASSUME i \in managed
       PROVE  {PersonId(p) : p \in UpdatedIncident(i).people} = {New(id) : id \in incidentPersons[i]}
  <2>1. /\ \A id \in incidentPersons[i] : \E p \in x.people : New(PersonId(p)) = New(id)
        /\ \A p \in x.people : \E id \in incidentPersons[i] : New(id) = New(PersonId(p))
        /\ \A p \in x.people : PersonId(p) \in DOMAIN Renamings => PersonId(p) \in incidentPersons[i]
    BY <1>15 DEF Invariant, FiledInv, Busy
  <2>2. \A p \in x.people : /\ Newer(PersonId(p)) = New(PersonId(p))
                            /\ i \notin Touched => New(PersonId(p)) = PersonId(p)
    <3> SUFFICES ASSUME NEW p \in x.people
                 PROVE  /\ Newer(PersonId(p)) = New(PersonId(p))
                        /\ i \notin Touched => New(PersonId(p)) = PersonId(p)
      OBVIOUS
    <3>1. PersonId(p) \in DOMAIN Renamings => PersonId(p) \in DOMAIN Updated /\ i \in Touched
      BY <2>1, <1>1, <1>15
    <3> QED BY <3>1, <1>1 DEF Newer, New
  <2>3. \A q \in UpdatedIncident(i).people : \E p \in x.people : PersonId(q) = New(PersonId(p))
    BY <2>2, <1>8, <1>13
  <2>4. \A p \in x.people : \E q \in UpdatedIncident(i).people : PersonId(q) = New(PersonId(p))
    BY <2>2, <1>9, <1>13
  <2>5. \A q \in UpdatedIncident(i).people : \E id \in incidentPersons[i] : PersonId(q) = New(id)
    BY <2>1, <2>3
  <2>6. \A id \in incidentPersons[i] : \E q \in UpdatedIncident(i).people : PersonId(q) = New(id)
    BY <2>1, <2>4
  <2> QED BY <2>5, <2>6
<1> QED BY <1>13, <1>14, <1>15

\* The maps after it.
LEMMA MapsRenamed ==
    ASSUME Invariant, UpdateIds
    PROVE  /\ incidentPersons' \in [managed -> (SUBSET PersonIds) \ {{}}]
           /\ \A i \in managed : incidentPersons'[i] = {New(id) : id \in incidentPersons[i]}
           /\ personIncidents' \in [PersonIds -> SUBSET Ids]
           /\ \A p \in PersonIds, i \in Ids :
                i \in personIncidents'[p] <=> i \in managed /\ p \in incidentPersons'[i]
<1>1. /\ pc = "ids"
      /\ incidentPersons' = [i \in managed |->
           IF i \in Touched THEN {Newer(id) : id \in incidentPersons[i]} ELSE incidentPersons[i]]
      /\ personIncidents' = [p \in PersonIds |->
           IF p \in DOMAIN Updated THEN {}
           ELSE personIncidents[p] \cup
                UNION {personIncidents[t] : t \in {u \in DOMAIN Updated : Updated[u] = p}}]
  BY UpdateIdsIs
<1>2. /\ DOMAIN Updated \subseteq DOMAIN Renamings /\ DOMAIN Updated \subseteq TempPersons
      /\ \A t \in DOMAIN Updated : Updated[t] = Renamings[t]
      /\ \A t \in DOMAIN Renamings : Renamings[t] \in RealPersons
      /\ DOMAIN Renamings \subseteq TempPersons
      /\ \A i \in managed : \A id \in incidentPersons[i] :
           /\ id \in DOMAIN Renamings => id \in DOMAIN Updated /\ i \in Touched
           /\ Newer(id) = New(id)
      /\ \A id \in PersonIds : New(id) \in PersonIds
  BY <1>1, UpdatedIs
<1>3. /\ personIncidents \in [PersonIds -> SUBSET Ids]
      /\ incidentPersons \in [managed -> (SUBSET PersonIds) \ {{}}]
      /\ \A p \in PersonIds, i \in Ids :
           i \in personIncidents[p] <=> i \in managed /\ p \in incidentPersons[i]
  BY DEF Invariant, SceneTypes, MapsAgree
<1>4. ASSUME NEW i \in managed
      PROVE  /\ incidentPersons'[i] = {New(id) : id \in incidentPersons[i]}
             /\ incidentPersons'[i] \in (SUBSET PersonIds) \ {{}}
  <2> DEFINE ids == {New(id) : id \in incidentPersons[i]}
  <2>1. incidentPersons'[i] = ids
    <3>1. CASE i \in Touched
      <4>1. incidentPersons'[i] = {Newer(id) : id \in incidentPersons[i]}
        BY <3>1, <1>1
      <4> QED BY <4>1, <1>2
    <3>2. CASE i \notin Touched
      <4>1. incidentPersons'[i] = incidentPersons[i]
        BY <3>2, <1>1
      <4>2. \A id \in incidentPersons[i] : New(id) = id
        BY <3>2, <1>2 DEF New
      <4> QED BY <4>1, <4>2
    <3> QED BY <3>1, <3>2
  <2>2. ids \subseteq PersonIds /\ ids # {}
    BY <1>2, <1>3
  <2> HIDE DEF ids
  <2>3. incidentPersons'[i] \in (SUBSET PersonIds) \ {{}}
    BY <2>1, <2>2
  <2> QED BY <2>1, <2>3 DEF ids
<1>5. incidentPersons' \in [managed -> (SUBSET PersonIds) \ {{}}]
  <2>1. incidentPersons' = [i \in managed |-> incidentPersons'[i]]
    BY <1>1
  <2> QED BY <2>1, <1>4
<1>6. ASSUME NEW p \in PersonIds
      PROVE  \A i : i \in personIncidents'[p] <=>
               /\ p \notin DOMAIN Updated
               /\ i \in personIncidents[p] \/ \E u \in DOMAIN Updated : Updated[u] = p
                  /\ i \in personIncidents[u]
  BY <1>1
<1>7. personIncidents' \in [PersonIds -> SUBSET Ids]
  <2>1. \A p \in PersonIds : personIncidents'[p] \in SUBSET Ids
    <3> SUFFICES ASSUME NEW p \in PersonIds, NEW i \in personIncidents'[p] PROVE i \in Ids
      OBVIOUS
    <3>1. i \in personIncidents[p] \/ \E u \in DOMAIN Updated : i \in personIncidents[u]
      BY <1>6
    <3>2. DOMAIN Updated \subseteq PersonIds
      BY <1>2, Apart
    <3> QED BY <3>1, <3>2, <1>3
  <2>2. personIncidents' = [p \in PersonIds |-> personIncidents'[p]]
    BY <1>1
  <2> QED BY <2>1, <2>2
<1>8. ASSUME NEW p \in PersonIds, NEW i \in Ids
      PROVE  i \in personIncidents'[p] <=> i \in managed /\ p \in incidentPersons'[i]
  <2>1. DOMAIN Updated \subseteq PersonIds
    BY <1>2, Apart
  <2>2. i \in managed => (p \in incidentPersons'[i] <=> \E id \in incidentPersons[i] : New(id) = p)
    BY <1>4
  <2>3. CASE p \in DOMAIN Updated
    <3>1. i \notin personIncidents'[p]
      BY <2>3, <1>6
    <3>2. \A id : New(id) # p
      BY <2>3, <1>2, Apart DEF New
    <3> QED BY <3>1, <3>2, <2>2
  <2>4. CASE p \notin DOMAIN Updated
    <3>1. ASSUME i \in personIncidents'[p] PROVE i \in managed
                 /\ \E id \in incidentPersons[i] : New(id) = p
      <4>1. CASE i \in personIncidents[p]
        <5>1. i \in managed /\ p \in incidentPersons[i]
          BY <4>1, <1>3
        <5>2. p \notin DOMAIN Renamings
          BY <5>1, <2>4, <1>2
        <5> QED BY <5>1, <5>2 DEF New
      <4>2. ASSUME NEW u \in DOMAIN Updated, Updated[u] = p, i \in personIncidents[u]
            PROVE  i \in managed /\ \E id \in incidentPersons[i] : New(id) = p
        <5>1. i \in managed /\ u \in incidentPersons[i]
          BY <4>2, <2>1, <1>3
        <5>2. New(u) = p
          BY <4>2, <1>2 DEF New
        <5> QED BY <5>1, <5>2
      <4> QED BY <3>1, <4>1, <4>2, <1>6
    <3>2. ASSUME i \in managed, NEW id \in incidentPersons[i],
                 New(id) = p PROVE i \in personIncidents'[p]
      <4>1. id \in PersonIds /\ i \in personIncidents[id]
        BY <3>2, <1>3
      <4>2. CASE id \in DOMAIN Renamings
        <5>1. id \in DOMAIN Updated /\ Updated[id] = p
          BY <3>2, <4>2, <1>2 DEF New
        <5> QED BY <5>1, <4>1, <2>4, <1>6
      <4>3. CASE id \notin DOMAIN Renamings
        <5>1. id = p
          BY <3>2, <4>3 DEF New
        <5> QED BY <5>1, <4>1, <2>4, <1>6
      <4> QED BY <4>2, <4>3
    <3> QED BY <3>1, <3>2, <2>2
  <2> QED BY <2>3, <2>4
<1> QED BY <1>4, <1>5, <1>7, <1>8

\* The incidents of the frame are handed to the output thread.
LEMMA HeardAre ==
    ASSUME Invariant
    PROVE  /\ output \o Heard \in Seq(Ids)
           /\ Range(output \o Heard) \subseteq DOMAIN incident
<1>1. /\ Len(incident) \in Nat /\ DOMAIN incident = 1..Len(incident) /\ fresh \in 0..Len(incident)
      /\ Len(incident) <= MaxIncidents /\ MaxIncidents \in Nat
  BY IncidentsAre
<1>2. output \in Seq(Ids) /\ Range(output) \subseteq DOMAIN incident
  BY DEF Invariant, SceneTypes, CalmInv
<1>3. \A n \in 1..fresh : Len(incident) - fresh + n \in 1..Len(incident)
  BY <1>1
<1>4. Heard \in [1..fresh -> 1..Len(incident)]
  BY <1>3 DEF Heard
<1>5. fresh \in Nat /\ Heard \in Seq(1..Len(incident)) /\ 1..Len(incident) \subseteq Ids
  BY <1>1, <1>4 DEF Ids
<1>6. Heard \in Seq(Ids)
  BY <1>5
<1>7. output \o Heard \in Seq(Ids)
  BY <1>2, <1>6
<1>8. output \in Seq(DOMAIN incident) /\ Heard \in Seq(DOMAIN incident)
  <2>1. \A n \in 1..Len(output) : output[n] \in DOMAIN incident
    BY <1>2 DEF Range
  <2> QED BY <2>1, <1>1, <1>2, <1>5
<1>9. output \o Heard \in Seq(DOMAIN incident)
  <2> DEFINE D == DOMAIN incident
  <2>1. output \in Seq(D) /\ Heard \in Seq(D)
    BY <1>8
  <2> HIDE DEF D
  <2>2. output \o Heard \in Seq(D)
    BY <2>1
  <2> QED BY <2>2 DEF D
<1>10. Range(output \o Heard) \subseteq DOMAIN incident
  BY <1>9 DEF Range
<1> QED BY <1>7, <1>10

LEMMA UpdateIdsStep ==
    ASSUME Invariant, UpdateIds
    PROVE  Invariant'
<1> USE DEF personVars, storeVars, mapVars, outputVars, reidVars
<1>1. /\ pc = "ids" /\ pc' = "fetch" /\ fresh' = 0 /\ wire' = NoFrame
      /\ incident' = [i \in DOMAIN incident |-> UpdatedIncident(i)]
      /\ output' = output \o Heard
      /\ UNCHANGED <<frames, seen, resolved, history, personVars, threat, storeVars, bag, managed,
                     bagIncident, outputDead>>
  BY UpdateIdsIs
<1>2. /\ incidentPersons' \in [managed -> (SUBSET PersonIds) \ {{}}]
      /\ \A i \in managed : incidentPersons'[i] = {New(id) : id \in incidentPersons[i]}
      /\ personIncidents' \in [PersonIds -> SUBSET Ids]
      /\ \A p \in PersonIds, i \in Ids :
           i \in personIncidents'[p] <=> i \in managed /\ p \in incidentPersons'[i]
  BY MapsRenamed
<1>3. /\ Len(incident) \in Nat /\ DOMAIN incident = 1..Len(incident)
      /\ managed \subseteq DOMAIN incident /\ Len(incident) <= MaxIncidents
  BY IncidentsAre
<1>4. DOMAIN incident' = DOMAIN incident /\ \A i \in DOMAIN incident : incident'[i] = UpdatedIncident(i)
  BY <1>1
<1>5. \A i \in DOMAIN incident :
        /\ incident'[i] \in Incident /\ incident'[i].people # {}
           /\ incident'[i].people \subseteq Objects
        /\ incident'[i].kind = incident[i].kind /\ incident'[i].bag = incident[i].bag
        /\ incident'[i].resolved = incident[i].resolved
        /\ i \in managed => {PersonId(p) : p \in incident'[i].people}
                              = {New(id) : id \in incidentPersons[i]}
  BY <1>1, <1>4, EntitiesAre
<1>6. incident' \in Seq(Incident) /\ Len(incident') = Len(incident)
  <2>1. incident' = [i \in 1..Len(incident) |-> incident'[i]]
    BY <1>1, <1>3
  <2>2. incident' \in [1..Len(incident) -> Incident]
    BY <2>1, <1>3, <1>5
  <2>3. incident' \in Seq(Incident) /\ DOMAIN incident' = 1..Len(incident)
    BY <2>2, <1>3
  <2> QED BY <2>3, <1>3
<1>7. \A p : PersonId(p)' = PersonId(p) /\ BagId(p)' = BagId(p)
  BY <1>1 DEF PersonId, BagId
<1>8. output' \in Seq(Ids) /\ Range(output') \subseteq DOMAIN incident
  BY <1>1, HeardAre
<1>9. SceneTypes'
  <2>1. managed' \subseteq DOMAIN incident' /\ fresh' \in 0..Len(incident')
        /\ Len(incident') <= MaxIncidents
    BY <1>1, <1>3, <1>4, <1>6
  <2> QED BY <1>1, <1>2, <1>6, <1>8, <2>1 DEF Invariant, SceneTypes
<1>10. WireInv' /\ StoreInv'
  BY <1>1 DEF Invariant, WireInv, StoreInv, Busy
<1>11. PhaseInv'
  <2>1. Range(bagIncident) \subseteq DOMAIN incident
    BY DEF Invariant, BagMapInv
  <2> QED BY <1>1, <1>3, <1>6, <2>1 DEF PhaseInv, Busy
<1>12. PeopleInv'
  BY <1>1, <1>4, <1>5 DEF Invariant, PeopleInv, Objects
<1>13. MapsAgree'
  BY <1>1, <1>2 DEF MapsAgree
<1>14. PeopleAreFiled'
  <2> SUFFICES ASSUME NEW i \in managed
               PROVE  {PersonId(p)' : p \in incident'[i].people} = incidentPersons'[i]
    BY <1>1 DEF PeopleAreFiled
  <2>1. {PersonId(p) : p \in incident'[i].people} = incidentPersons'[i]
    BY <1>2, <1>3, <1>5
  <2> QED BY <2>1, <1>7
<1>15. FiledInv'
  BY <1>1 DEF FiledInv, Busy
<1>16. CalmInv'
  <2> SUFFICES ASSUME "renamed" \notin history, NEW i \in DOMAIN incident PROVE Filed(i)'
    BY <1>1, <1>4, <1>8 DEF Invariant, CalmInv, Busy
  <2>1. DOMAIN Renamings = {} /\ Filed(i)
    BY <1>1 DEF Invariant, CalmInv, Busy
  <2>2. Touched = {}
    <3>1. DOMAIN Updated = {}
      BY <2>1, <1>1, UpdatedIs
    <3> QED BY <3>1 DEF Touched
  <2>3. incident'[i] = incident[i]
    BY <2>2, <1>4 DEF UpdatedIncident
  <2> QED BY <2>1, <2>3, <1>7 DEF Filed
<1>17. BagMapInv'
  <2>1. \A k \in DOMAIN bagIncident : bagIncident[k] \in DOMAIN incident
    BY DEF Invariant, BagMapInv, Range
  <2>2. \A k \in DOMAIN bagIncident :
          /\ incident'[bagIncident[k]].bag = incident[bagIncident[k]].bag
          /\ incident'[bagIncident[k]].resolved = incident[bagIncident[k]].resolved
    BY <2>1, <1>5
  <2> QED BY <2>2, <1>1, <1>4 DEF Invariant, BagMapInv
<1>18. KeptIds' /\ KeptBags'
  BY <1>1 DEF Invariant, KeptIds, KeptBags, Waiting, WaitingBags, IsFiled
<1> QED BY <1>9, <1>10, <1>11, <1>12, <1>13, <1>14, <1>15, <1>16, <1>17, <1>18 DEF Invariant

-----------------------------------------------------------------------------
(* The invariant holds of all. *)
LEMMA InvariantHoldsFirst ==
    ASSUME Init
    PROVE  Invariant
<1>1. /\ <<>> \in Partial(RealPersons, PersonIds) /\ <<>> \in Partial(TempPersons, RealPersons)
      /\ <<>> \in Partial(RealBags, BagIds) /\ <<>> \in Partial(BagIds, Ids)
      /\ DOMAIN <<>> = {} /\ Range(<<>>) = {} /\ IsInjective(<<>>)
  BY Nothing
<1>2. /\ wire = NoFrame /\ seen = {} /\ resolved = <<>>
      /\ pc = "fetch" /\ history = {}
      /\ persons = <<>> /\ tempPersons = {} /\ tempToId = <<>> /\ idGuesses = <<>>
      /\ threat = [p \in PersonIds |-> 0]
      /\ bags = <<>> /\ tempBags = {} /\ bag = [b \in BagIds |-> NewBag]
      /\ incident = <<>> /\ managed = {} /\ fresh = 0
      /\ personIncidents = [p \in PersonIds |-> {}]
      /\ incidentPersons = <<>> /\ bagIncident = <<>>
      /\ output = <<>> /\ outputDead = FALSE
  BY DEF Init, ReidInit
<1>3. NewBag \in Bag /\ NewBag.owner = None /\ NewBag.owners = {} /\ ~NewBag.unattended
      /\ \A p \in PersonIds : NewBag.scores[p] = 0
  <2>1. /\ 0 \in 0..OwnerThreshold + 1 /\ 0 \in 0..UnattendedTime + 1
        /\ [p \in PersonIds |-> 0] \in [PersonIds -> 0..OwnerThreshold + 1]
    BY SceneAssumption
  <2> QED BY <2>1 DEF NewBag, Bag
<1>4. SceneTypes
  <2>1. 0 \in 0..GunThreshold + 1 /\ MaxIncidents \in Nat
    BY SceneAssumption
  <2>2. /\ incident \in Seq(Incident) /\ Len(incident) = 0 /\ output \in Seq(Ids)
        /\ incidentPersons \in [managed -> (SUBSET PersonIds) \ {{}}]
    BY <1>2
  <2>3. /\ threat \in [PersonIds -> 0..GunThreshold + 1] /\ bag \in [BagIds -> Bag]
        /\ personIncidents \in [PersonIds -> SUBSET Ids]
    BY <1>2, <1>3, <2>1
  <2>4. /\ persons \in Partial(RealPersons, PersonIds) /\ tempToId \in Partial(TempPersons, RealPersons)
        /\ idGuesses \in Partial(TempPersons, RealPersons) /\ bags \in Partial(RealBags, BagIds)
        /\ bagIncident \in Partial(BagIds, Ids)
    BY <1>1, <1>2
  <2>5. managed \subseteq DOMAIN incident /\ fresh \in 0..Len(incident) /\ Len(incident) <= MaxIncidents
    BY <1>2, <2>1, <2>2
  <2> QED BY <1>2, <2>2, <2>3, <2>4, <2>5 DEF SceneTypes
<1>5. WireInv /\ StoreInv /\ PhaseInv
  BY <1>1, <1>2 DEF WireInv, StoreInv, PhaseInv, Store, Busy
<1>6. PeopleInv /\ MapsAgree /\ PeopleAreFiled /\ FiledInv
  BY <1>1, <1>2, <1>3 DEF PeopleInv, MapsAgree, PeopleAreFiled, FiledInv, Busy
<1>7. CalmInv /\ BagMapInv
  BY <1>1, <1>2 DEF CalmInv, BagMapInv, Busy
<1>8. KeptIds /\ KeptBags
  BY <1>1, <1>2, <1>3, Apart DEF KeptIds, KeptBags, Waiting, WaitingBags
<1> QED BY <1>4, <1>5, <1>6, <1>7, <1>8 DEF Invariant

LEMMA NextKeeps ==
    ASSUME Invariant, [Next]_vars
    PROVE  Invariant'
<1>1. CASE Reid
  BY <1>1, IdentifyStep DEF Reid
<1>2. CASE LoseFrame
  BY <1>2, LoseFrameStep
<1>3. CASE NoticeDeath \/ UnknownPerson
  <2>1. pc = "fetch" /\ Die({})
    BY <1>3 DEF NoticeDeath, UnknownPerson
  <2> QED BY <2>1, DieStep
<1>4. CASE UnknownBag \/ OldIdNearby \/ UnfiledBag
  <2>1. pc \in {"bags", "owners", "unattended"} /\ Die({})
    BY <1>4 DEF UnknownBag, OldIdNearby, UnfiledBag
  <2> QED BY <2>1, DieStep
<1>5. CASE DeletedTwice
  <2>1. pc = "incidents" /\ Die({"twice"})
    BY <1>5 DEF DeletedTwice
  <2> QED BY <2>1, DieStep
<1>6. CASE UpdatePersons
  BY <1>6, UpdatePersonsStep
<1>7. CASE UpdateBags
  BY <1>7, UpdateBagsStep
<1>8. CASE FindOwners
  BY <1>8, FindOwnersStep
<1>9. CASE ScanBags
  BY <1>9, ScanBagsStep
<1>10. CASE SeeGuns
  BY <1>10, SeeGunsStep
<1>11. CASE UpdateIncidents
  BY <1>11, UpdateIncidentsStep
<1>12. CASE UpdateIds
  BY <1>12, UpdateIdsStep
<1>13. CASE Publish
  BY <1>13, PublishStep
<1>14. CASE UNCHANGED vars
  BY <1>14, StutterStep
<1> QED
  BY <1>1, <1>2, <1>3, <1>4, <1>5, <1>6, <1>7, <1>8, <1>9, <1>10, <1>11, <1>12, <1>13, <1>14
     DEF Next, Association

\* The invariant holds of every run of the loop, with frames lost and threads dead.
THEOREM SceneInvariant == Spec => []Invariant
  BY InvariantHoldsFirst, NextKeeps, PTL DEF Spec

\* The maps between persons and incidents are inverse in every phase, and between frames
\* every managed incident has its people under the ids they go by.
THEOREM SceneIsConsistent == Spec => []SceneConsistent
<1>1. Invariant => SceneConsistent
  BY DEF Invariant, SceneConsistent
<1> QED BY <1>1, SceneInvariant, PTL

-----------------------------------------------------------------------------
(* What a step may never do. *)
\* An id in view names an object: a temporary one itself, a real one that stored under it.
LEMMA InView ==
    ASSUME Invariant, Busy, NEW p \in Visible
    PROVE  \/ p \in tempPersons /\ PersonOf(p) = p /\ p \notin Range(persons) /\ PersonId(p) = p
              /\ p \in TempPersons /\ p \notin DOMAIN Renamings
           \/ p \in DOMAIN persons /\ PersonOf(p) = persons[p] /\ PersonId(persons[p]) = p
              /\ p \in RealPersons /\ p \notin TempPersons
<1>1. /\ DOMAIN persons \subseteq RealPersons /\ IsInjective(persons)
         /\ tempPersons \subseteq TempPersons
      /\ tempPersons \cap Range(persons) = {}
      /\ DOMAIN wire.persons \subseteq tempPersons \cup DOMAIN persons
      /\ DOMAIN Renamings \cap tempPersons = {}
  BY DEF Invariant, StoreInv, Store, SceneTypes, PhaseInv
<1>2. CASE p \in tempPersons
  BY <1>1, <1>2, IdsAre DEF PersonOf
<1>3. CASE p \in DOMAIN persons
  BY <1>1, <1>3, IdInIs, Apart DEF PersonOf, PersonId
<1> QED BY <1>1, <1>2, <1>3 DEF Visible

Cause ==
    \/ history' \cap {"lost", "twice"} # {}
    \/ outputDead /\ "renamed" \in history
    \/ \E b \in VisibleBags : BagId(b) # b
    \/ Ownerless # {} /\ \E p \in Visible : PersonOf(p) # p

LEMMA UnfiledHasCause ==
    ASSUME Invariant, UnfiledBag
    PROVE  Cause
<1> SUFFICES ASSUME "lost" \notin history, \A b \in VisibleBags : BagId(b) = b
             PROVE  FALSE
  BY DEF UnfiledBag, Die, Cause
<1>1. pc = "unattended"
  BY DEF UnfiledBag
<1>2. PICK scan \in Scanned(Scannable) : \E b \in scan.bags :
        /\ bag[b].unattended
        /\ BagId(b) \in DOMAIN bagIncident => bagIncident[BagId(b)] \notin managed
  BY DEF UnfiledBag, Scannable
<1>3. PICK b \in scan.bags :
        /\ bag[b].unattended
        /\ BagId(b) \in DOMAIN bagIncident => bagIncident[BagId(b)] \notin managed
  BY <1>2
<1>4. b \in VisibleBags /\ BagId(b) = b
  BY <1>1, ScannedAre
<1>5. ~IsFiled(b)
  BY <1>3, <1>4 DEF IsFiled
<1>6. PICK id \in DOMAIN wire.bags : b = BagOf(id)
  BY <1>4 DEF VisibleBags
<1>7. /\ DOMAIN wire.bags \subseteq tempBags \cup DOMAIN bags
      /\ DOMAIN bags \subseteq RealBags /\ IsInjective(bags) /\ tempBags \subseteq TempBags
      /\ tempBags \cap Range(bags) = {}
  BY <1>1 DEF Invariant, PhaseInv, Busy, StoreInv, Store, SceneTypes
<1>8. CASE id \in tempBags
  <2>1. b = id /\ b \in TempBags \ Range(bags)
    BY <1>6, <1>7, <1>8 DEF BagOf
  <2>2. IsFiled(b)
    BY <2>1, <1>1, <1>3 DEF Invariant, KeptBags
  <2> QED BY <2>2, <1>5
<1>9. CASE id \in DOMAIN bags
  <2>1. b = bags[id]
    BY <1>6, <1>7, <1>9, Apart DEF BagOf
  <2>2. BagId(b) = id
    BY <2>1, <1>7, <1>9, IdInIs DEF BagId
  <2>3. bags[id] \in TempBags
    BY <1>1, <1>9 DEF Invariant, KeptIds
  <2> QED BY <2>1, <2>2, <2>3, <1>4, <1>7, <1>9, Apart
<1> QED BY <1>6, <1>7, <1>8, <1>9

LEMMA NearbyHasCause ==
    ASSUME Invariant, OldIdNearby
    PROVE  Cause
<1>1. pc = "owners" /\ Busy
  BY DEF OldIdNearby, Busy
<1>2. PICK b \in Ownerless : \E p \in Around(b) : ~KnownPerson(p)
  BY DEF OldIdNearby
<1>3. PICK p \in Around(b) : ~KnownPerson(p)
  BY <1>2
<1>4. PICK q \in Visible : p = PersonOf(q)
  BY <1>3 DEF Around
<1>5. PersonOf(q) # q
  <2> SUFFICES ASSUME PersonOf(q) = q PROVE FALSE
    OBVIOUS
  <2>1. q \in tempPersons \cup DOMAIN persons
    BY <1>1, InView
  <2> QED BY <2>1, <1>3, <1>4 DEF KnownPerson
<1> QED BY <1>2, <1>4, <1>5 DEF Cause

LEMMA DeathHasCause ==
    ASSUME Invariant, [Next]_vars, pc # "dead", pc' = "dead"
    PROVE  Cause
<1>1. CASE NoticeDeath
  BY <1>1 DEF NoticeDeath, Invariant, CalmInv, Cause
<1>2. CASE UnknownPerson
  <2>1. /\ Waiting /\ ~(DOMAIN wire.personUpdates \subseteq tempPersons) /\ history' = history \cup {}
    BY <1>2 DEF UnknownPerson, Waiting, Die
  <2>2. "lost" \in history
    BY <2>1 DEF Invariant, KeptIds, Waiting
  <2> QED BY <2>1, <2>2 DEF Cause
<1>3. CASE UnknownBag
  <2>1. /\ WaitingBags /\ ~(DOMAIN wire.bagUpdates \subseteq tempBags) /\ history' = history \cup {}
    BY <1>3 DEF UnknownBag, WaitingBags, Die, Invariant, WireInv, Busy
  <2>2. "lost" \in history
    BY <2>1 DEF Invariant, KeptIds
  <2> QED BY <2>1, <2>2 DEF Cause
<1>4. CASE OldIdNearby
  BY <1>4, NearbyHasCause
<1>5. CASE UnfiledBag
  BY <1>5, UnfiledHasCause
<1>6. CASE DeletedTwice
  BY <1>6 DEF DeletedTwice, Die, Cause
<1>7. CASE Reid \/ LoseFrame \/ Publish \/ UNCHANGED vars
  BY <1>7 DEF Reid, LoseFrame, Publish, vars
<1>8. CASE UpdatePersons \/ UpdateBags \/ FindOwners \/ ScanBags \/ SeeGuns \/ UpdateIncidents
           \/ UpdateIds
  BY <1>8 DEF UpdatePersons, UpdateBags, FindOwners, ScanBags, SeeGuns, UpdateIncidents, UpdateIds
<1> QED BY <1>1, <1>2, <1>3, <1>4, <1>5, <1>6, <1>7, <1>8 DEF Next, Association

\* The lookups of the loop fail only for the causes named.
THEOREM WorkerDiesForCause == Spec => DiesForCause
<1>1. Invariant /\ [Next]_vars =>
        (pc # "dead" /\ pc' = "dead"
          => \/ history' \cap {"lost", "twice"} # {}
             \/ outputDead /\ "renamed" \in history
             \/ \E b \in VisibleBags : BagId(b) # b
             \/ Ownerless # {} /\ \E p \in Visible : PersonOf(p) # p)
  BY DeathHasCause DEF Cause
<1> QED BY <1>1, SceneInvariant, PTL DEF Spec, DiesForCause

\* What is kept by every step that is not one of those named.
LEMMA OthersKeep ==
    ASSUME [Next]_vars
    PROVE  /\ \/ UpdateBags \/ FindOwners \/ ScanBags \/ UpdateIncidents
              \/ bag' = bag
           /\ \/ ScanBags \/ SeeGuns
              \/ DOMAIN incident' = DOMAIN incident
<1>1. CASE Reid \/ LoseFrame \/ Publish \/ UNCHANGED vars \/ UpdatePersons
  BY <1>1 DEF Reid, LoseFrame, Publish, vars, UpdatePersons
<1>2. CASE NoticeDeath \/ UnknownPerson \/ UnknownBag \/ OldIdNearby \/ UnfiledBag \/ DeletedTwice
  BY <1>2 DEF NoticeDeath, UnknownPerson, UnknownBag, OldIdNearby, UnfiledBag, DeletedTwice, Die
<1>3. CASE UpdateBags \/ FindOwners
  BY <1>3 DEF UpdateBags, FindOwners
<1>4. CASE ScanBags
  BY <1>4
<1>5. CASE SeeGuns
  BY <1>5 DEF SeeGuns
<1>6. CASE UpdateIncidents
  BY <1>6 DEF UpdateIncidents
<1>7. CASE UpdateIds
  BY <1>7 DEF UpdateIds
<1> QED BY <1>1, <1>2, <1>3, <1>4, <1>5, <1>6, <1>7 DEF Next, Association

LEMMA OwnerStays ==
    ASSUME Invariant, [Next]_vars, NEW b \in BagIds, bag[b].owner # None, bag'[b].owner # bag[b].owner
    PROVE  /\ bag[b].owner \in DOMAIN tempToId
           /\ bag'[b].owner = persons[tempToId[bag[b].owner]]
<1>1. CASE UpdateBags
  BY <1>1, BagsMerged
<1>2. CASE FindOwners
  BY <1>2, OwnersFound
<1>3. CASE ScanBags
  <2>1. PICK scan \in Scanned(Scannable) : Scans(scan)
    BY <1>3, ScanIs
  <2>2. bag'[b].owner \in {bag[b].owner, Owner(b)}
    BY <1>3, <2>1, BagsScanned DEF ScanBags
  <2>3. bag'[b].owner = Owner(b) /\ Owner(b) # bag[b].owner
    BY <2>2
  <2> QED BY <2>3, OwnerIs
<1>4. CASE UpdateIncidents
  <2>1. PICK message \in Messages : Updates(message)
    BY <1>4, UpdateIs
  <2> QED BY <2>1, BagsResolved
<1>5. CASE bag' = bag
  BY <1>5
<1> QED BY <1>1, <1>2, <1>3, <1>4, <1>5, OthersKeep

LEMMA NobodyBeside ==
    ASSUME Invariant, [Next]_vars, NEW b \in BagIds,
           pc = "unattended", bag'[b].unattended, ~bag[b].unattended,
           NEW p \in Visible, PersonOf(p) = bag[b].owner, StandsWith(p, b)
    PROVE  FALSE
<1>1. ScanBags
  <2>1. ~UpdateBags /\ ~FindOwners /\ ~UpdateIncidents
    BY DEF UpdateBags, FindOwners, UpdateIncidents
  <2> QED BY <2>1, OthersKeep
<1>2. PICK scan \in Scanned(Scannable) : Scans(scan)
  BY <1>1, ScanIs
<1>3. b \in Raised(scan)
  BY <1>2, BagsScanned
<1>4. b \in scan.bags /\ ~Attended(b) /\ ~TempOwnerStands(b)
  BY <1>2, <1>3, ScannedAre DEF Raised, Left
<1>5. bag[b].owner # None
  BY <1>4 DEF Attended
<1>6. CASE p \in tempPersons
  <2>1. bag[b].owner = p /\ PersonId(bag[b].owner) = p /\ p \in TempPersons
    BY <1>6, InView, Apart DEF Busy, Invariant, StoreInv, Store, SceneTypes
  <2> QED BY <2>1, <1>4, <1>5 DEF TempOwnerStands, HasTempOwner
<1>7. CASE p \notin tempPersons
  <2>1. PersonId(bag[b].owner) = p /\ p \notin TempPersons
    BY <1>7, InView DEF Busy
  <2>2. Guess(p) = p
    <3>1. DOMAIN idGuesses \subseteq TempPersons
      BY PartialIs DEF Invariant, SceneTypes
    <3> QED BY <2>1, <3>1 DEF Guess
  <2>3. ~HasTempOwner(b)
    BY <2>1 DEF HasTempOwner
  <2> QED BY <2>1, <2>2, <2>3, <1>4, <1>5 DEF Attended
<1> QED BY <1>6, <1>7

LEMMA GunOnce ==
    ASSUME Invariant, [Next]_vars, NEW i \in DOMAIN incident' \ DOMAIN incident,
           NEW j \in managed, NEW p \in PersonIds,
           incident'[i].kind = "GUN", incident[j].kind = "GUN",
           p \in incident'[i].people \cap incident[j].people
    PROVE  p \in Range(persons) /\ PersonId(p) \in Range(wire.personUpdates)
<1>1. ~ScanBags
  <2> SUFFICES ASSUME ScanBags PROVE FALSE
    OBVIOUS
  <2>1. PICK scan \in Scanned(Scannable) : Scans(scan)
    BY ScanIs
  <2>2. pc = "unattended"
    BY DEF ScanBags
  <2>3. /\ DOMAIN incident' = 1..(Len(incident) + fresh') /\ fresh' \in Nat
        /\ \A k \in Len(incident) + 1..Len(incident) + fresh' :
             \E b \in Raised(scan) : incident'[k] = Raise("BAG", b, bag[b].owners)
    BY <2>1, <2>2, IncidentsReported
  <2>4. Len(incident) \in Nat /\ DOMAIN incident = 1..Len(incident)
    BY IncidentsAre
  <2>5. i \in Len(incident) + 1..Len(incident) + fresh'
    BY <2>3, <2>4
  <2>6. PICK b \in Raised(scan) : incident'[i] = Raise("BAG", b, bag[b].owners)
    BY <2>3, <2>5
  <2> QED BY <2>6 DEF Raise
<1>2. SeeGuns /\ pc = "guns" /\ Busy
  BY <1>1, OthersKeep DEF SeeGuns, Busy
<1>3. PICK g \in Gunmen : incident'[i] = Raise("GUN", None, {g})
  BY <1>2, GunsReported
<1>4. p = g
  BY <1>3 DEF Raise
<1>5. PICK q \in wire.guns : ~HasGunIncident(q) /\ p = PersonOf(q)
  BY <1>4 DEF Gunmen, Armed
<1>6. q \in Visible /\ q \in PersonIds
  BY <1>2, FrameIs DEF Invariant, WireInv, Busy, Visible
<1>7. q \notin incidentPersons[j]
  <2>1. j \in Ids
    BY IncidentsAre DEF Ids
  <2>2. j \notin personIncidents[q]
    BY <1>5 DEF HasGunIncident
  <2> QED BY <2>1, <2>2, <1>6 DEF Invariant, MapsAgree
<1>8. PersonId(p) = q /\ (p \in Range(persons) \/ (p = q /\ q \in tempPersons))
  BY <1>2, <1>5, <1>6, InView DEF Range
<1>9. q \notin DOMAIN Renamings /\ (q \in TempPersons => q \in tempPersons)
  <2>1. DOMAIN Renamings \subseteq TempPersons
    BY <1>2, FrameIs DEF Invariant, WireInv, Busy, Renames, Renamings
  <2> QED BY <1>2, <1>6, <2>1, InView
<1>10. New(PersonId(p)) = q
  BY <1>8, <1>9 DEF New
<1>11. PICK id \in incidentPersons[j] : New(id) = q
  BY <1>2, <1>10 DEF Invariant, FiledInv
<1>12. id \in DOMAIN Renamings /\ Renamings[id] = q
  BY <1>7, <1>11 DEF New
<1>13. q \in Range(wire.personUpdates) /\ q \in RealPersons
  BY <1>2, <1>12, FrameIs DEF Invariant, WireInv, Busy, Renames, Renamings, Range
<1>14. p \in Range(persons)
  BY <1>8, <1>13, Apart DEF Invariant, SceneTypes
<1> QED BY <1>8, <1>13, <1>14

\* Bags keep their owners, none is reported while its owner is seen beside it, and nobody
\* with a gun incident gets another but in the frame that gives him his permanent id.
THEOREM OnlyReportedForCause == Spec => ReportedForCause
<1>1. Invariant /\ [Next]_vars =>
        \A b \in BagIds :
          bag[b].owner # None /\ bag'[b].owner # bag[b].owner
              => /\ bag[b].owner \in DOMAIN tempToId
                 /\ bag'[b].owner = persons[tempToId[bag[b].owner]]
  BY OwnerStays
<1>2. Invariant /\ [Next]_vars =>
        \A b \in BagIds :
          pc = "unattended" /\ bag'[b].unattended /\ ~bag[b].unattended
              => ~\E p \in Visible : PersonOf(p) = bag[b].owner /\ StandsWith(p, b)
  BY NobodyBeside
<1>3. Invariant /\ [Next]_vars =>
        \A i \in DOMAIN incident' \ DOMAIN incident :
          \A j \in managed, p \in PersonIds :
             /\ incident'[i].kind = "GUN" /\ incident[j].kind = "GUN"
             /\ p \in incident'[i].people \cap incident[j].people
             => p \in Range(persons) /\ PersonId(p) \in Range(wire.personUpdates)
  BY GunOnce
<1>4. Spec => OwnerForLife
  BY <1>1, SceneInvariant, PTL DEF Spec, OwnerForLife
<1>5. Spec => NotReportedBesideOwner
  BY <1>2, SceneInvariant, PTL DEF Spec, NotReportedBesideOwner
<1>6. Spec => OneGunIncident
  BY <1>3, SceneInvariant, PTL DEF Spec, OneGunIncident
<1> QED BY <1>4, <1>5, <1>6, PTL DEF ReportedForCause
=============================================================================
