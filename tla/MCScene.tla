------------------------------ MODULE MCScene ------------------------------
EXTENDS Scene

CONSTANTS t1, t2, p1, b1, b2, q1, c1, c2

MCTempPersons == {t1, t2}
OnePerson == {p1}
TwoTempBags == {b1, b2}
OneBag == {q1}
OneCam == {c1}

\* At most one person and one bag in a frame; b2 is seen with t2, the other bags
\* with t1, p1, alone or with t2 taken for p1; guns where there is no bag.
MCViews ==
    {f \in [persons : Partial(PersonIds, Cams), bags : Partial(BagIds, Cams),
            personUpdates : Partial(TempPersons, RealPersons),
            bagUpdates : Partial(TempBags, RealBags),
            guesses : Partial({t2}, RealPersons), guns : {{}} \cup {{p} : p \in PersonIds}] :
        /\ DOMAIN f.persons \cup DOMAIN f.bags # {}
        /\ Cardinality(DOMAIN f.persons) <= 1 /\ Cardinality(DOMAIN f.bags) <= 1
        /\ f.bags = <<>> \/ (b2 \in DOMAIN f.bags /\ DOMAIN f.persons = {t2})
             \/ (b2 \notin DOMAIN f.bags /\ (t2 \notin DOMAIN f.persons \/ f.guesses # <<>>))
        /\ f.guesses # <<>> => DOMAIN f.bags = {q1}
        /\ f.bags = <<>> /\ t2 \in DOMAIN f.persons => f.guns # {}
        /\ f.bags # <<>> => f.guns = {}}
=============================================================================
