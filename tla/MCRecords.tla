----------------------------- MODULE MCRecords -----------------------------
(* One person under two temporary ids, the second only seen with the first.  *)
EXTENDS Records

CONSTANTS t1, t2, p1, c1

TwoTemps == {t1, t2}
OnePerson == {p1}
OneCam == {c1}
Nobody == {}

MCViews ==
    {f \in [persons : Partial(PersonIds, Cams), bags : {<<>>},
            personUpdates : Partial(TempPersons, RealPersons),
            bagUpdates : {<<>>}, guesses : {<<>>}, guns : {{}}] :
        DOMAIN f.persons \in {{t1}, {t1, t2}, {p1}}}
=============================================================================
