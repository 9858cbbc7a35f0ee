------------------------------ MODULE ReidIds ------------------------------
(***************************************************************************)
(* The identities reid/main.py gives to tracks, and the message of a frame *)
(* it sends on.  A track starts under a temporary id and is reported under *)
(* its real id from the frame on in which the strategy (external) resolves *)
(* it; that frame's message, and no other, carries the id update.          *)
(***************************************************************************)
EXTENDS Naturals, FiniteSets, SequencesExt

CONSTANTS TempPersons, RealPersons,   \* temporary (negative) and real person ids
          TempBags, RealBags,         \* the same of bags
          Cams,
          NoFrame,                    \* no message
          Views,                      \* the frames considered
          MaxFrames                   \* bound: frames

Temps == TempPersons \cup TempBags
PersonIds == TempPersons \cup RealPersons
BagIds == TempBags \cup RealBags
Partial(D, R) == UNION {[S -> R] : S \in SUBSET D}

\* What a dictionary holds when more entries are written into it.
Override(new, old) ==
    [x \in DOMAIN new \cup DOMAIN old |-> IF x \in DOMAIN new THEN new[x] ELSE old[x]]

Frame == [persons : Partial(PersonIds, Cams), bags : Partial(BagIds, Cams),
          personUpdates : Partial(TempPersons, RealPersons),
          bagUpdates : Partial(TempBags, RealBags),
          guesses : Partial(TempPersons, RealPersons),
          guns : SUBSET PersonIds]   \* persons a detected gun overlaps

ASSUME ReidAssumption ==
    /\ Views \subseteq Frame /\ NoFrame \notin Frame /\ MaxFrames \in Nat
    /\ \A f \in Views :   \* a frame has finitely many tracks
           IsFiniteSet(DOMAIN f.persons \cup DOMAIN f.bags
                         \cup DOMAIN f.personUpdates \cup DOMAIN f.bagUpdates)

VARIABLES frames,    \* their number so far
          seen,      \* temporary ids reported so far
          resolved,  \* those that were resolved, and to what
          wire       \* the frame on its way to association, or being handled

reidVars == <<frames, seen, resolved, wire>>

ReidInit == frames = 0 /\ seen = {} /\ resolved = <<>> /\ wire = NoFrame

\* Tracks of one frame: unresolved temporary ids, and real ids something was
\* resolved to; what is resolved in this frame is seen under its real id.
Consistent(f) ==
    LET updates == Override(f.personUpdates, f.bagUpdates)
        tracks == DOMAIN f.persons \cup DOMAIN f.bags
    IN  /\ DOMAIN updates \subseteq seen \ DOMAIN resolved
        /\ tracks \cap (DOMAIN resolved \cup DOMAIN updates) = {}
        /\ Range(updates) \subseteq tracks
        /\ tracks \cap (RealPersons \cup RealBags)
             \subseteq Range(resolved) \cup Range(updates)
        /\ DOMAIN f.guesses \subseteq DOMAIN f.persons
        /\ Range(f.guesses) \subseteq Range(resolved)
        /\ f.guns \subseteq DOMAIN f.persons

\* ReID.run for one frame, through the output threads to the broker.
Identify(f) ==
    /\ wire = NoFrame /\ frames < MaxFrames
    /\ Consistent(f)
    /\ frames' = frames + 1
    /\ wire' = f
    /\ seen' = seen \cup ((DOMAIN f.persons \cup DOMAIN f.bags) \cap Temps)
    /\ resolved' = Override(Override(f.personUpdates, f.bagUpdates), resolved)
=============================================================================
