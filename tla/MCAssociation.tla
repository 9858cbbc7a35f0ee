--------------------------- MODULE MCAssociation ---------------------------
(***************************************************************************)
(* The two ends of the association worker: the frames that the organizer   *)
(* joins from three consumers on their way in (FrameSync), and what        *)
(* becomes of an incident on its way out (Incidents).  They have no        *)
(* variable in common and are checked apart, the one staying as it is      *)
(* while the other goes on.                                                *)
(***************************************************************************)
EXTENDS FrameSync

CONSTANTS person, bag, frameInfo, o1, o2,
          Operators, MaxIncidents, MaxUpdates, MaxUnheard, PullLimit   \* of Incidents

\* The three consumers of the association and anomaly workers.
MCKeys == <<person, bag, frameInfo>>
TwoOperators == {o1, o2}

VARIABLES db, step, req, updates, unheard, resolutions, pc, pulled, managed, unattended, raised,
          output, writing, committed, forgone

Life == INSTANCE Incidents WITH lost <- unheard, MaxLost <- MaxUnheard

ASSUME IncidentsAssumption ==
    /\ MaxIncidents \in Nat /\ MaxUpdates \in Nat /\ MaxUnheard \in Nat
    /\ PullLimit \in Nat \ {0}

lifeVars == <<db, step, req, updates, unheard, resolutions, pc, pulled, managed, unattended, raised,
              output, writing, committed, forgone>>
associationVars == <<vars, lifeVars>>

AssociationInit == Init /\ Life!Init
SyncSpec == AssociationInit /\ [][Next /\ UNCHANGED lifeVars]_associationVars /\ Fairness
LifeSpec == AssociationInit /\ [][Life!Next /\ UNCHANGED vars]_associationVars /\ Life!Fairness

-----------------------------------------------------------------------------
(* The incident, its row and what the operators are told; see Incidents. *)
NeverAhead == Life!NeverAhead
ConfirmedStays == Life!ConfirmedStays
ResolutionLands == Life!ResolutionLands
TransitionsAllowed == Life!TransitionsAllowed
=============================================================================
