----------------------------- MODULE MCSettings -----------------------------
(***************************************************************************)
(* What an operator sets while the system works: the input sources with    *)
(* their uploads and models (Sources), and the rules and connectors of the *)
(* alerts (Alerts).  They meet in the save of the sources, of which Alerts *)
(* has what it does to the rules, and Sources each of its steps: a         *)
(* behaviour is one of the one or of the other.                            *)
(***************************************************************************)
EXTENDS Alerts, TLC

CONSTANTS r1, r2, messenger, old, here, m1, m2,
          Models, Builtin, Offered, OthersBound, Entries,   \* of Sources
          MaxRows, MaxUploads, MaxDisturbances

TwoRequests == {r1, r2}
OneKind == {messenger}
TwoSources == {1, 2}
Endpoint(kind, s) == [kind |-> kind, enabled |-> TRUE, config |-> [secret |-> s, address |-> here]]
Saved(e) == [kind |-> e.kind, enabled |-> e.enabled, config |-> e.config, live |-> TRUE]
\* Two endpoints, and a rule that has chosen the first.
MCOldEndpoints == <<Saved(Endpoint(messenger, old)), Saved(Endpoint(messenger, None))>>
MCOldRules == <<[trigger |-> "alert", template |-> 1, ids |-> {1, 2}, targets |-> {1},
                 enabled |-> TRUE, live |-> TRUE]>>
MCRuleEntries ==
    {[trigger |-> "alert", ids |-> {1}, targets |-> {2}, enabled |-> TRUE],
     [trigger |-> "event", ids |-> {1}, targets |-> {}, enabled |-> TRUE]}
\* One that is disabled and shows no secret.
MCEndpointEntries == {[Endpoint(messenger, None) EXCEPT !.enabled = FALSE]}

TwoModels == {m1, m2}
OneOffered == {m2}
\* A video bound to a model of its own, and a camera that follows the default.
MCEntries == {[upload |-> 1, enabled |-> TRUE, model |-> m2],
              [upload |-> None, enabled |-> FALSE, model |-> None]}
MCSymmetry == Permutations(TwoRequests)

VARIABLES part, inputs, uploads, files, default, mounted, running, asked,
          disturbances, disturbed, mended

Src == INSTANCE Sources WITH sources <- inputs, req <- asked, healed <- mended

ASSUME SourcesAssumption ==
    /\ Builtin \in Models /\ None \notin Models /\ Offered \subseteq Models
    /\ OthersBound \in BOOLEAN
    /\ MaxRows \in Nat /\ MaxUploads \in Nat /\ MaxDisturbances \in Nat
    /\ Entries \subseteq Src!Content

sourcesVars == <<inputs, uploads, files, default, mounted, running, asked,
                 disturbances, disturbed, mended>>
settingsVars == <<part, vars, sourcesVars>>

AlertsPart == part = "alerts" /\ Next /\ UNCHANGED <<part, sourcesVars>>
SourcesPart == part = "sources" /\ Src!Next /\ UNCHANGED <<part, vars>>
SettingsInit == part \in {"alerts", "sources"} /\ Init /\ Src!Init
SettingsSpec == SettingsInit /\ [][AlertsPart \/ SourcesPart]_settingsVars

-----------------------------------------------------------------------------
(* The saves of the sources, and what else changes them; see Sources. *)
SavesHeal == Src!SavesHeal
NewcomersSurvive == Src!NewcomersSurvive
=============================================================================
