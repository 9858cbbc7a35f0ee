------------------------------ MODULE Providers ------------------------------
(***************************************************************************)
(* The settings of the services that judge anomaly candidates: the table   *)
(* stage2_provider_setting, the older workspace setting of the             *)
(* Claude-compatible one, the environment, and the two pages that write    *)
(* them.                                                                   *)
(*                                                                         *)
(* A secret is a number, 0 when there is none; pages show it masked.  Base *)
(* URL, model and timeout go the way of enabled; no provider is one that   *)
(* needs no secret; the encryption key is there and does not change.  What *)
(* a test found is left out, not what recording it writes.                 *)
(***************************************************************************)
EXTENDS Naturals

CONSTANTS Providers,          \* those the provider page lists
          Claude,             \* the Claude-compatible one
          Operators,          \* who open the pages
          MaxSecrets,         \* bound: secrets entered
          MaxOpens            \* bound: pages opened

VARIABLES env,      \* the secret of each provider in the environment
          rows,     \* the table
          legacy,   \* the older setting of the Claude-compatible provider
          page,     \* of each operator: the page he sees, and the request under way
          entered,  \* secrets entered
          opened    \* pages opened

providerVars == <<env, rows, legacy, page, entered, opened>>

All == Providers \cup {Claude}
EnvSecret == MaxSecrets + 1
Masked == MaxSecrets + 2
OldSecret == MaxSecrets + 3
None == [there |-> FALSE, enabled |-> FALSE, secret |-> 0]
Closed == [at |-> "closed", name |-> "", form |-> [p \in All |-> None],
           kept |-> [p \in All |-> None], legacy |-> None, alone |-> TRUE]

\* The older setting is one of a release without the table, or there is none yet.
Init ==
    /\ env \in [All -> {0, EnvSecret}]
    /\ rows = [p \in All |-> None]
    /\ legacy \in {None} \cup
           {[there |-> TRUE, enabled |-> e, secret |-> s] :
               e \in BOOLEAN, s \in {0, OldSecret}}
    /\ page = [o \in Operators |-> Closed]
    /\ entered = 0 /\ opened = 0

-----------------------------------------------------------------------------
\* get_effective_stage2_provider_settings: the row, even one without a secret, then
\* for the Claude-compatible provider the older setting, then the environment.
Effective(p) ==
    IF rows[p].there THEN rows[p]
    ELSE IF p = Claude /\ legacy.there THEN legacy
    ELSE [None EXCEPT !.secret = env[p]]

\* What a save takes for the secret that is there.  Where it finds none, and does not
\* look into the environment for the Claude-compatible provider, a masked secret is
\* saved as it came: the mask is the secret then.
Existing(o, p) ==
    LET row == page[o].kept[p]  old == page[o].legacy
        known == IF row.there THEN row.secret ELSE IF p = Claude THEN old.secret ELSE env[p]
    IN  IF known = 0 /\ ~(p = Claude /\ ~row.there /\ old.there) THEN Masked ELSE known

Mask(s) == IF s.secret = 0 THEN s ELSE [s EXCEPT !.secret = Masked]

\* read_claude_anomaly_model_settings falls back on the older setting's secret.
ShownByLegacy ==
    LET s == Effective(Claude)
    IN  Mask([s EXCEPT !.secret = IF s.secret = 0 THEN legacy.secret ELSE @])

Shown(name, p) == IF name = "claude" THEN ShownByLegacy ELSE Mask(Effective(p))
Listed(name) == IF name = "claude" THEN {Claude} ELSE Providers

Open(o) ==
    /\ page[o].at = "closed" /\ opened < MaxOpens /\ opened' = opened + 1
    /\ \E name \in {"providers", "claude"} :
           page' = [page EXCEPT ![o] = [Closed EXCEPT
               !.at = "form", !.name = name,
               !.form = [p \in All |-> IF p \in Listed(name) THEN Shown(name, p) ELSE None]]]
    /\ UNCHANGED <<env, rows, legacy, entered>>

\* The operator switches one provider, and leaves its secret, clears it or enters one.
Edit(o) ==
    /\ page[o].at = "form"
    /\ \E p \in Listed(page[o].name), enabled \in BOOLEAN :
       \E secret \in {page[o].form[p].secret, 0} \cup (entered + 1 .. MaxSecrets) :
           /\ secret \in {page[o].form[p].secret, 0, entered + 1}
           /\ entered' = IF secret = entered + 1 THEN secret ELSE entered
           /\ page' = [page EXCEPT ![o].at = "edited", ![o].form[p].enabled = enabled,
                                   ![o].form[p].secret = secret]
    /\ UNCHANGED <<env, rows, legacy, opened>>

-----------------------------------------------------------------------------
\* (slip: a masked secret is no secret)
MergeSecretEmpty(shown, existing) == IF shown = Masked THEN 0 ELSE shown

\* _merge_secret_value; the older page cannot clear a secret.
MergeSecret(shown, existing) == IF shown = Masked THEN existing ELSE shown
MergeLegacySecret(shown, existing) == IF shown \in {0, Masked} THEN existing ELSE shown

Merged(o, p) ==
    [page[o].form[p] EXCEPT
        !.there = TRUE,
        !.secret = IF page[o].name = "claude" THEN MergeLegacySecret(@, page[o].legacy.secret)
                                              ELSE MergeSecret(@, Existing(o, p))]

\* A save reads what is there, ...
Save(o) ==
    /\ page[o].at = "edited"
    /\ page' = [page EXCEPT ![o].at = "commit", ![o].kept = rows, ![o].legacy = legacy,
                            ![o].alone = TRUE]
    /\ UNCHANGED <<env, rows, legacy, entered, opened>>

\* ... and refuses an enabled provider without its secret.  Its commit is refused when
\* another has entered a row in between (unique key), and when a row that is there is
\* to be left without a secret: None is written to a column that is NOT NULL.
Refused(o) ==
    \E p \in Listed(page[o].name) :
        LET new == Merged(o, p)
        IN  \/ new.enabled /\ new.secret = 0
            \/ IF page[o].kept[p].there THEN new.secret = 0 ELSE rows[p].there

\* The secret is always written, for it is encrypted anew; the rest when it is not what
\* was read, which it may be for the outcome of a test that the page shows.
Written(o, p, whole) ==
    LET new == Merged(o, p)  old == page[o].kept[p]
    IN  IF old.there /\ old.enabled = new.enabled /\ ~whole
        THEN [rows[p] EXCEPT !.secret = new.secret] ELSE new

Commit(o) ==
    /\ page[o].at = "commit"
    /\ IF Refused(o)
       THEN /\ page' = [page EXCEPT ![o] = Closed]
            /\ UNCHANGED <<rows, legacy>>
       ELSE /\ \E whole \in SUBSET Listed(page[o].name) :
                   rows' = [p \in All |->
                               IF p \in Listed(page[o].name) THEN Written(o, p, p \in whole)
                                                             ELSE rows[p]]
            /\ legacy' = IF page[o].name = "claude" THEN Merged(o, Claude) ELSE legacy
            /\ page' = [q \in Operators |->
                            IF q = o THEN Closed
                            ELSE [page[q] EXCEPT !.alone = page[q].at \notin {"commit", "test"}]]
    /\ UNCHANGED <<env, entered, opened>>

\* record_stage2_provider_test_status puts the outcome of a test into the config_json it
\* has read, and writes that whole; the secret is in a column of its own.
Tested(read, row) == [read EXCEPT !.secret = row.secret]

\* A test asks the provider with what is on the page.  With the answer it reads the row, ...
Test(o) ==
    /\ page[o].at = "edited" /\ page[o].name = "providers"
    /\ \E p \in {q \in Providers : rows[q].there} :
           page' = [page EXCEPT ![o].at = "test", ![o].alone = TRUE,
                       ![o].kept = [q \in All |-> IF q = p THEN rows[p] ELSE None]]
    /\ UNCHANGED <<env, rows, legacy, entered, opened>>

\* ... and commits what it makes of that, whatever the row holds by then.
Record(o) ==
    /\ page[o].at = "test"
    /\ rows' = [p \in All |-> IF page[o].kept[p].there THEN Tested(page[o].kept[p], rows[p])
                                                       ELSE rows[p]]
    /\ page' = [q \in Operators |->
                    IF q = o THEN [page[o] EXCEPT !.at = "edited", !.alone = TRUE, !.kept = Closed.kept]
                    ELSE [page[q] EXCEPT !.alone = @ /\ page[q].at # "test"]]
    /\ UNCHANGED <<env, legacy, entered, opened>>

Next ==
    \E o \in Operators : Open(o) \/ Edit(o) \/ Save(o) \/ Commit(o) \/ Test(o) \/ Record(o)
Spec == Init /\ [][Next]_providerVars

-----------------------------------------------------------------------------
\* A commit is to keep the secret of p that was left masked on the page, when no other
\* save was committed since it read and the secret is where the page looks for it: it
\* finds one, the Claude-compatible one in the row, not in the environment, and the
\* older page in the older setting as well.
Keeps(o, p) ==
    /\ page[o].form[p].secret = Masked /\ page[o].alone /\ Existing(o, p) # Masked
    /\ p = Claude => rows[p].there
    /\ page[o].name = "claude" => legacy.secret = rows[p].secret

\* A secret is not lost, replaced or revived by the way: the secret of a provider changes
\* by a commit only that lists it and is not to keep it, never by a test.  What else is
\* effective changes by a commit; a test changes it only when another save or test was
\* committed between its read and its write, which it then undoes.
SecretKept ==
    [][\A p \in DOMAIN rows :
          /\ Effective(p)'.enabled # Effective(p).enabled =>
                 \E o \in DOMAIN page :
                     \/ page[o].at = "commit" /\ page'[o] = Closed
                     \/ page[o].at = "test" /\ page'[o].at = "edited" /\ ~page[o].alone
          /\ Effective(p)'.secret # Effective(p).secret =>
                 \E o \in DOMAIN page :
                     /\ page[o].at = "commit" /\ page'[o] = Closed
                     /\ p \in Listed(page[o].name)
                     /\ ~Keeps(o, p)]_providerVars
=============================================================================
