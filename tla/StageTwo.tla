------------------------------ MODULE StageTwo ------------------------------
(***************************************************************************)
(* What stage 2 makes of a candidate (anomaly/adapters.py): an adapter     *)
(* that judges by rules, or one that asks a provider, which may be         *)
(* switched off, not configured, out of reach or answer anything.          *)
(*                                                                         *)
(* Adapters are "rules" (PromptRules, SmolVLM), "pass" (PassThrough,       *)
(* VLMAnomalyDemo), "compatible" (ClaudeCompatible, which may reject a     *)
(* candidate), "openai" (OpenAI-compatible and Lauretta) and "claude".     *)
(* Scores are in hundredths; a category is one of the prompt's lists or is *)
(* not.  Titles and reasoning are left out.                                *)
(***************************************************************************)
EXTENDS Integers

CONSTANTS RetryCount,     \* retry_count
          MaxCandidates,  \* bound: candidates
          MaxChanges      \* bound: changes of the settings

VARIABLES adapter, fallback,  \* the adapter, and its fallback_on_failure
          stored,   \* the provider's settings
          cached,   \* those the "compatible" adapter keeps for half a minute
          off,      \* whether it has been switched off for longer than that
          pc,       \* the thread: "idle", "ask" or "dead"
          using,    \* the settings it asks with
          failed,   \* requests that gave nothing to judge by
          answer,   \* what the last request brought
          event,    \* what came of the last candidate
          candidates, changes

judgeVars == <<adapter, fallback, stored, cached, off, pc, using, failed, answer, event,
               candidates, changes>>

\* "broken" settings cannot be read, those "unset" have no address or no secret, and a
\* "local" address has a second name that is tried as well.
Settings == {"broken", "off", "unset", "local", "remote"}

\* Requests fail; or bring JSON that is no object, an object without a result, a text
\* that is no JSON or no object, or a result.
Nothing(kind) == [kind |-> kind, promote |-> "unsaid", score |-> -1, category |-> "unsaid"]
Failures == {Nothing(kind) : kind \in {"refused", "other", "empty", "text", "textOther"}}
Results == [kind : {"result"}, promote : {"yes", "no", "unsaid"}, score : {-1, 30, 80, 850},
            category : {"unsaid", "listed", "unlisted", "activity listed"}]
NoEvent == [by |-> "nobody", category |-> "unsaid", score |-> 0]
CandidateScore == 70

Init ==
    /\ adapter \in {"rules", "pass", "compatible", "openai", "claude"}
    /\ fallback \in (IF adapter = "compatible" THEN BOOLEAN ELSE {TRUE})
    /\ stored \in Settings /\ cached = "none" /\ off = FALSE
    /\ pc = "idle" /\ using = "none" /\ failed = 0 /\ answer = Nothing("unasked") /\ event = NoEvent
    /\ candidates = 0 /\ changes = 0

\* The settings are saved by an operator; half a minute passes.
Change ==
    /\ changes < MaxChanges /\ changes' = changes + 1
    /\ stored' \in Settings \ {stored}
    /\ off' = FALSE
    /\ UNCHANGED <<adapter, fallback, cached, pc, using, failed, answer, event, candidates>>

HalfAMinute ==
    /\ pc # "ask"
    /\ cached' = "none"
    /\ off' = (stored \in {"off", "unset"})
    /\ UNCHANGED <<adapter, fallback, stored, pc, using, failed, answer, event, candidates, changes>>

-----------------------------------------------------------------------------
\* PromptRulesStageTwoAdapter: the category is a listed one if something in the
\* candidate matches; PassThrough keeps that of the candidate.
ByRules(matches) ==
    [by |-> "candidate", category |-> IF matches THEN "listed" ELSE "unlisted",
     score |-> CandidateScore]

\* _normalize_score, and _score of the Claude-compatible answers.
Least(a, b) == IF a < b THEN a ELSE b
Normalized(score) ==
    IF score < 0 THEN CandidateScore ELSE IF score > 100 THEN Least(score \div 10, 100) ELSE score
Clipped(score) == IF score < 0 THEN 0 ELSE Least(score, 100)

\* _normalize_event.
ByProvider(result, matches) ==
    [by |-> "provider",
     category |-> CASE result.category = "unsaid" -> ByRules(matches).category
                    [] result.category = "activity listed" -> "listed"
                    [] OTHER -> result.category,
     score |-> Normalized(result.score)]

\* parse_claude_anomaly_response: without a word on it, a score decides.
Promoted(result) ==
    result.promote = "yes" \/ (result.promote = "unsaid" /\ Clipped(result.score) > 50)
ByCompatible(result) ==
    [by |-> "provider",
     category |-> IF result.category = "listed" THEN "listed" ELSE "unlisted",
     score |-> Clipped(result.score)]

\* Nothing to judge by: the "compatible" adapter drops the candidate unless it is
\* configured to let it pass, the others take what the rules say.
Unjudged(matches) ==
    IF adapter # "compatible" THEN ByRules(matches)
    ELSE IF fallback THEN ByRules(FALSE) ELSE NoEvent

\* A candidate comes; build_event.  Only the "compatible" adapter minds whether the
\* provider is switched on.
Loaded == IF adapter = "compatible" /\ cached # "none" THEN cached ELSE stored
Unusable(settings) ==
    settings \in {"broken", "unset"} \/ (settings = "off" /\ adapter = "compatible")

Begin ==
    /\ pc = "idle" /\ candidates < MaxCandidates
    /\ candidates' = candidates + 1
    /\ failed' = 0 /\ answer' = Nothing("unasked")
    /\ using' = IF adapter \in {"rules", "pass"} THEN "none" ELSE Loaded
    /\ cached' = IF adapter = "compatible" /\ Loaded # "broken" THEN Loaded ELSE cached
    /\ IF using' = "none" \/ Unusable(using')
       THEN /\ \E matches \in BOOLEAN :
                   event' = CASE adapter = "rules" -> ByRules(matches)
                              [] adapter = "pass" -> ByRules(FALSE)
                              [] OTHER -> Unjudged(matches)
            /\ UNCHANGED pc
       ELSE event' = NoEvent /\ pc' = "ask"
    /\ UNCHANGED <<adapter, fallback, stored, off, changes>>

-----------------------------------------------------------------------------
\* send_claude_anomaly_request: so many attempts at each address.
Attempts == (RetryCount + 1) * IF using = "local" THEN 2 ELSE 1

\* An answer of the "compatible" provider that holds no result counts as a failure.
AskCompatible ==
    /\ pc = "ask" /\ adapter = "compatible"
    /\ \/ /\ answer' \in Failures
          /\ failed' = failed + 1
          /\ IF failed' < Attempts THEN UNCHANGED <<pc, event>>
             ELSE event' = Unjudged(FALSE) /\ pc' = "idle"
       \/ /\ answer' \in Results
          /\ event' = IF Promoted(answer') THEN ByCompatible(answer') ELSE NoEvent
          /\ pc' = "idle"
          /\ UNCHANGED failed
    /\ UNCHANGED <<adapter, fallback, stored, cached, off, using, candidates, changes>>

\* A text that is no JSON is nothing to "claude".
Unread(a) == a.kind = "refused" \/ (a.kind = "text" /\ adapter = "claude")

\* The others ask once.  An object without a result is one that leaves all to the
\* rules; of a text that is no JSON "openai" takes the text for the reasoning and
\* "claude" takes the rules; what is no object at all is an AttributeError nobody
\* catches, and ends the thread.
AskOnce ==
    /\ pc = "ask" /\ adapter \in {"openai", "claude"}
    /\ answer' \in Failures \cup Results
    /\ failed' = IF answer' \in Failures THEN 1 ELSE 0
    /\ IF answer'.kind \in {"other", "textOther"}
       THEN pc' = "dead" /\ UNCHANGED event
       ELSE /\ pc' = "idle"
            /\ \E matches \in BOOLEAN :
                   event' = IF Unread(answer') THEN Unjudged(matches)
                            ELSE ByProvider(answer', matches)
    /\ UNCHANGED <<adapter, fallback, stored, cached, off, using, candidates, changes>>

-----------------------------------------------------------------------------
Next == Change \/ HalfAMinute \/ Begin \/ AskCompatible \/ AskOnce
Spec == Init /\ [][Next]_judgeVars

-----------------------------------------------------------------------------
\* What became of a candidate.  It is rejected by a provider that says so and by nothing
\* else, unless the adapter is configured to drop what it cannot have judged; a provider
\* is named for an event only if it answered; and only an answer that is no object ends
\* the thread.
Judged ==
    /\ event.score \in 0 .. 100
    /\ event.by = "provider" => answer.kind # "refused" /\ answer.kind # "unasked"
    /\ pc = "dead" => adapter # "compatible" /\ answer.kind \in {"other", "textOther"}
    /\ pc = "idle" /\ candidates > 0 =>
         /\ adapter # "compatible" => event # NoEvent
         /\ adapter = "compatible" =>
              /\ answer.promote = "no" => event = NoEvent
              /\ answer.promote = "yes" => event.by = "provider"
              /\ answer.promote \notin {"no", "yes"} /\ answer.kind # "result" =>
                    (event # NoEvent) = fallback

\* No candidate is given up before every address was tried as often as it may be.
TriedEverything ==
    pc = "idle" /\ adapter = "compatible" /\ answer \in Failures =>
        failed = (RetryCount + 1) * (IF using = "local" THEN 2 ELSE 1)

\* Candidates are judged whatever the provider does; and one that has been switched off
\* for longer than its settings are kept is not asked.  (The adapters but the
\* "compatible" one do not look at the switch.)
CandidatesJudged ==
    /\ [](Judged /\ TriedEverything)
    /\ [][adapter = "compatible" /\ off => pc' = pc]_judgeVars
=============================================================================
