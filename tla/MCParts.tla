------------------------------- MODULE MCParts -------------------------------
(***************************************************************************)
(* The parts of the system that are small and touch no other: each is a    *)
(* module of its own, and one run checks them all.  A behaviour is one of  *)
(* one part; the variables of the others stay as they are.                 *)
(***************************************************************************)
EXTENDS Capture, SequencesExt

CONSTANTS s1, s2,
          Tokens, MaxRuns, MaxEdits,                                  \* of Onboarding
          LogWriters, RetainMax, PruneInterval, PageSize, MaxLogs, MaxStarts,  \* of ModelLogs
          PerFrame, MaxSearches, MaxOnTheWay, MaxPoiFaults,           \* of PoiSearch
          Plugins, Shipped, WithZoo, Lookers, Installers, MaxPluginFaults,  \* of Catalog
          Providers, Claude, Operators, MaxSecrets, MaxOpens,         \* of Providers
          Cameras, SourceOf, FrameInterval, EvalInterval,
          QuietPeriod, Cooldown, MinTracks, MaxTime,                  \* of Anomaly
          RetryCount, MaxCandidates, MaxChanges                       \* of StageTwo

ASSUME PartsAssumption ==
    /\ {RetainMax, PageSize, MaxLogs, MaxStarts, PerFrame, MaxSecrets} \subseteq Nat
    /\ PruneInterval \in Nat \ {0}
ASSUME AnomalyAssumption ==
    /\ {FrameInterval, EvalInterval, QuietPeriod, Cooldown, MinTracks, MaxTime} \subseteq Nat
    /\ {RetryCount, MaxCandidates, MaxChanges} \subseteq Nat

MCSources == <<s1, s2>>
\* Two cameras share a source template, the third has one of its own.
SharedSource == <<0, 0, 1>>

VARIABLES part,
          track_time, last_eval, state, behind,
          last_log, live, doing, created, writes, stale, starts, log_page, total, shown, there, shifted,
          disk, cache, rows, syncing, recent, req, faults,
          env, providers, legacy, page, entered, opened,
          adapter, fallback, stored, cached, off, judge_pc, using, failed, answer, event, candidates,
          changes,
          doc, built,
          workspace, dotenv, step, run, result, rewritten, runs, edits,
          next, searches, request, wire, reid, queries, found, owed, dropped, poi_faults

Gate == INSTANCE Anomaly

Logs == INSTANCE ModelLogs WITH last <- last_log, page <- log_page

Plug == INSTANCE Catalog WITH MaxFaults <- MaxPluginFaults

Stage2 == INSTANCE Providers WITH rows <- providers

Judge == INSTANCE StageTwo WITH pc <- judge_pc

\* A preset of the section "input", one scalar of an outer section and one of an inner.
Text == INSTANCE ConfigText WITH
    Outer <- {"input", "tracking", "output"}, Inner <- {"visualize"},
    Keys <- {"device", "source"}, MaxLines <- 5,
    Preset <- << [indent |-> 0, name |-> "input", value |-> "section"],
                 [indent |-> 1, name |-> "source", value |-> "preset"] >>,
    Selected <- << << <<"tracking">>, "device" >>, << <<"output", "visualize">>, "device" >> >>

Onboard == INSTANCE Onboarding WITH disk <- workspace

Poi == INSTANCE PoiSearch WITH
    MaxFaults <- MaxPoiFaults, rows <- searches, faults <- poi_faults

captureVars == vars
gateVars == <<track_time, last_eval, state, behind>>
logVars == <<last_log, live, doing, created, writes, stale, starts, log_page, total, shown, there, shifted>>
plugVars == <<disk, cache, rows, syncing, recent, req, faults>>
stage2Vars == <<env, providers, legacy, page, entered, opened>>
judgeVars == <<adapter, fallback, stored, cached, off, judge_pc, using, failed, answer, event,
               candidates, changes>>
textVars == <<doc, built>>
onboardVars == <<workspace, dotenv, step, run, result, rewritten, runs, edits>>
poiVars == <<next, searches, request, wire, reid, queries, found, owed, dropped, poi_faults>>
partsVars == <<part, captureVars, gateVars, logVars, plugVars, stage2Vars, judgeVars,
               textVars, onboardVars, poiVars>>

\* The parts that begin in one of several states do so only when it is their turn;
\* all services have a secret in the environment, or none has.
PartsInit ==
    /\ part \in {"capture", "gate", "logs", "plugins", "stage2",
                "judge", "text", "onboard", "poi"}
    /\ Init /\ Gate!Init /\ Logs!Init /\ Plug!Init /\ Stage2!Init
    /\ Judge!Init /\ Text!Init /\ Onboard!Init /\ Poi!Init
    /\ part # "judge" => adapter = "rules" /\ stored = "off"
    /\ part # "capture" => \A s \in SourceSet : kind[s] = "file" /\ connected[s]
    /\ part # "stage2" => legacy = Stage2!None /\ \A p \in DOMAIN env : env[p] = 0
    /\ \A p, q \in DOMAIN env : env[p] = env[q]
    /\ part # "onboard" => workspace.workspace = "none"

\* The variables of all parts but p.
OthersStay(p) ==
    /\ UNCHANGED part
    /\ p = "capture" \/ UNCHANGED captureVars
    /\ p = "gate" \/ UNCHANGED gateVars
    /\ p = "logs" \/ UNCHANGED logVars
    /\ p = "plugins" \/ UNCHANGED plugVars
    /\ p = "stage2" \/ UNCHANGED stage2Vars
    /\ p = "judge" \/ UNCHANGED judgeVars
    /\ p = "text" \/ UNCHANGED textVars
    /\ p = "onboard" \/ UNCHANGED onboardVars
    /\ p = "poi" \/ UNCHANGED poiVars

CaptureStep == part = "capture" /\ Next /\ OthersStay("capture")
GateStep == part = "gate" /\ Gate!Next /\ OthersStay("gate")
LogStep == part = "logs" /\ Logs!Next /\ OthersStay("logs")
PlugStep == part = "plugins" /\ Plug!Next /\ OthersStay("plugins")
Stage2Step == part = "stage2" /\ Stage2!Next /\ OthersStay("stage2")
JudgeStep == part = "judge" /\ Judge!Next /\ OthersStay("judge")
TextStep == part = "text" /\ Text!Next /\ OthersStay("text")
OnboardStep == part = "onboard" /\ Onboard!Next /\ OthersStay("onboard")
PoiStep == part = "poi" /\ Poi!Next /\ OthersStay("poi")

PartsNext ==
    \/ CaptureStep \/ GateStep \/ LogStep \/ PlugStep \/ Stage2Step \/ JudgeStep
    \/ TextStep \/ OnboardStep \/ PoiStep
PartsSpec == PartsInit /\ [][PartsNext]_partsVars

-----------------------------------------------------------------------------
(* anomaly/adapters.py: the first stage's candidates of a source keep their distance, *)
(* the second stage judges each as its settings say; see Anomaly and StageTwo.        *)
CandidatesHandled == Gate!CandidatesApart /\ Judge!CandidatesJudged

(* build_model_result_log_page and the pruning of the logs; see ModelLogs. *)
LogsComplete == Logs!LogsComplete

(* sync_plugin_catalog_to_db beside an installation; see Catalog. *)
SyncHeals == Plug!SyncHeals

(* stage2_provider_settings.py, with the older Claude page; see Providers. *)
SecretKept == Stage2!SecretKept

(* build_effective_config of run/launcher.py; see ConfigText. *)
EditsAreLocal == Text!EditsAreLocal

(* `hearthlight onboard`, run again over what earlier runs left; see Onboarding. *)
Onboarded == Onboard!Onboarded

(* /register_poi and reid/poi.py; see PoiSearch. *)
SearchesAnswered == Poi!SearchesAnswered
=============================================================================
