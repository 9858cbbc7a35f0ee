----------------------------- MODULE Onboarding -----------------------------
(***************************************************************************)
(* `hearthlight onboard` (hearthlight/onboarding.py): a list of steps that *)
(* put a workspace together out of a checkout, a virtual environment, the  *)
(* files .env, config.yaml and mounted_models.yaml, a database and a row   *)
(* of it.  Every step may fail and ends the run there; nothing is undone,  *)
(* and the remedy is to run it again, with other options perhaps, over     *)
(* what the last run left and what was edited since.                       *)
(*                                                                         *)
(* One token stands for the notification settings, one model ("remote")    *)
(* for those that need a credential.  An option is chosen at the step that *)
(* looks at it.                                                            *)
(***************************************************************************)
EXTENDS Integers

CONSTANTS Tokens,             \* what may be entered for the notifications; not 0
          MaxRuns, MaxEdits   \* bounds: runs, and edits between them

VARIABLES disk,       \* the workspace and its database, but for
          dotenv,     \* the file .env
          step,       \* the step to come, or "idle"
          run,        \* what was asked of this run
          result,     \* of the last run; "edited" once something was changed after it
          rewritten,  \* whether .env was replaced or edited since models were mounted
          runs, edits

onboardVars == <<disk, dotenv, step, run, result, rewritten, runs, edits>>

\* A checkout or some other directory; an interpreter, perhaps without pip; whether the
\* requirements are in it; the devices in config.yaml; mounted_models.yaml; the
\* password of the database; the row of the endpoint: its token, 0, or -1 when there are
\* no tables; whether the workspace is the default one.
Nothing(there) ==
    [workspace |-> there, venv |-> "none", installed |-> FALSE, config |-> "none",
     mounted |-> {"plain"}, volume |-> "none", row |-> -1, default |-> FALSE]
NoFile == [there |-> FALSE, token |-> 0, credential |-> FALSE, password |-> "none", device |-> "none"]
Example == [NoFile EXCEPT !.there = TRUE, !.password = "root"]

\* The optional steps that are done, the token that is entered, the models that are
\* selected, if any, and the device that is found.
NoChoice == {"no choice"}
NewRun == [asked |-> {}, token |-> 0, models |-> NoChoice, device |-> "none"]

Init ==
    /\ disk \in {Nothing("none"), Nothing("other")} /\ dotenv = NoFile
    /\ step = "idle" /\ run = NewRun /\ result = "none"
    /\ rewritten = FALSE /\ runs = 0 /\ edits = 0

-----------------------------------------------------------------------------
\* run_onboarding, from one step to another; or an exception, which ends it.
GoOn(from, to) == step = from /\ step' = to /\ UNCHANGED <<result, runs, edits>>
Fails(from) ==
    /\ step = from /\ step' = "idle" /\ result' = "failed"
    /\ UNCHANGED <<dotenv, run, rewritten, runs, edits>>
Asked(what) == [run EXCEPT !.asked = @ \cup {what}]

Begin ==
    /\ step = "idle" /\ runs < MaxRuns
    /\ runs' = runs + 1 /\ step' = "clone" /\ run' = NewRun /\ result' = "none"
    /\ UNCHANGED <<disk, dotenv, rewritten, edits>>

\* ensure_workspace_clone: git removes what it could not clone.
Clone ==
    \/ /\ GoOn("clone", "venv") /\ disk.workspace # "other"
       /\ disk' = [disk EXCEPT !.workspace = "checkout"]
       /\ UNCHANGED <<dotenv, run, rewritten>>
    \/ disk.workspace # "checkout" /\ Fails("clone") /\ UNCHANGED disk

\* ensure_virtualenv: an interpreter that is there is taken for an environment.
Virtualenv ==
    \/ /\ GoOn("venv", "env")
       /\ disk' = [disk EXCEPT !.venv = IF @ = "none" THEN "whole" ELSE @]
       /\ UNCHANGED <<dotenv, run, rewritten>>
    \/ /\ disk.venv = "none" /\ Fails("venv")
       /\ \E left \in {"none", "half"} : disk' = [disk EXCEPT !.venv = left]

\* copy_example_env; only --force-env replaces a file.
CopyEnv ==
    /\ GoOn("env", "defaults")
    /\ \E force \in BOOLEAN :
           /\ dotenv' = IF dotenv.there /\ ~force THEN dotenv ELSE Example
           /\ rewritten' = (rewritten \/ (dotenv.there /\ force))
    /\ UNCHANGED <<disk, run>>

\* write_notification_env_defaults: what was configured before is overwritten.
NotificationDefaults ==
    /\ GoOn("defaults", "notifications")
    /\ dotenv' = [dotenv EXCEPT !.token = 0]
    /\ UNCHANGED <<disk, run, rewritten>>

\* configure_notification_env_interactively, unless it is skipped or nobody is asked.
Notifications ==
    /\ GoOn("notifications", "models")
    /\ \E token \in Tokens \cup {0} :
           /\ dotenv' = [dotenv EXCEPT !.token = token]
           /\ run' = [run EXCEPT !.token = token]
    /\ UNCHANGED <<disk, rewritten>>

\* (slip: nobody is asked for a credential, and a model that misses it is let through)
ModelsUnchecked ==
    \/ /\ GoOn("models", "config")
       /\ \E models \in {NoChoice, {"plain"}, {"remote"}} : run' = [run EXCEPT !.models = models]
       /\ UNCHANGED <<disk, dotenv, rewritten>>
    \/ Fails("models") /\ UNCHANGED disk

\* resolve_selected_mounted_models; configure_selected_third_party_model_env.  The
\* credential is on the command line, in the environment, entered now, or in .env.
Models ==
    \/ /\ GoOn("models", "config")
       /\ \E models \in {NoChoice, {"plain"}, {"remote"}}, given \in BOOLEAN :
              /\ "remote" \in models => given \/ dotenv.credential
              /\ run' = [run EXCEPT !.models = models]
              /\ dotenv' = [dotenv EXCEPT !.credential = @ \/ (given /\ "remote" \in models)]
       /\ UNCHANGED <<disk, rewritten>>
    \/ Fails("models") /\ UNCHANGED disk

\* copy_example_config: over a file by --force-config-copy only; or skipped.
CopyConfig ==
    /\ GoOn("config", "requirements")
    /\ disk' \in {disk, [disk EXCEPT !.config = "example"]}
    /\ UNCHANGED <<dotenv, run, rewritten>>

\* install_python_requirements, which needs pip; or skipped.
Requirements ==
    \/ /\ GoOn("requirements", "mount")
       /\ \/ UNCHANGED <<disk, run>>
          \/ /\ disk.venv = "whole"
             /\ disk' = [disk EXCEPT !.installed = TRUE] /\ run' = Asked("requirements")
       /\ UNCHANGED <<dotenv, rewritten>>
    \/ Fails("requirements") /\ UNCHANGED disk

\* persist_workspace_mounted_models.
Mount ==
    /\ GoOn("mount", "detect")
    /\ IF run.models = NoChoice THEN UNCHANGED <<disk, rewritten>>
       ELSE disk' = [disk EXCEPT !.mounted = run.models] /\ rewritten' = FALSE
    /\ UNCHANGED <<dotenv, run>>

\* detect_runtime_profile_recommendation, apply_runtime_profile_defaults; or skipped.
Detect ==
    \/ GoOn("detect", "infra") /\ UNCHANGED <<disk, dotenv, run, rewritten>>
    \/ /\ GoOn("detect", "profile")
       /\ \E device \in {"cpu", "cuda"} :
              /\ run' = [Asked("detection") EXCEPT !.device = device]
              /\ disk' = [disk EXCEPT !.config = IF @ = "none" THEN @ ELSE device]
       /\ UNCHANGED <<dotenv, rewritten>>

\* write_runtime_profile_env_defaults: the account of the database is set as well.
Profile ==
    \/ /\ GoOn("profile", "infra")
       /\ dotenv' = [dotenv EXCEPT !.device = run.device, !.password = "root"]
       /\ UNCHANGED <<disk, run, rewritten>>
    \/ Fails("profile") /\ UNCHANGED disk

\* start_docker_infra; or skipped.  A volume keeps the password it was made with.
Started == [disk EXCEPT !.volume = IF @ = "none" THEN dotenv.password ELSE @]
Infra ==
    \/ GoOn("infra", "save") /\ UNCHANGED <<disk, dotenv, run, rewritten>>
    \/ GoOn("infra", "reset") /\ disk' = Started /\ run' = Asked("infra") /\ UNCHANGED <<dotenv, rewritten>>
    \/ Fails("infra") /\ UNCHANGED disk

\* run_workspace_reset_db: the workspace's own program starts a container that drops the
\* tables and makes them again.
ResetDb ==
    \/ /\ GoOn("reset", "seed") /\ disk.installed /\ disk.volume = dotenv.password
       /\ disk' = [disk EXCEPT !.row = 0]
       /\ UNCHANGED <<dotenv, run, rewritten>>
    \/ Fails("reset") /\ disk' \in {disk, [disk EXCEPT !.row = -1]}

\* sync_notification_subscriptions_from_env, by what the file says now.
Seed ==
    \/ /\ GoOn("seed", "save")
       /\ disk' = [disk EXCEPT !.row = IF dotenv.token # 0 THEN dotenv.token ELSE @]
       /\ UNCHANGED <<dotenv, run, rewritten>>
    \/ Fails("seed") /\ UNCHANGED disk

\* save_default_workspace.
SaveDefault ==
    \/ /\ step = "save" /\ step' = "idle" /\ result' = "done"
       /\ disk' = [disk EXCEPT !.default = TRUE]
       /\ UNCHANGED <<dotenv, run, rewritten, runs, edits>>
    \/ Fails("save") /\ UNCHANGED disk

\* Between runs .env is edited by hand, or the stack is started.
Edit ==
    /\ step = "idle" /\ dotenv.there /\ edits < MaxEdits
    /\ edits' = edits + 1 /\ result' = "edited"
    /\ \/ /\ \E token \in Tokens \cup {0}, credential \in BOOLEAN, password \in {"root", "own"} :
                 dotenv' = [dotenv EXCEPT !.token = token, !.credential = credential,
                                          !.password = password]
          /\ rewritten' = TRUE /\ UNCHANGED disk
       \/ disk' = Started /\ UNCHANGED <<dotenv, rewritten>>
    /\ UNCHANGED <<step, run, runs>>

Next ==
    \/ Begin \/ Clone \/ Virtualenv \/ CopyEnv \/ NotificationDefaults \/ Notifications \/ Models
    \/ CopyConfig \/ Requirements \/ Mount \/ Detect \/ Profile \/ Infra \/ ResetDb \/ Seed
    \/ SaveDefault \/ Edit
Spec == Init /\ [][Next]_onboardVars

-----------------------------------------------------------------------------
\* Whatever earlier runs left behind and wherever they failed: after a run that
\* succeeds all it was asked for is there, and its parts agree: the database with the
\* password and the token of the file, the file's device with that of the configuration.
Complete ==
    step = "idle" /\ result = "done" =>
        /\ disk.workspace = "checkout" /\ disk.venv # "none" /\ dotenv.there /\ disk.default
        /\ dotenv.token = run.token
        /\ run.models # NoChoice => disk.mounted = run.models
        /\ "requirements" \in run.asked => disk.installed
        /\ "detection" \in run.asked =>
               dotenv.device = run.device /\ disk.config \in {"none", run.device}
        /\ "infra" \in run.asked =>
               disk.installed /\ disk.volume = dotenv.password /\ disk.row = run.token

\* A model that is mounted has its credential, also between the steps of a run and
\* after one that failed, unless the file was replaced or edited since.
CredentialsThere == "remote" \in disk.mounted /\ ~rewritten => dotenv.credential

\* Onboarding may be run again until it succeeds.
Onboarded == Complete /\ CredentialsThere
=============================================================================
