--------------------------- MODULE RunSupervisor ---------------------------
(***************************************************************************)
(* What a worker's command loop promises to the rest of the system: at     *)
(* most one run executes at a time, one begins only after the last one     *)
(* ended, and the worker claims to be free only when none executes.        *)
(***************************************************************************)
CONSTANTS Runs, NoRun

VARIABLES current,     \* the run executing, or NoRun
          claim   \* the worker's own word for it

supervisorVars == <<current, claim>>

Init == current = NoRun /\ claim = "free"

\* A run begins: the worker withdrew its claim before, or does now.
Begin(r) ==
    /\ current = NoRun
    /\ current' = r
    /\ claim' = "busy"

\* The run ends, on its own, stopped or with its process.
End ==
    /\ current' = NoRun
    /\ UNCHANGED claim

\* The claim may be withdrawn early and made late, never over a run.
Claim ==
    /\ current' = NoRun
    /\ claim' = "free"

Withdraw ==
    /\ claim' = "busy"
    /\ UNCHANGED current

Next == (\E r \in Runs : Begin(r)) \/ End \/ Claim \/ Withdraw

Spec == Init /\ [][Next]_supervisorVars
=============================================================================
