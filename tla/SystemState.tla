---------------------------- MODULE SystemState ----------------------------
(***************************************************************************)
(* The status vocabulary of the workers and of the control plane, and the  *)
(* pure functions of shared/utils/system_state.py that map one onto the    *)
(* other.  A status derivation is the pair <<system status, reset>>, where *)
(* reset asks the caller to forget the run it was tracking.                *)
(***************************************************************************)

ModuleStatuses == {"idle", "initialized", "running", "error", "stopped", "exit"}
SystemStatuses == {"idle", "initializing", "running", "stopping", "error"}

\* Only three module statuses matter to the control plane.
NormalizeModuleStatus(raw) ==
    IF raw \in {"running", "error", "idle"} THEN raw ELSE "idle"

DeriveSystemStatus(current, rawStatuses) ==
    LET statuses == {NormalizeModuleStatus(s) : s \in rawStatuses}
        allIdle  == statuses \subseteq {"idle"}
        healthy  == "error" \notin statuses
    IN  CASE ~healthy                                       -> <<"error", FALSE>>
          [] healthy /\ current \in {"error", "initializing"} -> <<"running", FALSE>>
          [] healthy /\ current \in {"stopping", "running"} /\ allIdle
                                                            -> <<"idle", TRUE>>
          [] healthy /\ current = "idle" /\ "running" \in statuses
                                                            -> <<"running", FALSE>>
          [] OTHER                                          -> <<current, FALSE>>
=============================================================================
