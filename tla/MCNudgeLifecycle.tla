---------------------------- MODULE MCNudgeLifecycle ----------------------------
(* Values for the instance of NudgeLifecycle that TLC checks. *)
EXTENDS NudgeLifecycle

\* The registered binary was built before the one the command runs.
Builds == [w \in {"c1", "unit"} |-> IF w = "unit" THEN "old" ELSE "new"]
=============================================================================
