---------------------------- MODULE MCNudgeDaemon ----------------------------
(***************************************************************************)
(* Instances of NudgeDaemon for TLC.                                       *)
(***************************************************************************)
EXTENDS NudgeDaemon

\* No NUDGE_* switch is on, and no flag is given.
Env     == env_toggles({}, DefaultRetries, 0)
NoFlags == [time |-> Unset, verify |-> FALSE, no_verify |-> FALSE,
            auto_retry |-> FALSE, no_auto_retry |-> FALSE, retries |-> Unset]

Plain    == NoFlags
Retried  == [NoFlags EXCEPT !.retries = 1]
Verified == [NoFlags EXCEPT !.retries = 1, !.verify = TRUE]

spec(cli, at) == build_spec(resolve_options(Env, cli), at, TRUE)

\* A plain job, and a verified one with one retry.
TwoSpecs == {spec(Plain, 1), spec(Verified, 1)}

\* One retried job, and a plain one due before its retry is.
OneRetry == {spec(Retried, 0), spec(Plain, 1)}

OneSpec == {spec(Verified, 1)}
KeepAll == {NoFlags}

\* Later, and retried, with the default budget if the job has none left.
PutOff  == {[NoFlags EXCEPT !.time = 3, !.auto_retry = TRUE]}
=============================================================================
