----------------------------- MODULE NudgeOptions -----------------------------
(***************************************************************************)
(* How a job's options are put together: the precedence of flags over      *)
(* defaults (config.rs, cli.rs), the job a new `schedule` asks for and the *)
(* job an `--edit` asks for (app.rs).  Pure operators, shared by the CLI   *)
(* side of the daemon model.                                               *)
(*                                                                         *)
(* An absent Option is the value Unset.  notify is left out: it reaches no *)
(* decision of these functions and is carried as verify is.                *)
(***************************************************************************)
EXTENDS NudgeQueue

CONSTANT Unset   \* Option::None

ASSUME UnsetIsNoValue == Unset \notin Int \cup BOOLEAN /\ Unset \notin JobSpec

Or(option, default) == IF option = Unset THEN default ELSE option

Toggles == [verify : BOOLEAN, auto_retry : BOOLEAN, retries : Int, settle : Nat]

\* The flags that decide options, and the time asked for, read.
Cli == [time : Nat \cup {Unset}, verify : BOOLEAN, no_verify : BOOLEAN,
        auto_retry : BOOLEAN, no_auto_retry : BOOLEAN, retries : Int \cup {Unset}]

Overrides == [verify     : BOOLEAN \cup {Unset},
              auto_retry : BOOLEAN \cup {Unset},
              retries    : Int \cup {Unset}]

\* --no-x beats -x; neither is no override.
tri(on, off) == IF off THEN FALSE ELSE IF on THEN TRUE ELSE Unset

flag_overrides(cli) ==
  [verify     |-> tri(cli.verify, cli.no_verify),
   auto_retry |-> tri(cli.auto_retry, cli.no_auto_retry),
   retries    |-> cli.retries]

\* The defaults, given which NUDGE_* switches are on.
env_toggles(on, default_retries, settle) ==
  [verify |-> "verify" \in on, auto_retry |-> "auto_retry" \in on,
   retries |-> default_retries, settle |-> settle]

\* A retry count turns auto-retry on, unless a flag says otherwise.
resolve(base, over) ==
  [verify     |-> Or(over.verify, base.verify),
   auto_retry |-> Or(over.auto_retry,
                     IF over.retries # Unset THEN TRUE ELSE base.auto_retry),
   retries    |-> Or(over.retries, base.retries),
   settle     |-> base.settle]

resolve_options(env, cli) == resolve(env, flag_overrides(cli))

\* A snapshot is taken only under --verify, and may not be had.
snapshot(opts, captured) == opts.verify /\ captured

build_spec(opts, at, captured) ==
  [fire_at      |-> at,
   verify       |-> opts.verify,
   snap         |-> snapshot(opts, captured),
   auto_retry   |-> opts.auto_retry,
   retries_left |-> IF opts.auto_retry THEN opts.retries ELSE 0,
   settle       |-> opts.settle]

\* An edit starts from the job, not from the defaults; a job with nothing left
\* to retry is given the default budget as its base.
EditBase(job, default_retries) ==
  [verify     |-> job.verify,
   auto_retry |-> job.auto_retry,
   retries    |-> IF job.retries_left = 0 THEN default_retries ELSE job.retries_left,
   settle     |-> job.settle]

merge_edit(job, cli, default_retries, captured) ==
  build_spec(resolve(EditBase(job, default_retries), flag_overrides(cli)),
             Or(cli.time, job.fire_at), captured)
=============================================================================
