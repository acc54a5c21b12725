------------------------------ MODULE NudgeQueue ------------------------------
(***************************************************************************)
(* The persisted job list of nudge (queue.rs, job.rs) and the pure         *)
(* decisions the scheduler takes over it (scheduler.rs).                   *)
(*                                                                         *)
(* A queue is the record that queue.json holds: the last id handed out and *)
(* the live jobs.  The program keeps the jobs in a Vec that only ever      *)
(* grows at its end with the largest id so far and is thinned with         *)
(* `retain`, so its order is the order of the ids: a set of jobs with      *)
(* distinct ids loses nothing.                                             *)
(*                                                                         *)
(* Of a job's fields, those that only reach the terminal or the log (the   *)
(* messages, the delay between them, notify, the pane) are left out.       *)
(* `snap` says whether the job carries a complete --verify snapshot.       *)
(* Times are ticks of one clock.                                           *)
(***************************************************************************)
EXTENDS Integers

CONSTANTS
  Grace,      \* how long past its time a job may still fire (lib.rs: 6 hours)
  MaxPoll,    \* the longest the scheduler sleeps (scheduler.rs: 30 s)
  MinRetry,   \* the least delay before a retry (daemon.rs: 1 s)
  Horizon     \* the last instant the time library can represent

ASSUME QueueConstants ==
  /\ Grace \in Nat /\ MaxPoll \in Nat /\ MinRetry \in Nat /\ Horizon \in Nat

(***************************************************************************)
(* What a client asks for, and the job the queue makes of it.              *)
(***************************************************************************)
JobSpec == [fire_at      : Nat,
            verify       : BOOLEAN,
            snap         : BOOLEAN,
            auto_retry   : BOOLEAN,
            retries_left : Int,
            settle       : Nat]

Job == [id           : Nat,
        fire_at      : Nat,
        verify       : BOOLEAN,
        snap         : BOOLEAN,
        auto_retry   : BOOLEAN,
        retries_left : Int,
        settle       : Nat]

into_job(spec, id) ==
  [id           |-> id,
   fire_at      |-> spec.fire_at,
   verify       |-> spec.verify,
   snap         |-> spec.snap,
   auto_retry   |-> spec.auto_retry,
   retries_left |-> spec.retries_left,
   settle       |-> spec.settle]

-----------------------------------------------------------------------------
(***************************************************************************)
(* Queue operations.  Each yields the candidate state that `commit` then   *)
(* persists and adopts; a miss yields the queue unchanged and is not saved.*)
(***************************************************************************)
Queue == [next_id : Nat, jobs : SUBSET Job]

EmptyQueue == [next_id |-> 0, jobs |-> {}]

IdsIn(jobs) == {j.id : j \in jobs}

Without(jobs, id) == {j \in jobs : j.id # id}

\* A plausible slip: the next id is taken from the live jobs, as a queue that
\* keeps no counter would do.
BugLiveIdAdd(q, spec) ==
  LET top == IF q.jobs = {} THEN 0
             ELSE CHOOSE i \in IdsIn(q.jobs) : \A k \in IdsIn(q.jobs) : k <= i
  IN [next_id |-> top + 1, jobs |-> q.jobs \cup {into_job(spec, top + 1)}]

add(q, spec) ==
  [next_id |-> q.next_id + 1,
   jobs    |-> q.jobs \cup {into_job(spec, q.next_id + 1)}]

remove(q, id) == [q EXCEPT !.jobs = Without(@, id)]

replace(q, id, spec) ==
  [next_id |-> q.next_id + 1,
   jobs    |-> Without(q.jobs, id) \cup {into_job(spec, q.next_id + 1)}]

\* A plausible slip: the --verify snapshot survives a retry.
BugKeepSnapshot(q, id, at, left) ==
  [q EXCEPT !.jobs =
     {IF j.id = id THEN [j EXCEPT !.fire_at = at, !.retries_left = left] ELSE j
        : j \in @}]

\* The snapshot goes with the retry: it showed the pane before nudge typed.
reschedule(q, id, at, left) ==
  [q EXCEPT !.jobs =
     {IF j.id = id
        THEN [j EXCEPT !.fire_at = at, !.retries_left = left, !.snap = FALSE]
        ELSE j : j \in @}]

-----------------------------------------------------------------------------
(***************************************************************************)
(* Scheduler decisions.                                                    *)
(***************************************************************************)
IsDue(j, now) == j.fire_at <= now

IsStale(j, now) == IsDue(j, now) /\ j.fire_at < now - Grace

PlanFire(jobs, now) == {j \in jobs : IsDue(j, now) /\ ~IsStale(j, now)}

\* A plausible slip: a stale job is not fired, and nothing drops it either.
BugForgetStale(jobs, now) == {}

PlanDrop(jobs, now) == {j.id : j \in {k \in jobs : IsStale(k, now)}}

\* What run_injection can come to.
Outcomes == {"Sent", "SkippedNoBanner", "SkippedResumed", "Unsubmitted",
             "ServerRestarted", "Err"}

Retries(j, outcome) ==
  outcome \in {"Sent", "Err"} /\ j.auto_retry /\ j.retries_left # 0

\* A plausible slip: the budget is never spent.
BugNoDecrement(j) == j.retries_left

LeftAfter(j) ==
  IF j.retries_left > 0 THEN j.retries_left - 1 ELSE j.retries_left

\* A plausible slip: a time past the end of the calendar lands on its far side.
BugWrongEnd(j, now) ==
  LET delay == IF j.settle > MinRetry THEN j.settle ELSE MinRetry
  IN IF now + delay <= Horizon THEN now + delay ELSE -Horizon

\* A time past the end of the calendar falls back to the pass's own time.
RetryAt(j, now) ==
  LET delay == IF j.settle > MinRetry THEN j.settle ELSE MinRetry
  IN IF now + delay <= Horizon THEN now + delay ELSE now

\* A plausible slip: the sleep is chosen for the last job instead of the first.
BugLatestWake(d, jobs, now) ==
  /\ d <= MaxPoll
  /\ d = MaxPoll \/ \A j \in jobs : now + d >= j.fire_at

\* The time to the earliest job, no less than nothing and no more than MaxPoll.
IsNextWake(d, jobs, now) ==
  /\ d <= MaxPoll
  /\ \A j \in jobs : d = 0 \/ now + d <= j.fire_at
  /\ d = MaxPoll \/ \E j \in jobs : now + d >= j.fire_at
=============================================================================
