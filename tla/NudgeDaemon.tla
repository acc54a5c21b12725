----------------------------- MODULE NudgeDaemon -----------------------------
(***************************************************************************)
(* nudge's resident daemon: the queue in memory and on disk, the scheduler *)
(* loop of daemon.rs, the request handler of ipc/mod.rs, the clients that  *)
(* talk to it, and the clock.                                              *)
(*                                                                         *)
(* The queue's mutex is held for one atomic step at a time: a request, the *)
(* planning, the dropping of stale jobs, the application of one outcome,   *)
(* the choice of the sleep.  An injection runs outside it, on a clone of   *)
(* the job, so requests may be handled between any two scheduler steps.    *)
(*                                                                         *)
(* Saving is one step: queue.json is written beside and renamed into place *)
(* (queue.rs, save), so a crash finds the old list or the new one.  A save *)
(* may fail, and the daemon may die in any state.                          *)
(***************************************************************************)
EXTENDS NudgeOptions, FiniteSets

CONSTANTS
  Clients,         \* processes that may send requests (CLI runs, a dashboard)
  Specs,           \* the jobs a client may schedule
  Edits,           \* the flags an edit may carry
  DefaultRetries,  \* NUDGE_RETRIES, or 2
  MinSleep,        \* the floor of the scheduler's sleep (50 ms)
  MaxId,           \* bound: ids handed out
  MaxTime,         \* bound: the clock
  MaxFaults        \* bound: crashes and failed saves

ASSUME DaemonConstants ==
  /\ Specs \subseteq JobSpec
  /\ Edits \subseteq Cli
  /\ DefaultRetries \in Int
  /\ MinSleep \in Nat \ {0}
  /\ MaxId \in Nat /\ MaxTime \in Nat /\ MaxFaults \in Nat

VARIABLES
  \* The program.
  now,       \* the wall clock
  disk,      \* queue.json
  mem,       \* the daemon's copy, behind the mutex
  pc,        \* where the scheduler loop stands; "down" when no daemon runs
  pass,      \* the time this pass read as it began, 0 between passes
  toDrop,    \* ids the plan found stale
  toFire,    \* clones of the jobs the plan found due, not yet injected
  cur,       \* the clone being injected
  outcome,   \* what its injection came to
  wakeAt,    \* when the sleep ends
  cpc,       \* each client's place in its exchange
  req,       \* the request each client has on its connection
  rep,       \* the reply each client was sent
  \* History, read by the properties only.
  issued,    \* the spec each id was made from, once it was
  tries,     \* injections begun for each id
  late,      \* those begun after a client's request took the job away
  lastTry,   \* when the last of them began
  endedBy,   \* the request that took each job away
  acked,     \* ids a client has been told are scheduled
  faults     \* crashes and failed saves so far

queueVars == <<disk, mem, faults>>
loopVars  == <<pc, pass, toDrop, toFire, cur, outcome, wakeAt>>
ipcVars   == <<cpc, req, rep>>
tryVars   == <<tries, late, lastTry>>
lifeVars  == <<issued, endedBy>>
vars == <<now, queueVars, loopVars, ipcVars, tryVars, lifeVars, acked>>

Ids == 1 .. MaxId

Pcs == {"down", "begin", "plan", "drop", "fire", "apply", "sleep"}
Cpcs == {"idle", "waiting", "abandoned", "answered"}

NoSpec == [fire_at |-> 0, verify |-> FALSE, snap |-> FALSE,
           auto_retry |-> FALSE, retries_left |-> 0, settle |-> 0]
NoJob == into_job(NoSpec, 0)

Request == [op : {"List"}]
      \cup [op : {"Schedule"}, spec : JobSpec]
      \cup [op : {"Cancel"}, id : Nat]
      \cup [op : {"Replace"}, id : Nat, spec : JobSpec]

\* id 0 stands for Replaced(None): ids start at 1.
Response == [op : {"Error"}]
       \cup [op : {"Jobs"}, jobs : SUBSET Job]
       \cup [op : {"Scheduled", "Replaced"}, id : Nat]
       \cup [op : {"Cancelled"}, removed : BOOLEAN]

\* Fillers, while a connection carries neither.
NoRequest == [op |-> "List"]
NoResponse == [op |-> "Error"]

TypeOK ==
  /\ now \in Nat
  /\ disk \in Queue /\ mem \in Queue
  /\ pc \in Pcs
  /\ pass \in Nat /\ wakeAt \in Nat
  /\ toDrop \subseteq Nat
  /\ toFire \subseteq Job
  /\ cur \in Job
  /\ outcome \in Outcomes
  /\ cpc \in [Clients -> Cpcs]
  /\ req \in [Clients -> Request]
  /\ rep \in [Clients -> Response]
  /\ issued \in [Ids -> JobSpec \cup {Unset}]
  /\ tries \in [Ids -> Nat] /\ late \in [Ids -> Nat] /\ lastTry \in [Ids -> Nat]
  /\ endedBy \in [Ids -> {"none", "cancel", "replace"}]
  /\ acked \subseteq Ids
  /\ faults \in Nat

Init ==
  /\ now = 0
  /\ disk = EmptyQueue /\ mem = EmptyQueue
  /\ pc = "down"
  /\ pass = 0 /\ wakeAt = 0
  /\ toDrop = {} /\ toFire = {} /\ cur = NoJob /\ outcome = "Sent"
  /\ cpc = [c \in Clients |-> "idle"]
  /\ req = [c \in Clients |-> NoRequest]
  /\ rep = [c \in Clients |-> NoResponse]
  /\ issued = [i \in Ids |-> Unset]
  /\ tries = [i \in Ids |-> 0] /\ late = [i \in Ids |-> 0] /\ lastTry = [i \in Ids |-> 0]
  /\ endedBy = [i \in Ids |-> "none"]
  /\ acked = {}
  /\ faults = 0

Up == pc # "down"
Live == IdsIn(disk.jobs)

-----------------------------------------------------------------------------
(***************************************************************************)
(* commit: persist the candidate, and only then adopt it.                  *)
(***************************************************************************)

\* A plausible slip: adopt first, persist second.
BugAdoptFirst(next) ==
  /\ faults < MaxFaults
  /\ mem' = next
  /\ faults' = faults + 1
  /\ UNCHANGED disk

\* A plausible slip: a candidate is adopted and left for a later save to write.
BugLazySave(next) ==
  /\ mem' = next
  /\ UNCHANGED <<disk, faults>>

Saved(next) ==
  /\ disk' = next
  /\ mem' = next
  /\ UNCHANGED faults

SaveFailed(next) ==
  /\ faults < MaxFaults
  /\ faults' = faults + 1
  /\ UNCHANGED <<disk, mem>>

-----------------------------------------------------------------------------
(***************************************************************************)
(* Clients.  A client sends one request and waits for the reply; it may    *)
(* give up first (the 5 s timeout, a Ctrl-C), and the request it leaves    *)
(* behind is handled all the same.  An edit is a List, then a Replace      *)
(* built from the copy of the job that List returned.                      *)
(***************************************************************************)
SendRequest(c, r) ==
  /\ cpc[c] = "idle"
  /\ Up
  /\ cpc' = [cpc EXCEPT ![c] = "waiting"]
  /\ req' = [req EXCEPT ![c] = r]
  /\ UNCHANGED <<now, queueVars, loopVars, rep, tryVars, lifeVars, acked>>

\* Bound: no request is sent that could need an id past MaxId.
IdsLeft ==
  mem.next_id + Cardinality({c \in Clients : req[c].op \in {"Schedule", "Replace"}}) < MaxId

Schedule(c) ==
  IdsLeft /\ \E s \in Specs : SendRequest(c, [op |-> "Schedule", spec |-> s])
Cancel(c)   == \E i \in Ids : SendRequest(c, [op |-> "Cancel", id |-> i])
List(c)     == SendRequest(c, [op |-> "List"])

GiveUp(c) ==
  /\ cpc[c] = "waiting"
  /\ cpc' = [cpc EXCEPT ![c] = "abandoned"]
  /\ UNCHANGED <<now, queueVars, loopVars, req, rep, tryVars, lifeVars, acked>>

Receive(c) ==
  /\ cpc[c] = "answered"
  /\ cpc' = [cpc EXCEPT ![c] = "idle"]
  /\ acked' = IF rep[c].op \in {"Scheduled", "Replaced"}
                THEN acked \cup ({rep[c].id} \cap Ids) ELSE acked
  /\ rep' = [rep EXCEPT ![c] = NoResponse]
  /\ UNCHANGED <<now, queueVars, loopVars, req, tryVars, lifeVars>>

Edit(c) ==
  /\ cpc[c] = "answered"
  /\ rep[c].op = "Jobs"
  /\ Up /\ IdsLeft
  /\ \E j \in rep[c].jobs, cli \in Edits, captured \in BOOLEAN :
       req' = [req EXCEPT ![c] =
                 [op |-> "Replace", id |-> j.id,
                  spec |-> merge_edit(j, cli, DefaultRetries, captured)]]
  /\ cpc' = [cpc EXCEPT ![c] = "waiting"]
  /\ rep' = [rep EXCEPT ![c] = NoResponse]
  /\ UNCHANGED <<now, queueVars, loopVars, tryVars, lifeVars, acked>>

-----------------------------------------------------------------------------
(***************************************************************************)
(* handle_request, under the lock, and the reply written after it.         *)
(***************************************************************************)
Serving(c, op) == Up /\ cpc[c] \in {"waiting", "abandoned"} /\ req[c].op = op

Answer(c, r) ==
  /\ cpc' = [cpc EXCEPT ![c] = IF @ = "waiting" THEN "answered" ELSE "idle"]
  /\ rep' = [rep EXCEPT ![c] = IF cpc[c] = "waiting" THEN r ELSE NoResponse]
  /\ req' = [req EXCEPT ![c] = NoRequest]
  /\ UNCHANGED <<now, loopVars, tryVars, acked>>

HandleSchedule(c) ==
  LET next == add(mem, req[c].spec) IN
  /\ Serving(c, "Schedule")
  /\ mem.next_id < MaxId
  /\ \/ /\ Saved(next)
        /\ issued' = [issued EXCEPT ![next.next_id] = req[c].spec]
        /\ Answer(c, [op |-> "Scheduled", id |-> next.next_id])
     \/ /\ SaveFailed(next)
        /\ UNCHANGED issued
        /\ Answer(c, [op |-> "Error"])
  /\ UNCHANGED endedBy

HandleList(c) ==
  /\ Serving(c, "List")
  /\ Answer(c, [op |-> "Jobs", jobs |-> mem.jobs])
  /\ UNCHANGED <<queueVars, lifeVars>>

HandleCancel(c) ==
  LET id == req[c].id IN
  /\ Serving(c, "Cancel")
  /\ \/ /\ id \notin IdsIn(mem.jobs)
        /\ Answer(c, [op |-> "Cancelled", removed |-> FALSE])
        /\ UNCHANGED <<queueVars, endedBy>>
     \/ /\ id \in IdsIn(mem.jobs)
        /\ Saved(remove(mem, id))
        /\ endedBy' = [endedBy EXCEPT ![id] = "cancel"]
        /\ Answer(c, [op |-> "Cancelled", removed |-> TRUE])
     \/ /\ id \in IdsIn(mem.jobs)
        /\ SaveFailed(remove(mem, id))
        /\ Answer(c, [op |-> "Error"])
        /\ UNCHANGED endedBy
  /\ UNCHANGED issued

HandleReplace(c) ==
  LET id == req[c].id
      next == replace(mem, id, req[c].spec) IN
  /\ Serving(c, "Replace")
  /\ \/ /\ id \notin IdsIn(mem.jobs)
        /\ Answer(c, [op |-> "Replaced", id |-> 0])
        /\ UNCHANGED <<queueVars, lifeVars>>
     \/ /\ id \in IdsIn(mem.jobs)
        /\ mem.next_id < MaxId
        /\ Saved(next)
        /\ issued' = [issued EXCEPT ![next.next_id] = req[c].spec]
        /\ endedBy' = [endedBy EXCEPT ![id] = "replace"]
        /\ Answer(c, [op |-> "Replaced", id |-> next.next_id])
     \/ /\ id \in IdsIn(mem.jobs)
        /\ SaveFailed(next)
        /\ Answer(c, [op |-> "Error"])
        /\ UNCHANGED lifeVars

-----------------------------------------------------------------------------
(***************************************************************************)
(* The scheduler loop.                                                     *)
(***************************************************************************)
\* The clock is read once, before the lock is taken.
BeginPass ==
  /\ pc = "begin"
  /\ pass' = now
  /\ pc' = "plan"
  /\ UNCHANGED <<now, queueVars, toDrop, toFire, cur, outcome, wakeAt, ipcVars, tryVars,
                 lifeVars, acked>>

Plan ==
  /\ pc = "plan"
  /\ toFire' = PlanFire(mem.jobs, pass)
  /\ toDrop' = PlanDrop(mem.jobs, pass)
  /\ pc' = IF toDrop' = {} THEN "fire" ELSE "drop"
  /\ UNCHANGED <<now, queueVars, pass, cur, outcome, wakeAt, ipcVars, tryVars, lifeVars, acked>>

\* Each id is removed by a commit of its own; those whose save fails stay.
DropStale ==
  /\ pc = "drop"
  /\ \E failed \in SUBSET (toDrop \cap IdsIn(mem.jobs)) :
       LET next == [mem EXCEPT !.jobs =
                      {j \in @ : j.id \notin toDrop \/ j.id \in failed}] IN
       /\ failed # {} => faults < MaxFaults
       /\ faults' = IF failed = {} THEN faults ELSE faults + 1
       /\ disk' = next
       /\ mem' = next
  /\ toDrop' = {}
  /\ pc' = "fire"
  /\ UNCHANGED <<now, pass, toFire, cur, outcome, wakeAt, ipcVars, tryVars, lifeVars, acked>>

\* What the injection of job j may come to: the gates only run under --verify,
\* and the pane can only be called resumed against a snapshot.
CanComeTo(j, o) ==
  /\ o = "SkippedNoBanner" => j.verify
  /\ o = "SkippedResumed"  => j.verify /\ j.snap

Inject ==
  /\ pc = "fire"
  /\ \E j \in toFire, o \in Outcomes :
       /\ \A k \in toFire : j.id <= k.id
       /\ CanComeTo(j, o)
       /\ cur' = j
       /\ outcome' = o
       /\ toFire' = toFire \ {j}
       /\ tries' = [tries EXCEPT ![j.id] = @ + 1]
       /\ late' = [late EXCEPT ![j.id] = @ + (IF endedBy[j.id] = "none" THEN 0 ELSE 1)]
       /\ lastTry' = [lastTry EXCEPT ![j.id] = now]
  /\ pc' = "apply"
  /\ UNCHANGED <<now, queueVars, pass, toDrop, wakeAt, ipcVars, lifeVars, acked>>

\* A plausible slip: the outcome writes the clone back, live or not.
BugResurrect(j, o) ==
  [mem EXCEPT !.jobs = Without(@, j.id) \cup
     (IF Retries(j, o)
        THEN {[j EXCEPT !.fire_at = RetryAt(j, pass), !.retries_left = LeftAfter(j),
                        !.snap = FALSE]}
        ELSE {})]

\* apply_outcome's candidate: a retry is rescheduled, anything else is removed.
Applied(j, o) ==
  IF Retries(j, o) THEN reschedule(mem, j.id, RetryAt(j, pass), LeftAfter(j))
  ELSE remove(mem, j.id)

\* A failed save is only logged: the job stays as it was, still due.
ApplyOutcome ==
  LET next == Applied(cur, outcome) IN
  /\ pc = "apply"
  /\ pc' = "fire"
  /\ cur' = NoJob /\ outcome' = "Sent"
  /\ \/ Saved(next)
     \/ next # mem /\ SaveFailed(next)
  /\ UNCHANGED <<now, pass, toDrop, toFire, wakeAt, ipcVars, tryVars, lifeVars, acked>>

\* The sleep is chosen against the time the pass began, and starts now.
GoToSleep ==
  /\ pc = "fire" /\ toFire = {}
  /\ \E d \in 0 .. MaxPoll :
       /\ IsNextWake(d, mem.jobs, pass)
       /\ wakeAt' = now + (IF d > MinSleep THEN d ELSE MinSleep)
  /\ pc' = "sleep"
  /\ UNCHANGED <<now, queueVars, pass, toDrop, toFire, cur, outcome, ipcVars, tryVars,
                 lifeVars, acked>>

\* Bound: where the clock stops, a sleep simply ends.
Wake ==
  /\ pc = "sleep"
  /\ now >= wakeAt \/ now = MaxTime
  /\ pc' = "begin"
  /\ pass' = 0 /\ wakeAt' = 0
  /\ UNCHANGED <<now, queueVars, toDrop, toFire, cur, outcome, ipcVars, tryVars, lifeVars,
                 acked>>

-----------------------------------------------------------------------------
(***************************************************************************)
(* The machine: time passes in any state; the daemon dies and comes back.  *)
(* A request not yet handled dies with it; a reply already written is      *)
(* still there to be read.                                                 *)
(***************************************************************************)
Tick ==
  /\ now < MaxTime
  /\ now' = now + 1
  /\ UNCHANGED <<queueVars, loopVars, ipcVars, tryVars, lifeVars, acked>>

Crash ==
  /\ Up
  /\ faults < MaxFaults
  /\ faults' = faults + 1
  /\ pc' = "down"
  /\ mem' = EmptyQueue
  /\ pass' = 0 /\ wakeAt' = 0
  /\ toDrop' = {} /\ toFire' = {} /\ cur' = NoJob /\ outcome' = "Sent"
  /\ cpc' = [c \in Clients |-> IF cpc[c] = "answered" THEN "answered" ELSE "idle"]
  /\ req' = [c \in Clients |-> NoRequest]
  /\ UNCHANGED <<now, disk, rep, tryVars, lifeVars, acked>>

\* run_with up to its loop; Queue::load.
Start ==
  /\ pc = "down"
  /\ mem' = disk
  /\ pc' = "begin"
  /\ UNCHANGED <<now, disk, faults, pass, toDrop, toFire, cur, outcome, wakeAt, ipcVars,
                 tryVars, lifeVars, acked>>

-----------------------------------------------------------------------------
ClientStep(c) == Schedule(c) \/ Cancel(c) \/ List(c) \/ Edit(c) \/ GiveUp(c) \/ Receive(c)
Handle(c) == HandleSchedule(c) \/ HandleList(c) \/ HandleCancel(c) \/ HandleReplace(c)
Loop == BeginPass \/ Plan \/ DropStale \/ Inject \/ ApplyOutcome \/ GoToSleep \/ Wake

Next ==
  \/ \E c \in Clients : ClientStep(c)
  \/ \E c \in Clients : Handle(c)
  \/ Loop
  \/ Tick \/ Crash \/ Start

Spec == Init /\ [][Next]_vars

\* The loop is a thread of a running process, a sleep ends, and a daemon that
\* died is started again (the service manager, or the user's next command).
Fairness == WF_vars(Loop) /\ WF_vars(Tick) /\ WF_vars(Start)

FairSpec == Spec /\ Fairness

-----------------------------------------------------------------------------
(***************************************************************************)
(* Properties.                                                             *)
(***************************************************************************)

\* Memory and disk never disagree while a daemon runs: an operation that
\* failed to save changed nothing, so what a client lists is what a restart
\* would find (queue.rs, commit).
Agreement == Up => mem = disk

\* The retries a spec buys: none without auto-retry.
Budget(spec) == IF spec.auto_retry THEN spec.retries_left ELSE 0

\* A job is injected at most once more than its retry budget, plus once for
\* every crash or failed save: those are the only ways an injection can go
\* unrecorded and be repeated (scheduler.rs, apply_outcome).
RetryBudget ==
  \A i \in Ids :
    issued[i] # Unset /\ Budget(issued[i]) >= 0
      => tries[i] <= Budget(issued[i]) + 1 + faults

\* A job a client cancelled or edited away may still be injected once, if the
\* pass already held its clone, and never again: applying that outcome does
\* not bring the job back (daemon.rs, step 3; queue.rs, reschedule).
LateAtMostOnce == \A i \in Ids : late[i] <= 1

\* A job whose id a client was told is either still on disk or was injected,
\* or was taken away by a client, or went stale: no crash, failed save, lost
\* reply or other client's request loses it.
NoSilentLoss ==
  \A i \in acked :
    \/ i \in Live
    \/ tries[i] > 0
    \/ endedBy[i] # "none"
    \/ now > issued[i].fire_at + Grace

\* nudge never mistakes its own typing for the user's: only a job's first
\* injection is skipped as resumed, unless an injection went unrecorded
\* (queue.rs, reschedule drops the snapshot).
RetryNeverResumed ==
  pc = "apply" /\ outcome = "SkippedResumed" => tries[cur.id] = 1 \/ faults > 0

\* A sleep ends in time for every job it was chosen over, late by no more
\* than the pass took, and never lasts longer than MaxPoll, so that a job
\* added meanwhile waits no longer than that (scheduler.rs, next_wake).
SleepIsShort ==
  [][pc = "fire" /\ pc' = "sleep" =>
       /\ wakeAt' <= now + MaxPoll \/ wakeAt' <= now + MinSleep
       /\ \A j \in mem.jobs :
            wakeAt' <= j.fire_at + (now - pass) \/ wakeAt' <= now + MinSleep]_vars

\* Every job runs the life NudgeJobs gives it, seen on disk: across crashes
\* and failed saves an id is never given twice and an ended job stays ended.
Life == [i \in Ids |-> IF i \in Live THEN "pending"
                       ELSE IF i <= disk.next_id THEN "done" ELSE "unborn"]
Jobs == INSTANCE NudgeJobs WITH life <- Life
ImplementsJobs == Jobs!Spec

\* A due job does not stay due: it is injected and removed, put off to a
\* later time, or dropped (daemon.rs, run_with).
DueNow(i) == \E j \in disk.jobs : j.id = i /\ j.fire_at <= now
DueIsResolved == \A i \in Ids : DueNow(i) ~> ~DueNow(i)

\* ipc/mod.rs: an edit is one round-trip, and "there is no window to lose":
\* the message is not fired by the original once the replacement is accepted.
EditFiresOnce == \A i \in Ids : endedBy[i] = "replace" => late[i] = 0

\* daemon.rs: "A retry never lands sooner than this" (MIN_RETRY_SECS) after
\* the injection it retries.
RetryFloor ==
  [][\A i \in Ids :
       tries'[i] # tries[i] /\ tries[i] > 0 => now >= lastTry[i] + MinRetry]_vars
=============================================================================
