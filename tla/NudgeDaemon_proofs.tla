-------------------------- MODULE NudgeDaemon_proofs --------------------------
(***************************************************************************)
(* Proofs about NudgeDaemon, for any clients, jobs, edits and bounds.      *)
(***************************************************************************)
EXTENDS NudgeDaemon, TLAPS

(***************************************************************************)
(* Lemmas about the queue's operators: what they return is again a queue.  *)
(***************************************************************************)

\* A job made from a spec is a job (job.rs, into_job).
LEMMA IntoJobType ==
  ASSUME NEW s \in JobSpec, NEW i \in Nat
  PROVE  into_job(s, i) \in Job
BY DEF JobSpec, Job, into_job

\* queue.rs, add.
LEMMA AddType ==
  ASSUME NEW q \in Queue, NEW s \in JobSpec
  PROVE  add(q, s) \in Queue
<1>1. q.next_id + 1 \in Nat
  BY DEF Queue
<1>2. into_job(s, q.next_id + 1) \in Job
  BY <1>1, IntoJobType
<1> QED
  BY <1>1, <1>2 DEF Queue, add

\* queue.rs, remove.
LEMMA RemoveType ==
  ASSUME NEW q \in Queue, NEW id
  PROVE  remove(q, id) \in Queue
BY DEF Queue, remove, Without

\* queue.rs, replace.
LEMMA ReplaceType ==
  ASSUME NEW q \in Queue, NEW id, NEW s \in JobSpec
  PROVE  replace(q, id, s) \in Queue
<1>1. q.next_id + 1 \in Nat
  BY DEF Queue
<1>2. into_job(s, q.next_id + 1) \in Job
  BY <1>1, IntoJobType
<1> QED
  BY <1>1, <1>2 DEF Queue, replace, Without

\* queue.rs, reschedule.
LEMMA RescheduleType ==
  ASSUME NEW q \in Queue, NEW id, NEW at \in Nat, NEW left \in Int
  PROVE  reschedule(q, id, at, left) \in Queue
<1>1. ASSUME NEW j \in Job
      PROVE  [j EXCEPT !.fire_at = at, !.retries_left = left, !.snap = FALSE] \in Job
  BY <1>1 DEF Job
<1> QED
  BY <1>1 DEF Queue, reschedule

\* scheduler.rs, daemon.rs: when and with what budget a job is retried.
LEMMA RetryType ==
  ASSUME NEW j \in Job, NEW t \in Nat
  PROVE  RetryAt(j, t) \in Nat /\ LeftAfter(j) \in Int
BY QueueConstants DEF Job, RetryAt, LeftAfter

\* app.rs, merge_edit: an edit asks for a well-formed job.
LEMMA MergeEditType ==
  ASSUME NEW j \in Job, NEW cli \in Cli, NEW captured \in BOOLEAN
  PROVE  merge_edit(j, cli, DefaultRetries, captured) \in JobSpec
<1> DEFINE over == flag_overrides(cli)
           opts == resolve(EditBase(j, DefaultRetries), over)
<1>1. EditBase(j, DefaultRetries) \in Toggles
  BY DaemonConstants DEF EditBase, Toggles, Job
<1>2. over \in Overrides
  BY DEF Cli, Overrides, flag_overrides, tri
<1>3. opts.verify \in BOOLEAN /\ opts.auto_retry \in BOOLEAN /\ opts.retries \in Int
      /\ opts.settle \in Nat
  <2> HIDE DEF over
  <2> QED
    BY <1>1, <1>2, UnsetIsNoValue DEF resolve, Toggles, Overrides, Or
<1>4. Or(cli.time, j.fire_at) \in Nat
  BY UnsetIsNoValue DEF Or, Cli, Job
<1>5. build_spec(opts, Or(cli.time, j.fire_at), captured) \in JobSpec
  <2> HIDE DEF opts
  <2> QED
    BY <1>3, <1>4 DEF build_spec, snapshot, JobSpec
<1> QED
  BY <1>5 DEF merge_edit

-----------------------------------------------------------------------------
(***************************************************************************)
(* Type correctness.                                                       *)
(***************************************************************************)

\* What clients ask for is well-formed, and what they are told.
LEMMA ClientType ==
  ASSUME TypeOK, NEW c \in Clients, ClientStep(c)
  PROVE  TypeOK'
<1> USE DEF TypeOK, queueVars, loopVars, tryVars, lifeVars
<1>1. ASSUME NEW r \in Request, SendRequest(c, r)
      PROVE  TypeOK'
  BY <1>1 DEF SendRequest, Cpcs
<1>2. CASE Schedule(c)
  <2>1. PICK s \in Specs : SendRequest(c, [op |-> "Schedule", spec |-> s])
    BY <1>2 DEF Schedule
  <2>2. [op |-> "Schedule", spec |-> s] \in Request
    BY DaemonConstants DEF Request
  <2> QED
    BY <1>1, <2>1, <2>2
<1>3. CASE Cancel(c)
  <2>1. PICK i \in Ids : SendRequest(c, [op |-> "Cancel", id |-> i])
    BY <1>3 DEF Cancel
  <2>2. [op |-> "Cancel", id |-> i] \in Request
    BY DEF Request, Ids
  <2> QED
    BY <1>1, <2>1, <2>2
<1>4. CASE List(c)
  <2>1. [op |-> "List"] \in Request
    BY DEF Request
  <2> QED
    BY <1>1, <1>4, <2>1 DEF List
<1>5. CASE GiveUp(c)
  BY <1>5 DEF GiveUp, Cpcs
<1>6. CASE Receive(c)
  <2>1. NoResponse \in Response
    BY DEF NoResponse, Response
  <2> QED
    BY <1>6, <2>1 DEF Receive, Cpcs
<1>7. CASE Edit(c)
  <2>1. rep[c] \in Response /\ rep[c].op = "Jobs"
    BY <1>7 DEF Edit
  <2>2. rep[c].jobs \subseteq Job
    BY <2>1 DEF Response
  <2>3. PICK j \in rep[c].jobs, cli \in Edits, captured \in BOOLEAN :
          req' = [req EXCEPT ![c] =
                   [op |-> "Replace", id |-> j.id,
                    spec |-> merge_edit(j, cli, DefaultRetries, captured)]]
    BY <1>7 DEF Edit
  <2>4. merge_edit(j, cli, DefaultRetries, captured) \in JobSpec /\ j.id \in Nat
    BY <2>2, <2>3, MergeEditType, DaemonConstants DEF Job
  <2>5. req' \in [Clients -> Request]
    BY <2>3, <2>4 DEF Request
  <2>6. NoResponse \in Response
    BY DEF NoResponse, Response
  <2> QED
    BY <1>7, <2>5, <2>6 DEF Edit, Cpcs
<1> QED
  BY <1>2, <1>3, <1>4, <1>5, <1>6, <1>7 DEF ClientStep

\* A commit keeps the queues well-formed, whether it lands or fails.
LEMMA CommitType ==
  ASSUME TypeOK, NEW q \in Queue, Saved(q) \/ SaveFailed(q)
  PROVE  disk' \in Queue /\ mem' \in Queue /\ faults' \in Nat
BY DEF TypeOK, Saved, SaveFailed

\* A request answered leaves the scheduler, the clock and the history alone.
LEMMA AnswerType ==
  ASSUME TypeOK, NEW c \in Clients, NEW r \in Response, Answer(c, r),
         disk' \in Queue, mem' \in Queue, faults' \in Nat,
         issued' \in [Ids -> JobSpec \cup {Unset}],
         endedBy' \in [Ids -> {"none", "cancel", "replace"}]
  PROVE  TypeOK'
<1>1. NoResponse \in Response /\ NoRequest \in Request
  BY DEF NoResponse, NoRequest, Response, Request
<1> QED
  BY <1>1 DEF TypeOK, Answer, Cpcs, loopVars, tryVars

LEMMA HandleType ==
  ASSUME TypeOK, NEW c \in Clients, Handle(c)
  PROVE  TypeOK'
<1>1. mem \in Queue /\ mem.jobs \subseteq Job /\ mem.next_id + 1 \in Nat
  BY DEF TypeOK, Queue
<1>2. req[c] \in Request
  BY DEF TypeOK
<1>3. [op |-> "Error"] \in Response
  BY DEF Response
<1>4. CASE HandleSchedule(c)
  <2> DEFINE next == add(mem, req[c].spec)
  <2>1. req[c].spec \in JobSpec
    BY <1>2, <1>4 DEF HandleSchedule, Serving, Request
  <2>2. next \in Queue /\ next.next_id = mem.next_id + 1
    BY <1>1, <2>1, AddType DEF add
  <2>3. CASE Saved(next) /\ Answer(c, [op |-> "Scheduled", id |-> next.next_id])
              /\ issued' = [issued EXCEPT ![next.next_id] = req[c].spec]
    <3>1. [op |-> "Scheduled", id |-> next.next_id] \in Response
      BY <1>1, <2>2 DEF Response
    <3>2. issued' \in [Ids -> JobSpec \cup {Unset}]
      BY <2>1, <2>3 DEF TypeOK
    <3> QED
      BY <1>4, <2>2, <2>3, <3>1, <3>2, CommitType, AnswerType DEF HandleSchedule, TypeOK
  <2>4. CASE SaveFailed(next) /\ Answer(c, [op |-> "Error"]) /\ UNCHANGED issued
    BY <1>3, <1>4, <2>2, <2>4, CommitType, AnswerType DEF HandleSchedule, TypeOK
  <2> QED
    BY <1>4, <2>3, <2>4 DEF HandleSchedule
<1>5. CASE HandleList(c)
  <2>1. [op |-> "Jobs", jobs |-> mem.jobs] \in Response
    BY <1>1 DEF Response
  <2> QED
    BY <1>5, <2>1, AnswerType DEF HandleList, TypeOK, queueVars, lifeVars
<1>6. CASE HandleCancel(c)
  <2> DEFINE next == remove(mem, req[c].id)
  <2>1. next \in Queue
    BY <1>1, RemoveType
  <2>2. [op |-> "Cancelled", removed |-> TRUE] \in Response
        /\ [op |-> "Cancelled", removed |-> FALSE] \in Response
    BY DEF Response
  <2>3. CASE Answer(c, [op |-> "Cancelled", removed |-> FALSE])
              /\ UNCHANGED <<queueVars, endedBy>>
    BY <1>6, <2>2, <2>3, AnswerType DEF HandleCancel, TypeOK, queueVars
  <2>4. CASE Saved(next) /\ Answer(c, [op |-> "Cancelled", removed |-> TRUE])
              /\ endedBy' = [endedBy EXCEPT ![req[c].id] = "cancel"]
    <3>1. endedBy' \in [Ids -> {"none", "cancel", "replace"}]
      BY <2>4 DEF TypeOK
    <3> QED
      BY <1>6, <2>1, <2>2, <2>4, <3>1, CommitType, AnswerType DEF HandleCancel, TypeOK
  <2>5. CASE SaveFailed(next) /\ Answer(c, [op |-> "Error"]) /\ UNCHANGED endedBy
    BY <1>3, <1>6, <2>1, <2>5, CommitType, AnswerType DEF HandleCancel, TypeOK
  <2> QED
    BY <1>6, <2>3, <2>4, <2>5 DEF HandleCancel
<1>7. CASE HandleReplace(c)
  <2> DEFINE next == replace(mem, req[c].id, req[c].spec)
  <2>1. req[c].spec \in JobSpec
    BY <1>2, <1>7 DEF HandleReplace, Serving, Request
  <2>2. next \in Queue /\ next.next_id = mem.next_id + 1
    BY <1>1, <2>1, ReplaceType DEF replace
  <2>3. CASE Answer(c, [op |-> "Replaced", id |-> 0]) /\ UNCHANGED <<queueVars, lifeVars>>
    <3>1. [op |-> "Replaced", id |-> 0] \in Response
      BY DEF Response
    <3> QED
      BY <2>3, <3>1, AnswerType DEF TypeOK, queueVars, lifeVars
  <2>4. CASE Saved(next) /\ Answer(c, [op |-> "Replaced", id |-> next.next_id])
              /\ issued' = [issued EXCEPT ![next.next_id] = req[c].spec]
              /\ endedBy' = [endedBy EXCEPT ![req[c].id] = "replace"]
    <3>1. [op |-> "Replaced", id |-> next.next_id] \in Response
      BY <1>1, <2>2 DEF Response
    <3>2. issued' \in [Ids -> JobSpec \cup {Unset}]
          /\ endedBy' \in [Ids -> {"none", "cancel", "replace"}]
      BY <2>1, <2>4 DEF TypeOK
    <3> QED
      BY <2>2, <2>4, <3>1, <3>2, CommitType, AnswerType
  <2>5. CASE SaveFailed(next) /\ Answer(c, [op |-> "Error"]) /\ UNCHANGED lifeVars
    BY <1>3, <2>2, <2>5, CommitType, AnswerType DEF TypeOK, lifeVars
  <2> QED
    BY <1>7, <2>3, <2>4, <2>5 DEF HandleReplace
<1> QED
  BY <1>4, <1>5, <1>6, <1>7 DEF Handle

\* apply_outcome's candidate is a queue.
LEMMA AppliedType ==
  ASSUME TypeOK
  PROVE  Applied(cur, outcome) \in Queue
<1>1. RetryAt(cur, pass) \in Nat /\ LeftAfter(cur) \in Int
  BY RetryType DEF TypeOK
<1>2. reschedule(mem, cur.id, RetryAt(cur, pass), LeftAfter(cur)) \in Queue
  BY <1>1, RescheduleType DEF TypeOK
<1>3. remove(mem, cur.id) \in Queue
  BY RemoveType DEF TypeOK
<1> QED
  BY <1>2, <1>3 DEF Applied

LEMMA NoJobType == NoJob \in Job
<1>1. NoSpec \in JobSpec
  BY DEF NoSpec, JobSpec
<1> QED
  BY <1>1, IntoJobType DEF NoJob

\* A counter kept per id stays one when an id's count goes up.
LEMMA CountUp ==
  ASSUME NEW f \in [Ids -> Nat], NEW i, NEW n \in Nat
  PROVE  [f EXCEPT ![i] = @ + n] \in [Ids -> Nat]
<1>1. CASE i \in Ids
  <2>1. f[i] + n \in Nat
    BY <1>1
  <2> QED
    BY <2>1
<1>2. CASE i \notin Ids
  BY <1>2
<1> QED
  BY <1>1, <1>2

LEMMA LoopType ==
  ASSUME TypeOK, Loop
  PROVE  TypeOK'
<1> USE DEF TypeOK, ipcVars, tryVars, lifeVars
<1>1. mem.jobs \subseteq Job /\ mem.next_id \in Nat
  BY DEF Queue
<1>2. CASE BeginPass
  BY <1>2 DEF BeginPass, queueVars, Pcs
<1>3. CASE Plan
  <2>1. PlanFire(mem.jobs, pass) \subseteq Job
    BY <1>1 DEF PlanFire
  <2>2. PlanDrop(mem.jobs, pass) \subseteq Nat
    BY <1>1 DEF PlanDrop, Job
  <2> QED
    BY <1>3, <2>1, <2>2 DEF Plan, queueVars, Pcs
<1>4. CASE DropStale
  <2>1. PICK failed \in SUBSET (toDrop \cap IdsIn(mem.jobs)) :
          /\ faults' = IF failed = {} THEN faults ELSE faults + 1
          /\ mem' = [mem EXCEPT !.jobs =
                       {j \in @ : j.id \notin toDrop \/ j.id \in failed}]
          /\ disk' = mem'
    BY <1>4 DEF DropStale
  <2>2. mem' \in Queue /\ disk' \in Queue
    BY <1>1, <2>1 DEF Queue
  <2> QED
    BY <1>4, <2>1, <2>2 DEF DropStale, Pcs
<1>5. CASE Inject
  <2>1. PICK j \in toFire, o \in Outcomes :
          /\ cur' = j
          /\ outcome' = o
          /\ toFire' = toFire \ {j}
          /\ tries' = [tries EXCEPT ![j.id] = @ + 1]
          /\ late' = [late EXCEPT ![j.id] = @ + (IF endedBy[j.id] = "none" THEN 0 ELSE 1)]
          /\ lastTry' = [lastTry EXCEPT ![j.id] = now]
    BY <1>5 DEF Inject
  <2>2. tries' \in [Ids -> Nat]
    BY <2>1, CountUp
  <2>3. late' \in [Ids -> Nat]
    <3> DEFINE n == IF endedBy[j.id] = "none" THEN 0 ELSE 1
    <3>1. n \in Nat /\ late' = [late EXCEPT ![j.id] = @ + n]
      BY <2>1
    <3> HIDE DEF n
    <3> QED
      BY <3>1, CountUp
  <2>4. lastTry' \in [Ids -> Nat]
    BY <2>1
  <2> QED
    BY <1>5, <2>1, <2>2, <2>3, <2>4 DEF Inject, queueVars, Pcs
<1>6. CASE ApplyOutcome
  <2>1. Applied(cur, outcome) \in Queue
    BY AppliedType
  <2>2. disk' \in Queue /\ mem' \in Queue /\ faults' \in Nat
    BY <1>6, <2>1, CommitType DEF ApplyOutcome
  <2> QED
    BY <1>6, <2>2, NoJobType DEF ApplyOutcome, Pcs, Outcomes
<1>7. CASE GoToSleep
  <2>1. wakeAt' \in Nat
    BY <1>7, QueueConstants, DaemonConstants DEF GoToSleep
  <2> QED
    BY <1>7, <2>1 DEF GoToSleep, queueVars, Pcs
<1>8. CASE Wake
  BY <1>8 DEF Wake, queueVars, Pcs
<1> QED
  BY <1>2, <1>3, <1>4, <1>5, <1>6, <1>7, <1>8 DEF Loop

LEMMA InitType == Init => TypeOK
<1> SUFFICES ASSUME Init
             PROVE  TypeOK
  OBVIOUS
<1>1. EmptyQueue \in Queue
  BY DEF EmptyQueue, Queue
<1>2. NoResponse \in Response /\ NoRequest \in Request
  BY DEF NoResponse, NoRequest, Response, Request
<1> QED
  BY <1>1, <1>2, NoJobType DEF Init, TypeOK, Pcs, Cpcs, Outcomes

LEMMA NextType == TypeOK /\ [Next]_vars => TypeOK'
<1> SUFFICES ASSUME TypeOK, [Next]_vars
             PROVE  TypeOK'
  OBVIOUS
<1>1. CASE Tick
  BY <1>1 DEF Tick, TypeOK, queueVars, loopVars, ipcVars, tryVars, lifeVars
<1>2. CASE Crash
  <2>1. EmptyQueue \in Queue
    BY DEF EmptyQueue, Queue
  <2>2. NoRequest \in Request
    BY DEF NoRequest, Request
  <2> QED
    BY <1>2, <2>1, <2>2, NoJobType
    DEF Crash, TypeOK, Pcs, Cpcs, Outcomes, tryVars, lifeVars
<1>3. CASE Start
  BY <1>3 DEF Start, TypeOK, Pcs, ipcVars, tryVars, lifeVars
<1>4. CASE UNCHANGED vars
  BY <1>4 DEF vars, TypeOK, queueVars, loopVars, ipcVars, tryVars, lifeVars
<1> QED
  BY <1>1, <1>2, <1>3, <1>4, ClientType, HandleType, LoopType DEF Next

\* Every variable keeps its type: a job read back from the queue, a reply, a
\* time to retry are always well-formed, whatever the settings.
THEOREM TypeCorrect == Spec => []TypeOK
BY InitType, NextType, PTL DEF Spec

-----------------------------------------------------------------------------
(***************************************************************************)
(* The inductive invariant.  Each part is named for what it says.          *)
(***************************************************************************)

\* The daemon works on what is on disk, and holds no plan outside a pass.
InStep ==
  /\ Agreement
  /\ toDrop # {} => pc = "drop"
  /\ toFire # {} => pc \in {"drop", "fire", "apply"}
  /\ pass <= now

\* Ids are handed out in order, and name one job each.
IdsInOrder ==
  /\ disk.next_id <= MaxId
  /\ \A j \in disk.jobs : 1 <= j.id /\ j.id <= disk.next_id
  /\ \A j, k \in disk.jobs : j.id = k.id => j = k
  /\ \A i \in Ids : i <= disk.next_id <=> issued[i] # Unset
  /\ \A i \in Ids : issued[i] = Unset => tries[i] = 0 /\ late[i] = 0 /\ endedBy[i] = "none"

\* A live job is still the one that was asked for, but for what a retry changes.
AsIssued ==
  \A j \in disk.jobs :
    /\ j.auto_retry = issued[j.id].auto_retry
    /\ tries[j.id] = 0 => j.fire_at = issued[j.id].fire_at

\* A clone in hand is the live job itself, or the job has been taken away.
Trying(i) == pc = "apply" /\ cur.id = i

Clones ==
  /\ \A k \in toFire : 1 <= k.id /\ k.id <= disk.next_id
  /\ \A k, l \in toFire : k.id = l.id => k = l
  /\ \A k \in toFire, j \in disk.jobs : j.id = k.id => j = k
  /\ pc = "apply" =>
       /\ 1 <= cur.id /\ cur.id <= disk.next_id /\ tries[cur.id] > 0
       /\ \A k \in toFire : k.id # cur.id
       /\ \A j \in disk.jobs : j.id = cur.id => j = cur

\* What has been tried and what is left to try add up.
Spent ==
  /\ \A j \in disk.jobs : Budget(issued[j.id]) >= 0 =>
       /\ Budget(j) >= 0
       /\ tries[j.id] + Budget(j)
            <= Budget(issued[j.id]) + faults + (IF Trying(j.id) THEN 1 ELSE 0)
  /\ \A k \in toFire : Budget(issued[k.id]) >= 0 =>
       tries[k.id] <= Budget(issued[k.id]) + faults
  /\ RetryBudget

\* A job taken away is gone, and only a clone in hand can still fire.
TakenAway ==
  /\ \A i \in Ids : endedBy[i] # "none" => i \notin Live
  /\ \A i \in Ids : late[i] > 0 => endedBy[i] # "none"
  /\ \A k \in toFire : late[k.id] = 0
  /\ LateAtMostOnce

\* A snapshot lasts for one injection.
SnapOnce ==
  \/ faults > 0
  \/ /\ \A j \in disk.jobs : j.snap => tries[j.id] = (IF Trying(j.id) THEN 1 ELSE 0)
     /\ \A k \in toFire : k.snap => tries[k.id] = 0
     /\ RetryNeverResumed

\* Whatever was accepted can be accounted for.
Accounted(i) ==
  \/ i \in Live
  \/ tries[i] > 0
  \/ endedBy[i] # "none"
  \/ now > issued[i].fire_at + Grace

NoneLost == \A i \in Ids : issued[i] # Unset => Accounted(i)

\* What clients have been told exists.
Told ==
  /\ \A i \in acked : issued[i] # Unset
  /\ \A c \in Clients : rep[c].op \in {"Scheduled", "Replaced"} => rep[c].id <= disk.next_id

\* What the plan found stale still is.
Stale ==
  \A i \in toDrop :
    /\ i <= disk.next_id
    /\ \A j \in disk.jobs : j.id = i => j.fire_at + Grace < pass

QInv == InStep /\ IdsInOrder /\ AsIssued /\ Clones /\ Spent /\ TakenAway /\ SnapOnce
        /\ NoneLost /\ Stale

IInv == TypeOK /\ QInv /\ Told

-----------------------------------------------------------------------------
(***************************************************************************)
(* Facts about well-formed states, and steps that leave the invariant's    *)
(* variables alone.                                                        *)
(***************************************************************************)

LEMMA JobFacts ==
  ASSUME NEW j \in Job
  PROVE  /\ j.id \in Nat /\ j.fire_at \in Nat /\ j.settle \in Nat
         /\ j.retries_left \in Int
         /\ j.auto_retry \in BOOLEAN /\ j.snap \in BOOLEAN
         /\ Budget(j) \in Int
BY DEF Job, Budget

LEMMA SpecFacts ==
  ASSUME NEW s \in JobSpec
  PROVE  s.fire_at \in Nat /\ s.auto_retry \in BOOLEAN /\ Budget(s) \in Int /\ s # Unset
<1>1. s.fire_at \in Nat /\ s.auto_retry \in BOOLEAN /\ Budget(s) \in Int
  BY DEF JobSpec, Budget
<1> QED
  BY <1>1, UnsetIsNoValue

LEMMA StateFacts ==
  ASSUME TypeOK
  PROVE  /\ disk.next_id \in Nat /\ disk.jobs \subseteq Job
         /\ faults \in Nat /\ now \in Nat /\ pass \in Nat
         /\ \A i \in Ids : tries[i] \in Nat /\ late[i] \in Nat
         /\ \A i \in Ids : issued[i] # Unset => issued[i] \in JobSpec
         /\ MaxId \in Nat
BY DaemonConstants DEF TypeOK, Queue

\* What a new job does to the queue's invariants; the queue it is added to may
\* have lost jobs on the way (an edit).
LEMMA GainsJob ==
  ASSUME TypeOK, QInv, Up,
         NEW s \in JobSpec, NEW kept \in SUBSET disk.jobs, NEW n,
         n = disk.next_id + 1, n \in Ids,
         disk' = [next_id |-> n, jobs |-> kept \cup {into_job(s, n)}],
         mem' = disk',
         faults' = faults,
         issued' = [issued EXCEPT ![n] = s],
         endedBy' \in [Ids -> {"none", "cancel", "replace"}],
         \A i \in Ids : endedBy'[i] = endedBy[i]
                          \/ (/\ endedBy'[i] = "replace"
                              /\ i <= disk.next_id /\ i \notin IdsIn(kept)),
         \A j \in disk.jobs : j \in kept \/ endedBy'[j.id] # "none",
         UNCHANGED <<now, loopVars, tryVars>>
  PROVE  QInv'
<1> DEFINE new == into_job(s, n)
<1>1. /\ new.id = n /\ new.fire_at = s.fire_at /\ new.auto_retry = s.auto_retry
      /\ new.snap = s.snap /\ Budget(new) = Budget(s)
  BY DEF into_job, Budget
<1>2. disk'.next_id = n /\ disk'.jobs = kept \cup {new}
  OBVIOUS
<1> HIDE DEF new
<1>3. /\ disk.next_id \in Nat /\ disk.jobs \subseteq Job /\ faults \in Nat
      /\ \A i \in Ids : tries[i] \in Nat /\ late[i] \in Nat
      /\ Ids = 1 .. MaxId /\ MaxId \in Nat
      /\ issued \in [Ids -> JobSpec \cup {Unset}]
  BY StateFacts DEF QInv, TypeOK, Ids
<1>4. /\ issued[n] = Unset /\ tries[n] = 0 /\ late[n] = 0 /\ endedBy[n] = "none"
      /\ issued'[n] = s /\ endedBy'[n] = "none"
      /\ \A i \in Ids : i # n => issued'[i] = issued[i]
  BY <1>3 DEF QInv, IdsInOrder
<1>5. /\ now' = now /\ pc' = pc /\ pass' = pass /\ toDrop' = toDrop /\ toFire' = toFire
      /\ cur' = cur /\ outcome' = outcome /\ tries' = tries /\ late' = late
  BY DEF loopVars, tryVars
<1>6. \A j \in disk.jobs : j.id \in Ids /\ j.id # n
  BY <1>3, JobFacts DEF QInv, IdsInOrder
<1>7. \A k \in toFire : k.id \in Ids /\ k.id # n
  BY <1>3, JobFacts DEF QInv, Clones, TypeOK
<1>8. pc = "apply" => cur.id \in Ids /\ cur.id # n
  BY <1>3, JobFacts DEF QInv, Clones, TypeOK
<1>9. s # Unset
  BY SpecFacts
<1>a. InStep'
  BY <1>5 DEF QInv, InStep, Agreement
<1>b. IdsInOrder'
  <2> USE DEF QInv, IdsInOrder
  <2>1. \A j \in disk'.jobs : 1 <= j.id /\ j.id <= disk'.next_id
    BY <1>1, <1>2, <1>3, JobFacts
  <2>2. \A j, k \in disk'.jobs : j.id = k.id => j = k
    BY <1>1, <1>2, <1>6
  <2>3. \A i \in Ids : i <= disk'.next_id <=> issued'[i] # Unset
    BY <1>2, <1>3, <1>4, <1>9
  <2>4. ASSUME NEW i \in Ids, issued'[i] = Unset
        PROVE  tries[i] = 0 /\ late[i] = 0 /\ endedBy'[i] = "none"
    <3>1. i # n /\ issued[i] = Unset
      BY <1>4, <1>9, <2>4
    <3>2. ~(i <= disk.next_id) /\ endedBy[i] = "none"
      BY <3>1
    <3> QED
      BY <3>1, <3>2
  <2>5. disk'.next_id <= MaxId
    BY <1>2, <1>3
  <2> QED
    BY <1>5, <2>1, <2>2, <2>3, <2>4, <2>5
<1>c. AsIssued'
  BY <1>1, <1>2, <1>4, <1>5, <1>6 DEF QInv, AsIssued
<1>d. Clones'
  BY <1>1, <1>2, <1>3, <1>5, <1>7, <1>8 DEF QInv, Clones
<1>e. Spent'
  <2> USE DEF QInv, Spent
  <2>1. \A i : Trying(i)' = Trying(i)
    BY <1>5 DEF Trying
  <2>2. ASSUME NEW j \in disk'.jobs, Budget(issued'[j.id]) >= 0
        PROVE  /\ Budget(j) >= 0
               /\ tries[j.id] + Budget(j)
                    <= Budget(issued'[j.id]) + faults + (IF Trying(j.id) THEN 1 ELSE 0)
    <3>1. CASE j \in kept
      BY <1>4, <1>6, <2>2, <3>1
    <3>2. CASE j = new
      BY <1>1, <1>3, <1>4, <2>2, <3>2, SpecFacts
    <3> QED
      BY <1>2, <3>1, <3>2
  <2>3. \A k \in toFire : issued'[k.id] = issued[k.id]
    BY <1>4, <1>7
  <2>4. RetryBudget'
    <3> SUFFICES ASSUME NEW i \in Ids, issued'[i] # Unset, Budget(issued'[i]) >= 0
                 PROVE  tries[i] <= Budget(issued'[i]) + 1 + faults
      BY <1>5 DEF RetryBudget
    <3>1. CASE i = n
      BY <1>3, <1>4, <3>1, SpecFacts
    <3>2. CASE i # n
      BY <1>4, <3>2 DEF RetryBudget
    <3> QED
      BY <3>1, <3>2
  <2> QED
    BY <1>5, <2>1, <2>2, <2>3, <2>4
<1>f. TakenAway'
  <2> USE DEF QInv, TakenAway
  <2>1. ASSUME NEW i \in Ids, endedBy'[i] # "none"
        PROVE  i \notin IdsIn(disk'.jobs)
    <3>1. i # n /\ i \notin IdsIn(kept)
      BY <1>4, <2>1 DEF Live, IdsIn
    <3> QED
      BY <1>1, <1>2, <3>1 DEF IdsIn
  <2>2. \A i \in Ids : endedBy[i] # "none" => endedBy'[i] # "none"
    OBVIOUS
  <2> QED
    BY <1>5, <2>1, <2>2 DEF LateAtMostOnce, Live
<1>g. SnapOnce'
  BY <1>1, <1>2, <1>4, <1>5, <1>6, <1>8
  DEF QInv, SnapOnce, RetryNeverResumed, Trying
<1>h. ASSUME NEW i \in Ids, issued'[i] # Unset
      PROVE  Accounted(i)'
  <2>1. CASE i = n
    BY <1>1, <1>2, <2>1 DEF Accounted, Live, IdsIn
  <2>2. CASE i # n /\ i \in Live
    <3>1. PICK j \in disk.jobs : j.id = i
      BY <2>2 DEF Live, IdsIn
    <3> QED
      BY <1>2, <3>1 DEF Accounted, Live, IdsIn
  <2>3. CASE i # n /\ i \notin Live
    <3>1. endedBy[i] # "none" => endedBy'[i] # "none"
      OBVIOUS
    <3> QED
      BY <1>4, <1>5, <1>h, <2>3, <3>1 DEF QInv, NoneLost, Accounted
  <2> QED
    BY <2>1, <2>2, <2>3
<1>i. Stale'
  BY <1>1, <1>2, <1>3, <1>5 DEF QInv, Stale, TypeOK
<1> QED
  BY <1>a, <1>b, <1>c, <1>d, <1>e, <1>f, <1>g, <1>h, <1>i DEF QInv, NoneLost

\* A step that leaves the queue, the loop and the history alone, though it may
\* count a fault or let time pass.
LEMMA Undisturbed ==
  ASSUME TypeOK, QInv, faults' \in Nat, faults' >= faults, now' \in Nat, now' >= now,
         UNCHANGED <<disk, mem, loopVars, tryVars, lifeVars>>
  PROVE  QInv'
<1>1. /\ disk' = disk /\ mem' = mem /\ issued' = issued /\ endedBy' = endedBy
      /\ pc' = pc /\ pass' = pass /\ toDrop' = toDrop /\ toFire' = toFire
      /\ cur' = cur /\ outcome' = outcome /\ tries' = tries /\ late' = late
  BY DEF loopVars, tryVars, lifeVars
<1>2. /\ faults \in Nat /\ now \in Nat /\ pass \in Nat /\ disk.jobs \subseteq Job
      /\ \A i \in Ids : tries[i] \in Nat
      /\ \A i \in Ids : issued[i] # Unset => issued[i] \in JobSpec
  BY StateFacts
<1>3. \A j \in disk.jobs : j.id \in Ids /\ issued[j.id] # Unset
  BY <1>2, StateFacts, JobFacts DEF QInv, IdsInOrder, Ids
<1>4. \A k \in toFire : k.id \in Ids /\ issued[k.id] # Unset
  BY StateFacts, JobFacts DEF TypeOK, QInv, Clones, IdsInOrder, Ids
<1>5. InStep'
  BY <1>1, <1>2 DEF QInv, InStep, Agreement, Up
<1>9. IdsInOrder' /\ AsIssued' /\ Clones' /\ Stale'
  BY <1>1 DEF QInv, IdsInOrder, AsIssued, Clones, Stale
<1>a. TakenAway'
  BY <1>1 DEF QInv, TakenAway, LateAtMostOnce, Live
<1>6. Spent'
  <2>1. \A i : Trying(i)' = Trying(i)
    BY <1>1 DEF Trying
  <2>2. ASSUME NEW j \in disk.jobs, Budget(issued[j.id]) >= 0
        PROVE  /\ Budget(j) >= 0
               /\ tries[j.id] + Budget(j)
                    <= Budget(issued[j.id]) + faults' + (IF Trying(j.id) THEN 1 ELSE 0)
    BY <1>2, <1>3, <2>2, JobFacts, SpecFacts DEF QInv, Spent
  <2>3. ASSUME NEW k \in toFire, Budget(issued[k.id]) >= 0
        PROVE  tries[k.id] <= Budget(issued[k.id]) + faults'
    BY <1>2, <1>4, <2>3, SpecFacts DEF QInv, Spent
  <2>4. ASSUME NEW i \in Ids, issued[i] # Unset, Budget(issued[i]) >= 0
        PROVE  tries[i] <= Budget(issued[i]) + 1 + faults'
    BY <1>2, <2>4, SpecFacts DEF QInv, Spent, RetryBudget
  <2> QED
    BY <1>1, <2>1, <2>2, <2>3, <2>4 DEF Spent, RetryBudget
<1>7. SnapOnce'
  BY <1>1, <1>2 DEF QInv, SnapOnce, Trying, RetryNeverResumed
<1>8. ASSUME NEW i \in Ids, issued[i] # Unset
      PROVE  Accounted(i)'
  BY <1>1, <1>2, <1>8, SpecFacts, QueueConstants DEF QInv, NoneLost, Accounted, Live
<1> QED
  BY <1>1, <1>5, <1>6, <1>7, <1>8, <1>9, <1>a DEF QInv, NoneLost

\* A cancel.
LEMMA LosesJob ==
  ASSUME TypeOK, QInv, Up, NEW id \in Ids,
         disk' = [next_id |-> disk.next_id, jobs |-> Without(disk.jobs, id)],
         mem' = disk', faults' = faults, id \in Live,
         endedBy' = [endedBy EXCEPT ![id] = "cancel"],
         UNCHANGED <<now, loopVars, tryVars, issued>>
  PROVE  QInv'
<1>1. /\ disk'.next_id = disk.next_id /\ disk'.jobs = {j \in disk.jobs : j.id # id}
  BY DEF Without
<1>2. /\ pc' = pc /\ pass' = pass /\ toDrop' = toDrop /\ toFire' = toFire
      /\ cur' = cur /\ outcome' = outcome /\ tries' = tries /\ late' = late
      /\ now' = now /\ issued' = issued
  BY DEF loopVars, tryVars
<1>3. /\ endedBy'[id] = "cancel" /\ \A i \in Ids : i # id => endedBy'[i] = endedBy[i]
  BY DEF TypeOK
<1>4. id <= disk.next_id
  BY DEF QInv, IdsInOrder, Live, IdsIn
<1>5. InStep' /\ AsIssued' /\ Clones' /\ Stale'
  BY <1>1, <1>2 DEF QInv, InStep, Agreement, AsIssued, Clones, Stale
<1>6. IdsInOrder'
  BY <1>1, <1>2, <1>3, <1>4 DEF QInv, IdsInOrder
<1>7. Spent'
  BY <1>1, <1>2 DEF QInv, Spent, RetryBudget, Trying
<1>8. TakenAway'
  BY <1>1, <1>2, <1>3 DEF QInv, TakenAway, LateAtMostOnce, Live, IdsIn
<1>9. SnapOnce'
  BY <1>1, <1>2 DEF QInv, SnapOnce, Trying, RetryNeverResumed
<1>a. NoneLost'
  BY <1>1, <1>2, <1>3 DEF QInv, NoneLost, Accounted, Live, IdsIn
<1> QED
  BY <1>5, <1>6, <1>7, <1>8, <1>9, <1>a DEF QInv

\* While a daemon runs, its copy is the file.
LEMMA MemIsDisk ==
  ASSUME QInv, Up
  PROVE  mem = disk
BY DEF QInv, InStep, Agreement

\* Clients, and the replies they read, leave the queue alone.
LEMMA ClientKeeps ==
  ASSUME TypeOK, QInv, NEW c \in Clients, ClientStep(c)
  PROVE  QInv'
<1>1. UNCHANGED <<now, disk, mem, faults, loopVars, tryVars, lifeVars>>
  BY DEF ClientStep, Schedule, Cancel, List, SendRequest, GiveUp, Receive, Edit, queueVars
<1> QED
  BY <1>1, Undisturbed DEF TypeOK

\* A request that could not be saved, or had nothing to change.
LEMMA Refused ==
  ASSUME TypeOK, QInv, NEW q, SaveFailed(q) \/ UNCHANGED queueVars,
         UNCHANGED <<now, loopVars, tryVars, lifeVars>>
  PROVE  QInv'
<1>1. UNCHANGED <<disk, mem>> /\ faults' \in Nat /\ faults' >= faults
  BY DEF SaveFailed, queueVars, TypeOK
<1> QED
  BY <1>1, Undisturbed DEF TypeOK

\* Every request handled keeps the queue's invariants.
LEMMA HandleKeeps ==
  ASSUME TypeOK, QInv, NEW c \in Clients, Handle(c)
  PROVE  QInv'
<1>1. Up /\ mem = disk
  BY MemIsDisk DEF Handle, HandleSchedule, HandleList, HandleCancel, HandleReplace, Serving
<1>2. UNCHANGED <<now, loopVars, tryVars>>
  BY DEF Handle, HandleSchedule, HandleList, HandleCancel, HandleReplace, Answer
<1>3. disk.next_id \in Nat /\ MaxId \in Nat /\ Ids = 1 .. MaxId
      /\ endedBy \in [Ids -> {"none", "cancel", "replace"}]
  BY StateFacts DEF Ids, TypeOK
<1>4. req[c] \in Request
  BY DEF TypeOK
<1>5. \A j \in disk.jobs : j.id \in Ids /\ j.id <= disk.next_id
  BY <1>3, StateFacts, JobFacts DEF QInv, IdsInOrder
<1>6. CASE HandleSchedule(c)
  <2> DEFINE s == req[c].spec
             n == disk.next_id + 1
  <2>1. s \in JobSpec
    BY <1>4, <1>6 DEF HandleSchedule, Serving, Request
  <2>2. CASE Saved(add(mem, s)) /\ issued' = [issued EXCEPT ![add(mem, s).next_id] = s]
    <3>1. n \in Ids
      BY <1>1, <1>3, <1>6 DEF HandleSchedule
    <3>2. /\ disk' = [next_id |-> n, jobs |-> disk.jobs \cup {into_job(s, n)}]
          /\ mem' = disk' /\ faults' = faults /\ issued' = [issued EXCEPT ![n] = s]
      BY <1>1, <2>2 DEF Saved, add
    <3>3. endedBy' = endedBy
      BY <1>6 DEF HandleSchedule
    <3> HIDE DEF s, n
    <3>4. n = disk.next_id + 1
      BY DEF n
    <3> QED
      BY <1>1, <1>2, <1>3, <2>1, <3>1, <3>2, <3>3, <3>4, GainsJob
  <2>3. CASE SaveFailed(add(mem, s)) /\ UNCHANGED issued
    BY <1>2, <1>6, <2>3, Refused DEF HandleSchedule, lifeVars
  <2> QED
    BY <1>6, <2>2, <2>3 DEF HandleSchedule
<1>7. CASE HandleList(c)
  BY <1>2, <1>7, Refused DEF HandleList
<1>8. CASE HandleCancel(c)
  <2> DEFINE id == req[c].id
  <2>1. issued' = issued
    BY <1>8 DEF HandleCancel
  <2>2. CASE UNCHANGED <<queueVars, endedBy>>
    BY <1>2, <2>1, <2>2, Refused DEF lifeVars
  <2>3. CASE /\ id \in IdsIn(mem.jobs) /\ Saved(remove(mem, id))
             /\ endedBy' = [endedBy EXCEPT ![id] = "cancel"]
    <3>1. id \in Live /\ id \in Ids
      BY <1>1, <1>5, <2>3 DEF Live, IdsIn
    <3>2. /\ disk' = [next_id |-> disk.next_id, jobs |-> Without(disk.jobs, id)]
          /\ mem' = disk' /\ faults' = faults
      BY <1>1, <2>3 DEF Saved, remove, TypeOK, Queue
    <3> HIDE DEF id
    <3> QED
      BY <1>1, <1>2, <2>1, <2>3, <3>1, <3>2, LosesJob
  <2>4. CASE SaveFailed(remove(mem, id)) /\ UNCHANGED endedBy
    BY <1>2, <2>1, <2>4, Refused DEF lifeVars
  <2> QED
    BY <1>8, <2>2, <2>3, <2>4 DEF HandleCancel
<1>9. CASE HandleReplace(c)
  <2> DEFINE id == req[c].id
             s == req[c].spec
             n == disk.next_id + 1
             kept == Without(disk.jobs, id)
  <2>1. s \in JobSpec
    BY <1>4, <1>9 DEF HandleReplace, Serving, Request
  <2>2. CASE UNCHANGED <<queueVars, lifeVars>>
    BY <1>2, <2>2, Refused DEF lifeVars
  <2>3. CASE /\ id \in IdsIn(mem.jobs) /\ mem.next_id < MaxId
             /\ Saved(replace(mem, id, s))
             /\ issued' = [issued EXCEPT ![replace(mem, id, s).next_id] = s]
             /\ endedBy' = [endedBy EXCEPT ![id] = "replace"]
    <3>1. n \in Ids
      BY <1>1, <1>3, <2>3
    <3>2. /\ disk' = [next_id |-> n, jobs |-> kept \cup {into_job(s, n)}]
          /\ mem' = disk' /\ faults' = faults /\ issued' = [issued EXCEPT ![n] = s]
      BY <1>1, <2>3 DEF Saved, replace
    <3>3. kept \in SUBSET disk.jobs /\ id \notin IdsIn(kept)
      BY DEF Without, IdsIn
    <3>4. id \in Ids /\ id <= disk.next_id
      BY <1>1, <1>5, <2>3 DEF IdsIn
    <3>5. endedBy' \in [Ids -> {"none", "cancel", "replace"}]
      BY <1>3, <2>3
    <3>6. \A i \in Ids : i # id => endedBy'[i] = endedBy[i]
      BY <1>3, <2>3
    <3>7. endedBy'[id] = "replace"
      BY <1>3, <2>3, <3>4
    <3>8. \A j \in disk.jobs : j \in kept \/ j.id = id
      BY DEF Without
    <3> HIDE DEF s, n, id, kept
    <3>9. n = disk.next_id + 1
      BY DEF n
    <3> QED
      BY <1>1, <1>2, <2>1, <3>1, <3>2, <3>3, <3>4, <3>5, <3>6, <3>7, <3>8, <3>9, GainsJob
  <2>4. CASE SaveFailed(replace(mem, id, s)) /\ UNCHANGED lifeVars
    BY <1>2, <2>4, Refused
  <2> QED
    BY <1>9, <2>2, <2>3, <2>4 DEF HandleReplace
<1> QED
  BY <1>6, <1>7, <1>8, <1>9 DEF Handle

-----------------------------------------------------------------------------
(***************************************************************************)
(* The loop, crashes and restarts.                                         *)
(***************************************************************************)

\* A step between passes, or the death of the daemon: nothing in hand after it.
LEMMA EmptyHanded ==
  ASSUME TypeOK, QInv, faults' \in Nat, faults' >= faults,
         UNCHANGED <<now, disk, tryVars, lifeVars>>,
         pc' \in {"down", "begin", "plan", "sleep"}, pc # "apply" \/ faults' > faults,
         pc' # "down" => mem' = disk,
         toDrop' = {}, toFire' = {}, pass' \in Nat, pass' <= now
  PROVE  QInv'
<1>1. /\ disk' = disk /\ issued' = issued /\ endedBy' = endedBy /\ now' = now
      /\ tries' = tries /\ late' = late
  BY DEF tryVars, lifeVars
<1>2. /\ faults \in Nat /\ disk.jobs \subseteq Job
      /\ \A i \in Ids : tries[i] \in Nat
      /\ \A i \in Ids : issued[i] # Unset => issued[i] \in JobSpec
  BY StateFacts
<1>3. \A j \in disk.jobs : j.id \in Ids /\ issued[j.id] # Unset
  BY <1>2, StateFacts, JobFacts DEF QInv, IdsInOrder, Ids
<1>4. InStep'
  BY <1>1 DEF InStep, Agreement, Up
<1>5. IdsInOrder' /\ AsIssued' /\ TakenAway'
  BY <1>1 DEF QInv, IdsInOrder, AsIssued, TakenAway, LateAtMostOnce, Live
<1>6. Clones' /\ Stale'
  BY <1>1 DEF Clones, Stale
<1>7. \A i : ~Trying(i)'
  BY DEF Trying
<1>8. Spent'
  <2>1. ASSUME NEW j \in disk.jobs, Budget(issued[j.id]) >= 0
        PROVE  /\ Budget(j) >= 0
               /\ tries[j.id] + Budget(j) <= Budget(issued[j.id]) + faults'
    <3>1. (IF Trying(j.id) THEN 1 ELSE 0) + faults <= faults'
      BY <1>2 DEF Trying
    <3> QED
      BY <1>2, <1>3, <2>1, <3>1, JobFacts, SpecFacts DEF QInv, Spent
  <2>2. ASSUME NEW i \in Ids, issued[i] # Unset, Budget(issued[i]) >= 0
        PROVE  tries[i] <= Budget(issued[i]) + 1 + faults'
    BY <1>2, <2>2, SpecFacts DEF QInv, Spent, RetryBudget
  <2>3. RetryBudget'
    BY <1>1, <2>2 DEF RetryBudget
  <2>4. \A j \in disk.jobs : Budget(issued[j.id]) >= 0 =>
          tries[j.id] + Budget(j)
            <= Budget(issued[j.id]) + faults' + (IF Trying(j.id)' THEN 1 ELSE 0)
    BY <1>2, <1>3, <1>7, <2>1, JobFacts, SpecFacts
  <2> QED
    BY <1>1, <2>1, <2>3, <2>4 DEF Spent
<1>9. SnapOnce'
  BY <1>1, <1>2, <1>7 DEF QInv, SnapOnce, Trying, RetryNeverResumed
<1>a. NoneLost'
  BY <1>1 DEF QInv, NoneLost, Accounted, Live
<1> QED
  BY <1>4, <1>5, <1>6, <1>8, <1>9, <1>a DEF QInv

LEMMA PlanKeeps ==
  ASSUME TypeOK, QInv, Plan
  PROVE  QInv'
<1>1. /\ disk' = disk /\ mem' = mem /\ issued' = issued /\ endedBy' = endedBy /\ now' = now
      /\ tries' = tries /\ late' = late /\ faults' = faults /\ pass' = pass
      /\ pc = "plan" /\ pc' \in {"fire", "drop"} /\ (toDrop' # {} => pc' = "drop")
      /\ mem = disk
  BY MemIsDisk DEF Plan, queueVars, tryVars, lifeVars, Up
<1>2. toFire' \subseteq disk.jobs
  BY <1>1 DEF Plan, PlanFire
<1>3. \A i \in toDrop' : \E k \in disk.jobs : k.id = i /\ k.fire_at < pass - Grace
  BY <1>1 DEF Plan, PlanDrop, IsStale
<1>4. /\ faults \in Nat /\ disk.jobs \subseteq Job /\ pass \in Nat
      /\ \A i \in Ids : tries[i] \in Nat /\ late[i] \in Nat
      /\ \A i \in Ids : issued[i] # Unset => issued[i] \in JobSpec
  BY StateFacts
<1>5. \A j \in disk.jobs : j.id \in Ids /\ issued[j.id] # Unset
  BY <1>4, StateFacts, JobFacts DEF QInv, IdsInOrder, Ids
<1>6. \A i : ~Trying(i) /\ ~Trying(i)'
  BY <1>1 DEF Trying
<1>7. InStep' /\ IdsInOrder' /\ AsIssued'
  BY <1>1 DEF QInv, InStep, Agreement, Up, IdsInOrder, AsIssued
<1>8. Clones'
  BY <1>1, <1>2 DEF QInv, Clones, IdsInOrder
<1>9. Spent'
  <2>1. ASSUME NEW j \in disk.jobs, Budget(issued[j.id]) >= 0
        PROVE  /\ Budget(j) >= 0
               /\ tries[j.id] + Budget(j) <= Budget(issued[j.id]) + faults
               /\ tries[j.id] <= Budget(issued[j.id]) + faults
    BY <1>4, <1>5, <1>6, <2>1, JobFacts, SpecFacts DEF QInv, Spent
  <2>2. RetryBudget'
    BY <1>1 DEF QInv, Spent, RetryBudget
  <2>3. \A j \in disk.jobs : Budget(issued[j.id]) >= 0 =>
          tries[j.id] + Budget(j)
            <= Budget(issued[j.id]) + faults + (IF Trying(j.id)' THEN 1 ELSE 0)
    BY <1>4, <1>5, <1>6, <2>1, JobFacts, SpecFacts
  <2>4. \A k \in toFire' : Budget(issued[k.id]) >= 0 =>
          tries[k.id] <= Budget(issued[k.id]) + faults
    BY <1>2, <2>1
  <2>5. \A j \in disk.jobs : Budget(issued[j.id]) >= 0 => Budget(j) >= 0
    BY <2>1
  <2> QED
    BY <1>1, <2>2, <2>3, <2>4, <2>5 DEF Spent
<1>a. TakenAway'
  <2>1. ASSUME NEW j \in disk.jobs
        PROVE  late[j.id] = 0
    <3>1. j.id \in Live
      BY DEF Live, IdsIn
    <3> QED
      BY <1>4, <1>5, <3>1 DEF QInv, TakenAway
  <2> QED
    BY <1>1, <1>2, <2>1 DEF QInv, TakenAway, LateAtMostOnce, Live
<1>b. SnapOnce'
  BY <1>1, <1>2, <1>6 DEF QInv, SnapOnce, RetryNeverResumed
<1>c. NoneLost'
  BY <1>1 DEF QInv, NoneLost, Accounted, Live
<1>d. Stale'
  <2> SUFFICES ASSUME NEW i \in toDrop'
               PROVE  /\ i <= disk.next_id
                      /\ \A j \in disk.jobs : j.id = i => j.fire_at + Grace < pass
    BY <1>1 DEF Stale
  <2>1. PICK k \in disk.jobs : k.id = i /\ k.fire_at < pass - Grace
    BY <1>3
  <2>2. k.fire_at + Grace < pass
    BY <1>4, <2>1, JobFacts, QueueConstants
  <2> QED
    BY <2>1, <2>2 DEF QInv, IdsInOrder
<1> QED
  BY <1>7, <1>8, <1>9, <1>a, <1>b, <1>c, <1>d DEF QInv

LEMMA DropKeeps ==
  ASSUME TypeOK, QInv, DropStale
  PROVE  QInv'
<1>1. /\ issued' = issued /\ endedBy' = endedBy /\ now' = now
      /\ tries' = tries /\ late' = late /\ pass' = pass /\ toFire' = toFire /\ toDrop' = {}
      /\ pc = "drop" /\ pc' = "fire" /\ mem = disk
  BY MemIsDisk DEF DropStale, tryVars, lifeVars, Up
<1>2. PICK failed \in SUBSET (toDrop \cap IdsIn(mem.jobs)) :
        /\ faults' = IF failed = {} THEN faults ELSE faults + 1
        /\ disk' = [mem EXCEPT !.jobs =
                      {j \in @ : j.id \notin toDrop \/ j.id \in failed}]
        /\ mem' = disk'
  BY DEF DropStale
<1>3. /\ disk'.next_id = disk.next_id
      /\ disk'.jobs = {j \in disk.jobs : j.id \notin toDrop \/ j.id \in failed}
  BY <1>1, <1>2 DEF TypeOK, Queue
<1>4. /\ faults \in Nat /\ disk.jobs \subseteq Job /\ pass \in Nat /\ now \in Nat
      /\ \A i \in Ids : tries[i] \in Nat
      /\ \A i \in Ids : issued[i] # Unset => issued[i] \in JobSpec
  BY StateFacts
<1>5. faults' \in Nat /\ faults' >= faults
  BY <1>2, <1>4
<1>6. \A j \in disk.jobs : j.id \in Ids /\ issued[j.id] # Unset
  BY <1>4, StateFacts, JobFacts DEF QInv, IdsInOrder, Ids
<1>7. \A i : ~Trying(i) /\ ~Trying(i)'
  BY <1>1 DEF Trying
<1>8. InStep' /\ IdsInOrder' /\ AsIssued' /\ Clones' /\ Stale'
  BY <1>1, <1>2, <1>3 DEF QInv, InStep, Agreement, Up, IdsInOrder, AsIssued, Clones, Stale
<1>9. Spent'
  <2>1. ASSUME NEW j \in disk.jobs, Budget(issued[j.id]) >= 0
        PROVE  /\ Budget(j) >= 0
               /\ tries[j.id] + Budget(j) <= Budget(issued[j.id]) + faults'
    BY <1>4, <1>5, <1>6, <1>7, <2>1, JobFacts, SpecFacts DEF QInv, Spent
  <2>2. ASSUME NEW k \in toFire, Budget(issued[k.id]) >= 0
        PROVE  tries[k.id] <= Budget(issued[k.id]) + faults'
    <3>1. k.id \in Ids /\ issued[k.id] # Unset
      BY StateFacts, JobFacts DEF TypeOK, QInv, Clones, IdsInOrder, Ids
    <3> QED
      BY <1>4, <1>5, <2>2, <3>1, SpecFacts DEF QInv, Spent
  <2>3. ASSUME NEW i \in Ids, issued[i] # Unset, Budget(issued[i]) >= 0
        PROVE  tries[i] <= Budget(issued[i]) + 1 + faults'
    BY <1>4, <1>5, <2>3, SpecFacts DEF QInv, Spent, RetryBudget
  <2>4. RetryBudget'
    BY <1>1, <2>3 DEF RetryBudget
  <2>5. \A j \in disk.jobs : Budget(issued[j.id]) >= 0 =>
          tries[j.id] + Budget(j)
            <= Budget(issued[j.id]) + faults' + (IF Trying(j.id)' THEN 1 ELSE 0)
    BY <1>4, <1>5, <1>6, <1>7, <2>1, JobFacts, SpecFacts
  <2> QED
    BY <1>1, <1>3, <2>1, <2>2, <2>4, <2>5 DEF Spent
<1>a. TakenAway'
  BY <1>1, <1>3 DEF QInv, TakenAway, LateAtMostOnce, Live, IdsIn
<1>b. SnapOnce'
  BY <1>1, <1>3, <1>4, <1>5, <1>7 DEF QInv, SnapOnce, RetryNeverResumed
<1>c. ASSUME NEW i \in Ids, issued[i] # Unset
      PROVE  Accounted(i)'
  <2>1. CASE i \in Live
    <3>1. PICK j \in disk.jobs : j.id = i
      BY <2>1 DEF Live, IdsIn
    <3>2. CASE j \in disk'.jobs
      BY <3>1, <3>2 DEF Accounted, Live, IdsIn
    <3>3. CASE j \notin disk'.jobs
      <4>1. j.id \in toDrop
        BY <1>3, <3>3
      <4>2. j.fire_at + Grace < pass /\ pass <= now
        BY <4>1 DEF QInv, Stale, InStep
      <4>3. tries[i] = 0 => j.fire_at = issued[i].fire_at
        BY <3>1 DEF QInv, AsIssued
      <4>4. tries[i] > 0 \/ now > issued[i].fire_at + Grace
        BY <1>4, <4>2, <4>3, JobFacts, QueueConstants
      <4> QED
        BY <1>1, <4>4 DEF Accounted
    <3> QED
      BY <3>2, <3>3
  <2>2. CASE i \notin Live
    BY <1>1, <1>c, <2>2 DEF QInv, NoneLost, Accounted
  <2> QED
    BY <2>1, <2>2
<1> QED
  BY <1>1, <1>8, <1>9, <1>a, <1>b, <1>c DEF QInv, NoneLost

LEMMA InjectKeeps ==
  ASSUME TypeOK, QInv, Inject
  PROVE  QInv'
<1>1. PICK c \in toFire, o \in Outcomes :
        /\ CanComeTo(c, o)
        /\ cur' = c /\ outcome' = o /\ toFire' = toFire \ {c}
        /\ tries' = [tries EXCEPT ![c.id] = @ + 1]
        /\ late' = [late EXCEPT ![c.id] = @ + (IF endedBy[c.id] = "none" THEN 0 ELSE 1)]
  BY DEF Inject
<1>2. /\ disk' = disk /\ mem' = mem /\ issued' = issued /\ endedBy' = endedBy /\ now' = now
      /\ faults' = faults /\ pass' = pass /\ toDrop' = toDrop
      /\ pc = "fire" /\ pc' = "apply"
  BY DEF Inject, queueVars, lifeVars
<1>3. /\ faults \in Nat /\ disk.jobs \subseteq Job
      /\ \A i \in Ids : tries[i] \in Nat /\ late[i] \in Nat
      /\ \A i \in Ids : issued[i] # Unset => issued[i] \in JobSpec
  BY StateFacts
<1>4. \A j \in disk.jobs : j.id \in Ids /\ issued[j.id] # Unset
  BY <1>3, StateFacts, JobFacts DEF QInv, IdsInOrder, Ids
<1>5. \A k \in toFire : k.id \in Ids /\ issued[k.id] # Unset /\ k \in Job
  BY StateFacts, JobFacts DEF TypeOK, QInv, Clones, IdsInOrder, Ids
<1>6. /\ c.id \in Ids /\ tries'[c.id] = tries[c.id] + 1
      /\ \A i \in Ids : i # c.id => tries'[i] = tries[i] /\ late'[i] = late[i]
  BY <1>1, <1>5 DEF TypeOK
<1>7. late'[c.id] = IF endedBy[c.id] = "none" THEN 0 ELSE 1
  BY <1>1, <1>6 DEF TypeOK, QInv, TakenAway
<1>8. \A k \in toFire' : k \in toFire /\ k.id # c.id
  BY <1>1 DEF QInv, Clones
<1>9. /\ \A i : ~Trying(i)
      /\ Trying(c.id)' /\ \A i \in Ids : i # c.id => ~Trying(i)'
  BY <1>1, <1>2 DEF Trying
<1>a. InStep' /\ Stale'
  BY <1>1, <1>2 DEF QInv, InStep, Agreement, Up, Stale
<1>b. IdsInOrder'
  BY <1>2, <1>5, <1>6, <1>7 DEF QInv, IdsInOrder
<1>c. AsIssued'
  BY <1>2, <1>3, <1>4, <1>6 DEF QInv, AsIssued
<1>d. Clones'
  BY <1>1, <1>2, <1>3, <1>6, <1>8 DEF QInv, Clones
<1>e. Spent'
  <2>1. ASSUME NEW j \in disk.jobs, Budget(issued[j.id]) >= 0
        PROVE  /\ Budget(j) >= 0
               /\ tries'[j.id] + Budget(j)
                    <= Budget(issued[j.id]) + faults + (IF Trying(j.id)' THEN 1 ELSE 0)
    <3>1. Budget(j) >= 0 /\ tries[j.id] + Budget(j) <= Budget(issued[j.id]) + faults
      BY <1>3, <1>4, <1>9, <2>1, JobFacts, SpecFacts DEF QInv, Spent
    <3>2. CASE j.id = c.id
      BY <1>3, <1>4, <1>6, <1>9, <2>1, <3>1, <3>2, JobFacts, SpecFacts
    <3>3. CASE j.id # c.id
      BY <1>3, <1>4, <1>6, <1>9, <2>1, <3>1, <3>3, JobFacts, SpecFacts
    <3> QED
      BY <3>2, <3>3
  <2>2. \A k \in toFire' : Budget(issued[k.id]) >= 0 =>
          tries'[k.id] <= Budget(issued[k.id]) + faults
    BY <1>5, <1>6, <1>8 DEF QInv, Spent
  <2>3. ASSUME NEW i \in Ids, issued[i] # Unset, Budget(issued[i]) >= 0
        PROVE  tries'[i] <= Budget(issued[i]) + 1 + faults
    <3>1. CASE i = c.id
      BY <1>1, <1>3, <1>6, <2>3, <3>1, SpecFacts DEF QInv, Spent
    <3>2. CASE i # c.id
      BY <1>6, <2>3, <3>2 DEF QInv, Spent, RetryBudget
    <3> QED
      BY <3>1, <3>2
  <2>4. RetryBudget'
    BY <1>2, <2>3 DEF RetryBudget
  <2> QED
    BY <1>2, <2>1, <2>2, <2>4 DEF Spent
<1>f. TakenAway'
  BY <1>2, <1>3, <1>5, <1>6, <1>7, <1>8 DEF QInv, TakenAway, LateAtMostOnce, Live
<1>g. SnapOnce'
  <2>1. CASE faults > 0
    BY <1>2, <2>1 DEF SnapOnce
  <2>2. CASE ~(faults > 0)
    <3>1. /\ \A j \in disk.jobs : j.snap => tries[j.id] = 0
          /\ \A k \in toFire : k.snap => tries[k.id] = 0
      BY <1>9, <2>2 DEF QInv, SnapOnce
    <3>2. \A j \in disk.jobs : j.snap => tries'[j.id] = IF Trying(j.id)' THEN 1 ELSE 0
      BY <1>4, <1>6, <1>9, <3>1
    <3>3. \A k \in toFire' : k.snap => tries'[k.id] = 0
      BY <1>5, <1>6, <1>8, <3>1
    <3>4. RetryNeverResumed'
      BY <1>1, <1>6, <3>1 DEF RetryNeverResumed, CanComeTo
    <3> QED
      BY <1>2, <3>2, <3>3, <3>4 DEF SnapOnce
  <2> QED
    BY <2>1, <2>2
<1>h. ASSUME NEW i \in Ids, issued[i] # Unset
      PROVE  Accounted(i)'
  <2>1. tries[i] > 0 => tries'[i] > 0
    BY <1>3, <1>6
  <2> QED
    BY <1>2, <1>h, <2>1 DEF QInv, NoneLost, Accounted, Live
<1> QED
  BY <1>2, <1>a, <1>b, <1>c, <1>d, <1>e, <1>f, <1>g, <1>h DEF QInv, NoneLost

\* What applying an outcome leaves in the queue: the other jobs as they were,
\* and the tried one, if it stays, with one try less and no snapshot.
LEMMA AppliedJobs ==
  ASSUME TypeOK, QInv, pc = "apply", mem = disk
  PROVE  LET next == Applied(cur, outcome) IN
         /\ next.next_id = disk.next_id
         /\ \A j \in disk.jobs : j.id # cur.id => j \in next.jobs
         /\ \A j, k \in next.jobs : j.id = k.id => j = k
         /\ \A j \in next.jobs :
              \/ j \in disk.jobs /\ j.id # cur.id
              \/ /\ cur \in disk.jobs /\ j.id = cur.id
                 /\ j.auto_retry = cur.auto_retry /\ j.snap = FALSE
                 /\ cur.auto_retry /\ cur.retries_left # 0
                 /\ j.retries_left = LeftAfter(cur)
<1> DEFINE next == Applied(cur, outcome)
<1>1. CASE Retries(cur, outcome)
  <2> DEFINE new(j) == IF j.id = cur.id
                         THEN [j EXCEPT !.fire_at = RetryAt(cur, pass),
                                        !.retries_left = LeftAfter(cur), !.snap = FALSE]
                         ELSE j
  <2>1. next.next_id = disk.next_id /\ next.jobs = {new(j) : j \in disk.jobs}
    BY <1>1 DEF Applied, reschedule, TypeOK, Queue
  <2>2. cur.auto_retry /\ cur.retries_left # 0
    BY <1>1 DEF Retries
  <2>3. ASSUME NEW j \in disk.jobs, j.id = cur.id
        PROVE  /\ j = cur /\ new(j).id = cur.id /\ new(j).auto_retry = cur.auto_retry
               /\ new(j).snap = FALSE /\ new(j).retries_left = LeftAfter(cur)
    BY <2>3, StateFacts DEF QInv, Clones, Job
  <2>4. ASSUME NEW j \in disk.jobs, j.id # cur.id
        PROVE  new(j) = j
    BY <2>4
  <2>5. \A j, k \in disk.jobs : new(j).id = new(k).id => j = k
    BY <2>3, <2>4 DEF QInv, IdsInOrder
  <2> HIDE DEF new, next
  <2> QED
    BY <2>1, <2>2, <2>3, <2>4, <2>5 DEF next
<1>2. CASE ~Retries(cur, outcome)
  <2>1. next.next_id = disk.next_id /\ next.jobs = {j \in disk.jobs : j.id # cur.id}
    BY <1>2 DEF Applied, remove, Without, TypeOK, Queue
  <2> QED
    BY <2>1 DEF QInv, IdsInOrder
<1> QED
  BY <1>1, <1>2

LEMMA ApplyKeeps ==
  ASSUME TypeOK, QInv, ApplyOutcome
  PROVE  QInv'
<1> DEFINE next == Applied(cur, outcome)
<1>1. /\ issued' = issued /\ endedBy' = endedBy /\ now' = now /\ tries' = tries
      /\ late' = late /\ pass' = pass /\ toDrop' = toDrop /\ toFire' = toFire
      /\ pc = "apply" /\ pc' = "fire" /\ mem = disk
  BY MemIsDisk DEF ApplyOutcome, tryVars, lifeVars, Up
<1>2. \/ disk' = next /\ mem' = next /\ faults' = faults
      \/ disk' = disk /\ mem' = mem /\ faults' = faults + 1
  BY DEF ApplyOutcome, Saved, SaveFailed
<1>3. /\ faults \in Nat /\ disk.jobs \subseteq Job
      /\ \A i \in Ids : tries[i] \in Nat
      /\ \A i \in Ids : issued[i] # Unset => issued[i] \in JobSpec
  BY StateFacts
<1>4. \A j \in disk.jobs : j.id \in Ids /\ issued[j.id] # Unset
  BY <1>3, StateFacts, JobFacts DEF QInv, IdsInOrder, Ids
<1>5. \A k \in toFire : k.id \in Ids /\ issued[k.id] # Unset
  BY StateFacts, JobFacts DEF TypeOK, QInv, Clones, IdsInOrder, Ids
<1>6. cur.id \in Ids /\ tries[cur.id] > 0
  BY <1>1, StateFacts, JobFacts DEF TypeOK, QInv, Clones, IdsInOrder, Ids
<1>7. \A i : ~Trying(i)' /\ (Trying(i) <=> i = cur.id)
  BY <1>1 DEF Trying
<1>8. faults' \in Nat /\ faults' >= faults
  BY <1>2, <1>3
\* What is on disk afterwards, whether the save landed or not.
<1>9. /\ disk'.next_id = disk.next_id /\ mem' = disk'
      /\ \A j \in disk.jobs : j.id # cur.id => j \in disk'.jobs
      /\ \A j \in disk'.jobs :
           \/ j \in disk.jobs /\ (j.id # cur.id \/ faults' = faults + 1)
           \/ /\ cur \in disk.jobs /\ j.id = cur.id
              /\ j.auto_retry = cur.auto_retry /\ j.snap = FALSE
              /\ cur.auto_retry /\ cur.retries_left # 0
              /\ j.retries_left = LeftAfter(cur)
  BY <1>1, <1>2, AppliedJobs
<1>a. \A j \in disk'.jobs : \E k \in disk.jobs : k.id = j.id /\ k.auto_retry = j.auto_retry
  BY <1>9
<1>b. InStep'
  BY <1>1, <1>9 DEF QInv, InStep, Agreement
<1>c. IdsInOrder'
  <2>1. \A j, k \in disk'.jobs : j.id = k.id => j = k
    BY <1>1, <1>2, AppliedJobs DEF QInv, IdsInOrder
  <2> QED
    BY <1>1, <1>9, <1>a, <2>1 DEF QInv, IdsInOrder
<1>d. AsIssued'
  BY <1>1, <1>6, <1>9 DEF QInv, AsIssued
<1>e. Clones' /\ Stale'
  BY <1>1, <1>9 DEF QInv, Clones, Stale, InStep
<1>f. Spent'
  <2>1. ASSUME NEW j \in disk'.jobs, Budget(issued[j.id]) >= 0
        PROVE  /\ Budget(j) >= 0
               /\ tries[j.id] + Budget(j) <= Budget(issued[j.id]) + faults'
    <3>1. CASE j \in disk.jobs /\ (j.id # cur.id \/ faults' = faults + 1)
      BY <1>3, <1>4, <1>7, <1>8, <2>1, <3>1, JobFacts, SpecFacts DEF QInv, Spent
    <3>2. CASE /\ cur \in disk.jobs /\ j.id = cur.id
               /\ j.auto_retry = cur.auto_retry
               /\ cur.auto_retry /\ cur.retries_left # 0
               /\ j.retries_left = LeftAfter(cur)
      <4>1. /\ Budget(cur) >= 0
            /\ tries[cur.id] + Budget(cur) <= Budget(issued[cur.id]) + faults + 1
        BY <1>7, <2>1, <3>2 DEF QInv, Spent
      <4>2. Budget(cur) > 0 /\ Budget(j) = Budget(cur) - 1
        BY <1>3, <3>2, <4>1, JobFacts DEF Budget, LeftAfter
      <4> QED
        BY <1>3, <1>4, <1>8, <3>2, <4>1, <4>2, JobFacts, SpecFacts
    <3> QED
      BY <1>9, <3>1, <3>2
  <2>2. ASSUME NEW k \in toFire, Budget(issued[k.id]) >= 0
        PROVE  tries[k.id] <= Budget(issued[k.id]) + faults'
    BY <1>3, <1>5, <1>8, <2>2, SpecFacts DEF QInv, Spent
  <2>3. ASSUME NEW i \in Ids, issued[i] # Unset, Budget(issued[i]) >= 0
        PROVE  tries[i] <= Budget(issued[i]) + 1 + faults'
    BY <1>3, <1>8, <2>3, SpecFacts DEF QInv, Spent, RetryBudget
  <2>4. RetryBudget'
    BY <1>1, <2>3 DEF RetryBudget
  <2>5. \A j \in disk'.jobs : Budget(issued[j.id]) >= 0 =>
          tries[j.id] + Budget(j)
            <= Budget(issued[j.id]) + faults' + (IF Trying(j.id)' THEN 1 ELSE 0)
    <3>1. disk'.jobs \subseteq Job
      BY <1>2, AppliedType DEF TypeOK, Queue
    <3>2. \A j \in disk'.jobs : Budget(j) \in Int /\ j.id \in Ids /\ issued[j.id] # Unset
      BY <1>4, <1>a, <3>1, JobFacts
    <3> QED
      BY <1>3, <1>7, <1>8, <2>1, <3>2, SpecFacts
  <2> QED
    BY <1>1, <2>1, <2>2, <2>4, <2>5 DEF Spent
<1>g. TakenAway'
  BY <1>1, <1>a DEF QInv, TakenAway, LateAtMostOnce, Live, IdsIn
<1>h. SnapOnce'
  BY <1>1, <1>2, <1>3, <1>7, <1>8, <1>9 DEF QInv, SnapOnce, RetryNeverResumed
<1>i. ASSUME NEW i \in Ids, issued[i] # Unset
      PROVE  Accounted(i)'
  <2>1. CASE i = cur.id
    BY <1>1, <1>6, <2>1 DEF Accounted
  <2>2. CASE i # cur.id /\ i \in Live
    BY <1>9, <2>2 DEF Accounted, Live, IdsIn
  <2>3. CASE i # cur.id /\ i \notin Live
    BY <1>1, <1>i, <2>3 DEF QInv, NoneLost, Accounted
  <2> QED
    BY <2>1, <2>2, <2>3
<1> QED
  BY <1>1, <1>b, <1>c, <1>d, <1>e, <1>f, <1>g, <1>h, <1>i DEF QInv, NoneLost

LEMMA LoopKeeps ==
  ASSUME TypeOK, QInv, Loop
  PROVE  QInv'
<1>1. now \in Nat /\ pass \in Nat /\ faults \in Nat
  BY StateFacts
<1>2. CASE BeginPass
  <2>1. toDrop = {} /\ toFire = {} /\ mem = disk
    BY <1>2, MemIsDisk DEF BeginPass, QInv, InStep, Up
  <2> QED
    BY <1>1, <1>2, <2>1, EmptyHanded DEF BeginPass, queueVars
<1>3. CASE GoToSleep
  <2>1. toDrop = {} /\ toFire = {} /\ pass <= now /\ mem = disk
    BY <1>3, MemIsDisk DEF GoToSleep, QInv, InStep, Up
  <2> QED
    BY <1>1, <1>3, <2>1, EmptyHanded DEF GoToSleep, queueVars
<1>4. CASE Wake
  <2>1. toDrop = {} /\ toFire = {} /\ mem = disk
    BY <1>4, MemIsDisk DEF Wake, QInv, InStep, Up
  <2> QED
    BY <1>1, <1>4, <2>1, EmptyHanded DEF Wake, queueVars
<1> QED
  BY <1>2, <1>3, <1>4, PlanKeeps, DropKeeps, InjectKeeps, ApplyKeeps DEF Loop

LEMMA NextKeeps ==
  ASSUME TypeOK, QInv, [Next]_vars
  PROVE  QInv'
<1>1. now \in Nat /\ faults \in Nat
  BY StateFacts
<1>2. CASE Tick
  BY <1>1, <1>2, Undisturbed DEF Tick, queueVars
<1>3. CASE Crash
  BY <1>1, <1>3, EmptyHanded DEF Crash
<1>4. CASE Start
  <2>1. toDrop = {} /\ toFire = {} /\ pass <= now /\ pass \in Nat
    BY <1>4, StateFacts DEF Start, QInv, InStep
  <2> QED
    BY <1>1, <1>4, <2>1, EmptyHanded DEF Start
<1>5. CASE UNCHANGED vars
  BY <1>1, <1>5, Undisturbed DEF vars, queueVars
<1> QED
  BY <1>2, <1>3, <1>4, <1>5, ClientKeeps, HandleKeeps, LoopKeeps DEF Next

\* The counter of ids never goes back, on disk.
LEMMA NextIdGrows ==
  ASSUME TypeOK, QInv, [Next]_vars
  PROVE  disk.next_id \in Nat /\ disk'.next_id \in Nat /\ disk'.next_id >= disk.next_id
<1>1. disk.next_id \in Nat /\ disk'.next_id \in Nat
  BY NextType, StateFacts DEF TypeOK, Queue
<1>2. CASE disk' = disk
  BY <1>1, <1>2
<1>3. CASE \E c \in Clients : Handle(c)
  <2>1. PICK c \in Clients : Handle(c)
    BY <1>3
  <2>2. mem = disk
    BY <2>1, MemIsDisk
    DEF Handle, HandleSchedule, HandleList, HandleCancel, HandleReplace, Serving
  <2>3. CASE disk' = disk
    BY <1>2, <2>3
  <2>4. CASE disk' = add(mem, req[c].spec)
    <3>1. disk'.next_id = disk.next_id + 1
      BY <2>2, <2>4 DEF add
    <3> QED
      BY <1>1, <3>1
  <2>5. CASE disk' = remove(mem, req[c].id)
    <3>1. disk \in Queue
      BY DEF TypeOK
    <3>2. disk'.next_id = disk.next_id
      BY <2>2, <2>5, <3>1 DEF remove, Queue
    <3> QED
      BY <1>1, <3>2
  <2>6. CASE disk' = replace(mem, req[c].id, req[c].spec)
    <3>1. disk'.next_id = disk.next_id + 1
      BY <2>2, <2>6 DEF replace
    <3> QED
      BY <1>1, <3>1
  <2> QED
    BY <2>1, <2>3, <2>4, <2>5, <2>6
    DEF Handle, HandleSchedule, HandleList, HandleCancel, HandleReplace, Saved, SaveFailed,
        queueVars
<1>4. CASE DropStale
  <2>1. disk'.next_id = mem.next_id /\ mem = disk
    BY <1>4, MemIsDisk DEF DropStale, TypeOK, Queue, Up
  <2> QED
    BY <1>1, <2>1
<1>5. CASE ApplyOutcome
  <2>1. mem = disk /\ pc = "apply"
    BY <1>5, MemIsDisk DEF ApplyOutcome, Up
  <2>2. Applied(cur, outcome).next_id = disk.next_id
    BY <2>1, AppliedJobs
  <2> QED
    BY <1>1, <1>5, <2>2 DEF ApplyOutcome, Saved, SaveFailed
<1> QED
  BY <1>2, <1>3, <1>4, <1>5
  DEF Next, ClientStep, Schedule, Cancel, List, SendRequest, GiveUp, Receive, Edit, Loop,
      BeginPass, Plan, Inject, GoToSleep, Wake, Tick, Crash, Start, vars, queueVars

\* What a client hears of was accepted, and an accepted id stays accepted.
LEMMA ToldKeeps ==
  ASSUME IInv, [Next]_vars, QInv'
  PROVE  Told'
<1> DEFINE known(r) == r.op \in {"Scheduled", "Replaced"} => r.id <= disk'.next_id
<1>1. disk.next_id \in Nat /\ disk'.next_id \in Nat /\ disk'.next_id >= disk.next_id
  BY NextIdGrows DEF IInv
<1>2. \A i \in Ids : issued[i] # Unset => issued'[i] # Unset
  BY <1>1 DEF IInv, QInv, IdsInOrder, Ids
<1>3. /\ \A c \in Clients : known(rep[c])
      /\ rep \in [Clients -> Response] /\ acked \subseteq Ids
  <2>1. ASSUME NEW c \in Clients, rep[c].op \in {"Scheduled", "Replaced"}
        PROVE  rep[c].id \in Nat
    BY <2>1 DEF IInv, TypeOK, Response
  <2> QED
    BY <1>1, <2>1 DEF IInv, Told, TypeOK
<1>4. known(NoResponse)
  BY DEF NoResponse
<1>5. CASE acked' = acked /\ \A c \in Clients : known(rep'[c])
  BY <1>2, <1>3, <1>5 DEF IInv, Told
<1>6. CASE UNCHANGED <<rep, acked>>
  BY <1>3, <1>5, <1>6
<1>7. ASSUME NEW c \in Clients, Edit(c)
      PROVE  Told'
  BY <1>3, <1>4, <1>5, <1>7 DEF Edit
<1>8. ASSUME NEW c \in Clients, Receive(c)
      PROVE  Told'
  <2>1. \A d \in Clients : known(rep'[d])
    BY <1>3, <1>4, <1>8 DEF Receive
  <2>2. ASSUME NEW i \in acked'
        PROVE  issued'[i] # Unset
    <3>1. CASE i \in acked
      BY <1>2, <1>3, <3>1 DEF IInv, Told
    <3>2. CASE i \notin acked
      <4>1. i = rep[c].id /\ i \in Ids /\ rep[c].op \in {"Scheduled", "Replaced"}
        BY <1>8, <2>2, <3>2 DEF Receive
      <4>2. i <= disk'.next_id
        BY <1>3, <4>1
      <4> QED
        BY <4>1, <4>2 DEF QInv, IdsInOrder
    <3> QED
      BY <3>1, <3>2
  <2> QED
    BY <2>1, <2>2 DEF Told
<1>9. ASSUME NEW c \in Clients, NEW r \in Response, Answer(c, r), known(r)
      PROVE  Told'
  BY <1>3, <1>4, <1>5, <1>9 DEF Answer
<1>a. ASSUME NEW c \in Clients, Handle(c)
      PROVE  Told'
  <2>1. mem = disk
    BY <1>a, MemIsDisk
    DEF IInv, Handle, HandleSchedule, HandleList, HandleCancel, HandleReplace, Serving
  <2>2. mem.jobs \subseteq Job /\ mem.next_id + 1 \in Nat
    BY DEF IInv, TypeOK, Queue
  <2>3. /\ [op |-> "Error"] \in Response
        /\ [op |-> "Jobs", jobs |-> mem.jobs] \in Response
        /\ [op |-> "Cancelled", removed |-> TRUE] \in Response
        /\ [op |-> "Cancelled", removed |-> FALSE] \in Response
        /\ [op |-> "Replaced", id |-> 0] \in Response
        /\ [op |-> "Replaced", id |-> mem.next_id + 1] \in Response
        /\ [op |-> "Scheduled", id |-> mem.next_id + 1] \in Response
    BY <2>2 DEF Response
  <2>4. CASE HandleSchedule(c)
    <3>1. add(mem, req[c].spec).next_id = mem.next_id + 1
      BY DEF add
    <3>2. CASE /\ Saved(add(mem, req[c].spec))
               /\ Answer(c, [op |-> "Scheduled", id |-> mem.next_id + 1])
      <4>1. known([op |-> "Scheduled", id |-> mem.next_id + 1])
        BY <1>1, <3>1, <3>2 DEF Saved
      <4> QED
        BY <1>9, <2>3, <3>2, <4>1
    <3>3. CASE Answer(c, [op |-> "Error"])
      BY <1>9, <2>3, <3>3
    <3> QED
      BY <2>4, <3>1, <3>2, <3>3 DEF HandleSchedule
  <2>5. CASE HandleList(c)
    BY <1>9, <2>3, <2>5 DEF HandleList
  <2>6. CASE HandleCancel(c)
    BY <1>9, <2>3, <2>6 DEF HandleCancel
  <2>7. CASE HandleReplace(c)
    <3> DEFINE q == replace(mem, req[c].id, req[c].spec)
    <3>1. q.next_id = mem.next_id + 1
      BY DEF replace
    <3>2. CASE Saved(q) /\ Answer(c, [op |-> "Replaced", id |-> mem.next_id + 1])
      <4>1. known([op |-> "Replaced", id |-> mem.next_id + 1])
        BY <1>1, <3>1, <3>2 DEF Saved
      <4> QED
        BY <1>9, <2>3, <3>2, <4>1
    <3>3. CASE Answer(c, [op |-> "Error"])
      BY <1>9, <2>3, <3>3
    <3>4. CASE Answer(c, [op |-> "Replaced", id |-> 0])
      <4>1. known([op |-> "Replaced", id |-> 0])
        BY <1>1
      <4> QED
        BY <1>9, <2>3, <3>4, <4>1
    <3> QED
      BY <2>7, <3>1, <3>2, <3>3, <3>4 DEF HandleReplace
  <2> QED
    BY <1>a, <2>4, <2>5, <2>6, <2>7 DEF Handle
<1>b. ASSUME NEW c \in Clients, ClientStep(c)
      PROVE  Told'
  BY <1>6, <1>7, <1>8, <1>b DEF ClientStep, Schedule, Cancel, List, SendRequest, GiveUp
<1>c. CASE Loop \/ Tick \/ Crash \/ Start \/ UNCHANGED vars
  BY <1>6, <1>c DEF Loop, BeginPass, Plan, DropStale, Inject, ApplyOutcome, GoToSleep, Wake,
                    Tick, Crash, Start, vars, ipcVars
<1> QED
  BY <1>a, <1>b, <1>c DEF Next

LEMMA InitInv == Init => IInv
<1> SUFFICES ASSUME Init
             PROVE  IInv
  OBVIOUS
<1>1. TypeOK
  BY InitType
<1>2. disk.jobs = {} /\ disk.next_id = 0 /\ mem = disk /\ toFire = {} /\ toDrop = {}
      /\ pc = "down" /\ pass = 0 /\ now = 0 /\ faults = 0 /\ acked = {}
  BY DEF Init, EmptyQueue
<1>3. InStep /\ AsIssued /\ Clones /\ Stale
  BY <1>2 DEF InStep, Agreement, AsIssued, Clones, Stale
<1>4. IdsInOrder
  BY <1>2, DaemonConstants DEF Init, IdsInOrder, Ids
<1>5. Spent /\ TakenAway /\ SnapOnce /\ NoneLost
  BY <1>2 DEF Init, Spent, RetryBudget, TakenAway, LateAtMostOnce, SnapOnce,
              RetryNeverResumed, NoneLost, Accounted, Live, IdsIn
<1>6. Told
  BY <1>2 DEF Init, Told, NoResponse
<1> QED
  BY <1>1, <1>3, <1>4, <1>5, <1>6 DEF IInv, QInv

\* The invariant is inductive.
THEOREM Inductive == Spec => []IInv
<1>1. IInv /\ [Next]_vars => IInv'
  BY NextType, NextKeeps, ToldKeeps DEF IInv
<1> QED
  BY <1>1, InitInv, PTL DEF Spec

\* Memory and disk never disagree while a daemon runs: a change that could not
\* be saved changed nothing.
THEOREM MemoryMatchesDisk == Spec => []Agreement
<1>1. IInv => Agreement
  BY DEF IInv, QInv, InStep
<1> QED
  BY <1>1, Inductive, PTL

\* No job is injected more often than its budget allows, but for injections
\* that a crash or a failed save left unrecorded.
THEOREM BudgetIsKept == Spec => []RetryBudget
<1>1. IInv => RetryBudget
  BY DEF IInv, QInv, Spent
<1> QED
  BY <1>1, Inductive, PTL

\* A job taken away fires at most once more: no outcome brings it back.
THEOREM NothingIsRevived == Spec => []LateAtMostOnce
<1>1. IInv => LateAtMostOnce
  BY DEF IInv, QInv, TakenAway
<1> QED
  BY <1>1, Inductive, PTL

\* A job a client was told of can always be accounted for.
THEOREM NothingIsLost == Spec => []NoSilentLoss
<1>1. IInv => NoSilentLoss
  BY DEF IInv, QInv, NoneLost, Told, Accounted, NoSilentLoss, TypeOK
<1> QED
  BY <1>1, Inductive, PTL

\* A retry is never taken for the user's own doing.
THEOREM RetriesAreNotResumed == Spec => []RetryNeverResumed
<1>1. IInv => RetryNeverResumed
  BY DEF IInv, QInv, SnapOnce, RetryNeverResumed, TypeOK
<1> QED
  BY <1>1, Inductive, PTL

-----------------------------------------------------------------------------
(***************************************************************************)
(* The daemon implements NudgeJobs: seen on disk, every step accepts a     *)
(* job, swaps one for another, retires some, or changes nothing.           *)
(***************************************************************************)

LEMMA LifeFacts ==
  ASSUME TypeOK, QInv
  PROVE  /\ disk.next_id \in Nat /\ disk.next_id <= MaxId /\ MaxId \in Nat
         /\ Live \subseteq Ids
         /\ \A i \in Live : i <= disk.next_id
BY StateFacts DEF QInv, IdsInOrder, Live, IdsIn, Ids, Job

LEMMA Retires ==
  ASSUME TypeOK, QInv, disk'.next_id = disk.next_id, Live' \subseteq Live
  PROVE  Jobs!Next
<1> DEFINE S == Live \ Live'
<1>1. S \in SUBSET Jobs!Ids /\ \A i \in S : Life[i] = "pending"
  BY LifeFacts DEF Life, Jobs!Ids, Ids
<1>2. Life' = [i \in Jobs!Ids |-> IF i \in S THEN "done" ELSE Life[i]]
  BY LifeFacts DEF Life, Jobs!Ids, Ids
<1> QED
  BY <1>1, <1>2 DEF Jobs!Next, Jobs!Retire

LEMMA Accepts ==
  ASSUME TypeOK, QInv, NEW n \in Ids,
         n = disk.next_id + 1, disk'.next_id = n, Live' = Live \cup {n}
  PROVE  Jobs!Next
<1>1. n \in Jobs!Ids /\ Life[n] = "unborn" /\ \A k \in Jobs!Ids : k < n => Life[k] # "unborn"
  BY LifeFacts DEF Life, Jobs!Ids, Ids
<1>2. \A i \in Ids : Life'[i] = IF i = n THEN "pending" ELSE Life[i]
  BY LifeFacts DEF Life, Ids
<1>3. Life' = [Life EXCEPT ![n] = "pending"]
  BY <1>2 DEF Life
<1> QED
  BY <1>1, <1>3 DEF Jobs!Next, Jobs!Accept, Jobs!IsNext

LEMMA Swaps ==
  ASSUME TypeOK, QInv, NEW old \in Live, NEW n \in Ids,
         n = disk.next_id + 1, disk'.next_id = n, Live' = (Live \ {old}) \cup {n}
  PROVE  Jobs!Next
<1>1. n \in Jobs!Ids /\ Life[n] = "unborn" /\ \A k \in Jobs!Ids : k < n => Life[k] # "unborn"
  BY LifeFacts DEF Life, Jobs!Ids, Ids
<1>2. old \in Jobs!Ids /\ Life[old] = "pending" /\ old # n
  BY LifeFacts DEF Life, Jobs!Ids, Ids
<1>3. Life' = [Life EXCEPT ![old] = "done", ![n] = "pending"]
  BY <1>2, LifeFacts DEF Life, Ids
<1> QED
  BY <1>1, <1>2, <1>3 DEF Jobs!Next, Jobs!Swap, Jobs!IsNext

LEMMA SameLife ==
  ASSUME disk' = disk
  PROVE  Life' = Life
BY DEF Life, Live

\* One step of the daemon is one step of the abstract lives, or none.
LEMMA StepOfLife ==
  ASSUME TypeOK, QInv, [Next]_vars
  PROVE  [Jobs!Next]_Life
<1>1. CASE disk' = disk
  BY <1>1, SameLife
<1>2. ASSUME NEW c \in Clients, Handle(c)
      PROVE  [Jobs!Next]_Life
  <2>1. mem = disk
    BY <1>2, MemIsDisk
    DEF Handle, HandleSchedule, HandleList, HandleCancel, HandleReplace, Serving
  <2>2. disk.next_id \in Nat /\ MaxId \in Nat
    BY StateFacts
  <2>3. CASE disk.next_id < MaxId /\ disk' = add(mem, req[c].spec)
    <3>1. disk.next_id + 1 \in Ids /\ disk'.next_id = disk.next_id + 1
      BY <2>1, <2>2, <2>3 DEF Ids, add
    <3>2. disk'.jobs = disk.jobs \cup {into_job(req[c].spec, disk.next_id + 1)}
      BY <2>1, <2>3 DEF add
    <3>3. into_job(req[c].spec, disk.next_id + 1).id = disk.next_id + 1
      BY DEF into_job
    <3>4. Live' = Live \cup {disk.next_id + 1}
      BY <3>2, <3>3 DEF Live, IdsIn
    <3> QED
      BY <2>2, <3>1, <3>4, Accepts
  <2>4. CASE disk' = remove(mem, req[c].id)
    <3>1. disk'.next_id = disk.next_id /\ disk'.jobs \subseteq disk.jobs
      BY <2>1, <2>4 DEF remove, Without, TypeOK, Queue
    <3> QED
      BY <3>1, Retires DEF Live, IdsIn
  <2>5. CASE /\ disk.next_id < MaxId /\ req[c].id \in Live
             /\ disk' = replace(mem, req[c].id, req[c].spec)
    <3>1. disk.next_id + 1 \in Ids /\ disk'.next_id = disk.next_id + 1
      BY <2>1, <2>2, <2>5 DEF Ids, replace
    <3>2. disk'.jobs = Without(disk.jobs, req[c].id)
                         \cup {into_job(req[c].spec, disk.next_id + 1)}
      BY <2>1, <2>5 DEF replace
    <3>3. into_job(req[c].spec, disk.next_id + 1).id = disk.next_id + 1
      BY DEF into_job
    <3>4. Live' = (Live \ {req[c].id}) \cup {disk.next_id + 1}
      BY <3>2, <3>3 DEF Live, IdsIn, Without
    <3> QED
      BY <2>5, <3>1, <3>4, Swaps
  <2> QED
    BY <1>1, <1>2, <2>1, <2>3, <2>4, <2>5
    DEF Handle, HandleSchedule, HandleList, HandleCancel, HandleReplace, Saved, SaveFailed,
        queueVars, Live
<1>3. CASE DropStale
  <2>1. disk'.next_id = disk.next_id /\ disk'.jobs \subseteq disk.jobs
    BY <1>3, MemIsDisk DEF DropStale, TypeOK, Queue, Up
  <2> QED
    BY <2>1, Retires DEF Live, IdsIn
<1>4. CASE ApplyOutcome
  <2>1. mem = disk /\ pc = "apply"
    BY <1>4, MemIsDisk DEF ApplyOutcome, Up
  <2>2. CASE disk' = Applied(cur, outcome)
    <3>1. disk'.next_id = disk.next_id
      BY <2>1, <2>2, AppliedJobs
    <3>2. \A j \in disk'.jobs : \E k \in disk.jobs : k.id = j.id
      BY <2>1, <2>2, AppliedJobs
    <3> QED
      BY <3>1, <3>2, Retires DEF Live, IdsIn
  <2> QED
    BY <1>1, <1>4, <2>2 DEF ApplyOutcome, Saved, SaveFailed
<1> QED
  BY <1>1, <1>2, <1>3, <1>4
  DEF Next, ClientStep, Schedule, Cancel, List, SendRequest, GiveUp, Receive, Edit, Loop,
      BeginPass, Plan, Inject, GoToSleep, Wake, Tick, Crash, Start, vars, queueVars

\* Every job runs the life NudgeJobs gives it, for any clients, jobs, edits and
\* number of crashes: no id names two jobs, and an ended job never comes back.
THEOREM ImplementsLife == Spec => ImplementsJobs
<1>1. Init => Jobs!Init
  BY DaemonConstants DEF Init, Jobs!Init, Jobs!Ids, Life, Live, IdsIn, EmptyQueue, Ids
<1>2. IInv /\ [Next]_vars => [Jobs!Next]_Life
  BY StepOfLife DEF IInv
<1> QED
  BY <1>1, <1>2, Inductive, PTL DEF Spec, ImplementsJobs, Jobs!Spec

\* The sleep a pass ends in is short enough for every job it was chosen over.
THEOREM SleepsAreShort == Spec => SleepIsShort
<1>1. ASSUME TypeOK, QInv, [Next]_vars, pc = "fire", pc' = "sleep"
      PROVE  /\ wakeAt' <= now + MaxPoll \/ wakeAt' <= now + MinSleep
             /\ \A j \in mem.jobs :
                  wakeAt' <= j.fire_at + (now - pass) \/ wakeAt' <= now + MinSleep
  <2>1. GoToSleep
    BY <1>1 DEF Next, ClientStep, Schedule, Cancel, List, SendRequest, GiveUp, Receive, Edit,
       Handle, HandleSchedule, HandleList, HandleCancel, HandleReplace, Answer,
       Loop, BeginPass, Plan, DropStale, Inject, ApplyOutcome, Wake, Tick, Crash, Start,
       vars, loopVars
  <2>2. now \in Nat /\ pass \in Nat /\ pass <= now /\ MinSleep \in Nat /\ MaxPoll \in Nat
    BY <1>1, StateFacts, DaemonConstants, QueueConstants DEF QInv, InStep
  <2>3. PICK d \in 0 .. MaxPoll :
          /\ \A j \in mem.jobs : d = 0 \/ pass + d <= j.fire_at
          /\ wakeAt' = now + (IF d > MinSleep THEN d ELSE MinSleep)
    BY <2>1 DEF GoToSleep, IsNextWake
  <2>4. \A j \in mem.jobs : j.fire_at \in Nat
    BY <1>1 DEF TypeOK, Queue, Job
  <2> QED
    BY <2>2, <2>3, <2>4
<1> QED
  BY <1>1, Inductive, PTL DEF SleepIsShort, IInv, Spec
=============================================================================
