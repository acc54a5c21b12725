-------------------------- MODULE NudgeVerify_proofs --------------------------
(***************************************************************************)
(* Proofs about NudgeVerify, for any texts, sizes, retries and number of   *)
(* events.                                                                 *)
(***************************************************************************)
EXTENDS NudgeVerify, TLAPS

-----------------------------------------------------------------------------
(***************************************************************************)
(* Types.                                                                  *)
(***************************************************************************)

LEMMA ProgramType ==
  ASSUME TypeOK, Program
  PROVE  TypeOK'
<1>a. \A x \in Dims : x \in Sizes \cup {None}
  BY DEF Dims, TypeOK, Pane
<1>b. pane.text \in Texts /\ pane.size \in Sizes
  BY DEF TypeOK, Pane
<1>1. CASE Locate
  <2>1. job' \in Job
    BY <1>1 DEF Locate, Job, TypeOK
  <2> QED
    BY <1>1, <2>1 DEF Locate, TypeOK, paneVars, seenVars, Pcs
<1>2. CASE BaseDims
  BY <1>a, <1>2 DEF BaseDims, TypeOK, paneVars, seenVars, Pcs
<1>3. CASE BaseScreen
  <2>1. before \in Sizes
    BY <1>3 DEF BaseScreen, TypeOK
  <2>2. [dims |-> before, text |-> pane.text, size |-> pane.size] \in Baseline
    BY <1>b, <2>1 DEF Baseline
  <2>3. job' \in Job
    BY <1>3, <2>2 DEF BaseScreen, Job, TypeOK
  <2> QED
    BY <1>3, <2>3 DEF BaseScreen, TypeOK, paneVars, Pcs
<1>4. CASE AskServer
  BY <1>4 DEF AskServer, TypeOK, Finish, paneVars, Pcs, Outcomes
<1>5. CASE DimsBefore
  BY <1>a, <1>5 DEF DimsBefore, TypeOK, paneVars, seenVars, Pcs
<1>6. CASE Screen
  <2>1. shot' \in Shot
    BY <1>b, <1>6 DEF Screen, TypeOK, Shot
  <2> QED
    BY <1>6, <2>1 DEF Screen, TypeOK, Finish, paneVars, seenVars, Pcs, Outcomes
<1>7. CASE DimsAfter
  BY <1>7 DEF DimsAfter, TypeOK, Finish, paneVars, seenVars, Pcs, Outcomes
<1>8. CASE Type
  <2>1. pane' \in Pane
    BY <1>8 DEF Type, TypeOK, Pane
  <2> QED
    BY <1>8, <2>1 DEF Type, TypeOK, Finish, Pcs, Outcomes
<1>9. CASE Retry
  <2>1. job.retries_left - 1 \in Nat
    BY <1>9 DEF Retry, Job, TypeOK
  <2>2. job' \in Job
    BY <1>9, <2>1 DEF Retry, Retried, Job, TypeOK
  <2> QED
    BY <1>9, <2>2 DEF Retry, TypeOK, paneVars, Pcs, Outcomes
<1> QED
  BY <1>1, <1>2, <1>3, <1>4, <1>5, <1>6, <1>7, <1>8, <1>9 DEF Program

LEMMA PaneType ==
  ASSUME TypeOK, Resize \/ Touch \/ Close \/ Restart
  PROVE  TypeOK'
<1>1. /\ pane' \in Pane
      /\ left' \subseteq Sizes /\ undone' \in BOOLEAN /\ moved' \in BOOLEAN
      /\ raced' \in BOOLEAN
  BY DEF Resize, Touch, Close, Restart, Sized, TypeOK, Pane
<1>2. server' \in Nat \cup {None} /\ born' \in Nat /\ events' \in Nat
  BY DEF Resize, Touch, Close, Restart, Happens, TypeOK
<1>3. UNCHANGED <<pc, workVars, typed>>
  BY DEF Resize, Touch, Close, Restart, Happens
<1> QED
  BY <1>1, <1>2, <1>3 DEF TypeOK, workVars

\* Every variable keeps its type.
THEOREM GatesTyped == Spec => []TypeOK
<1>1. Init => TypeOK
  <2> SUFFICES ASSUME Init
               PROVE  TypeOK
    OBVIOUS
  <2>1. pane \in Pane
    BY DEF Init, Pane
  <2>2. job \in Job
    BY VerifyConstants DEF Init, Job
  <2>3. shot \in Shot
    BY <2>1 DEF Init, Shot, Pane
  <2> QED
    BY <2>1, <2>2, <2>3 DEF Init, TypeOK, Pcs, Outcomes
<1>2. TypeOK /\ [Next]_vars => TypeOK'
  <2>1. ASSUME TypeOK, UNCHANGED vars
        PROVE  TypeOK'
    BY <2>1 DEF TypeOK, vars, paneVars, workVars, seenVars
  <2> QED
    BY <2>1, ProgramType, PaneType DEF Next
<1> QED
  BY <1>1, <1>2, PTL DEF Spec

-----------------------------------------------------------------------------
(***************************************************************************)
(* The inductive invariant.                                                *)
(***************************************************************************)

\* A size the pane has, or had.
Known(s) == s = pane.size \/ s \in left

\* As long as no size came back, the pane is at a size it never left, and what
\* was read of its size is its size or one it left.
Forward ==
  /\ ~undone => pane.size \notin left
  /\ before # None => Known(before)
  /\ job.base # None =>
       /\ Known(job.base.dims) /\ Known(job.base.size)
       /\ job.base.dims = job.base.size \/ job.base.dims \in left

\* A snapshot shows the pane's text until someone, nudge included, changes it.
Shown ==
  job.base # None /\ ~moved /\ outcome # "Sent" => pane.text = job.base.text

\* A screen in hand: its size is the one read before it, or that one was left;
\* and its text is the snapshot's, unless someone changed it.
InHand ==
  pc = "dims_after" =>
    /\ Known(shot.size)
    /\ before # None => before = shot.size \/ before \in left
    /\ job.base # None /\ ~shot.moved => shot.text = job.base.text

\* Outcomes and the server typed to belong to a try that is over.
Over ==
  /\ outcome # "none" => pc = "done"
  /\ typed # None => pc = "done"
  /\ pc \in {"locate", "base_dims", "base_screen"} => job.base = None

\* Past the question, the server is the one the job was scheduled on.
Asked == Trying /\ job.stamp # None => server = job.stamp \/ raced

GInv == Forward /\ Shown /\ InHand /\ Over /\ Asked /\ NoFalseSkip /\ RightServer

-----------------------------------------------------------------------------
(***************************************************************************)
(* The program's steps.                                                    *)
(***************************************************************************)

\* The fields of a job that is changed in one of them, and of a new snapshot.
LEMMA JobFields ==
  ASSUME job \in Job
  PROVE  /\ \A b \in Baseline \cup {None} :
              /\ [job EXCEPT !.base = b].base = b
              /\ [job EXCEPT !.base = b].stamp = job.stamp
         /\ \A s \in Nat \cup {None} :
              /\ [job EXCEPT !.stamp = s].stamp = s
              /\ [job EXCEPT !.stamp = s].base = job.base
         /\ Retried.base = None /\ Retried.stamp = job.stamp
BY DEF Job, Retried

LEMMA SchedulingKeeps ==
  ASSUME TypeOK, GInv, Locate \/ BaseDims \/ BaseScreen
  PROVE  GInv'
<1> USE DEF GInv
<1>1. CASE Locate
  <2>1. job'.base = None /\ job.base = None
    BY <1>1, JobFields DEF Locate, TypeOK, Over
  <2>2. UNCHANGED <<paneVars, before, shot, outcome, seenVars>> /\ pc' \in {"base_dims", "queued"}
        /\ typed = None /\ outcome = "none"
    BY <1>1 DEF Locate, Over
  <2> QED
    BY <2>1, <2>2 DEF paneVars, seenVars, Forward, Known, Shown, InHand, Over, Asked, Trying,
                      NoFalseSkip, RightServer
<1>2. CASE BaseDims
  <2>1. before' = None \/ before' = pane.size
    BY <1>2 DEF BaseDims, Dims
  <2>2. UNCHANGED <<paneVars, job, shot, outcome, seenVars>> /\ pc' \in {"queued", "base_screen"}
        /\ typed = None /\ outcome = "none" /\ job.base = None
    BY <1>2 DEF BaseDims, Over
  <2> QED
    BY <2>1, <2>2 DEF paneVars, seenVars, Forward, Known, Shown, InHand, Over, Asked, Trying,
                      NoFalseSkip, RightServer
<1>3. CASE BaseScreen
  <2> DEFINE b == [dims |-> before, text |-> pane.text, size |-> pane.size]
  <2>1. UNCHANGED <<paneVars, shot, outcome, left, undone, raced, typed>> /\ pc' = "queued"
        /\ before' = None /\ typed = None /\ outcome = "none"
    BY <1>3 DEF BaseScreen, Over
  <2>2. before # None /\ Known(before)
    BY <1>3 DEF BaseScreen, TypeOK, Forward
  <2>3. b \in Baseline
    BY <1>3 DEF BaseScreen, TypeOK, Baseline, Pane
  <2>4. job'.base = None \/ job'.base = b
    <3>1. job.base = None
      BY <1>3 DEF BaseScreen, Over
    <3>2. [job EXCEPT !.base = b].base = b
      BY <2>3, JobFields DEF TypeOK
    <3> QED
      BY <1>3, <3>1, <3>2 DEF BaseScreen
  <2> QED
    BY <2>1, <2>2, <2>4 DEF paneVars, Forward, Known, Shown, InHand, Over, Asked, Trying,
                      NoFalseSkip, RightServer
<1> QED
  BY <1>1, <1>2, <1>3

LEMMA TryKeeps ==
  ASSUME TypeOK, GInv, AskServer \/ DimsBefore \/ Screen \/ Type \/ Retry
  PROVE  GInv'
<1> USE DEF GInv
<1>1. CASE AskServer
  BY <1>1 DEF AskServer, Finish, Restarted, paneVars, Forward, Known, Shown, InHand, Over, Asked,
              Trying, NoFalseSkip, RightServer
<1>2. CASE DimsBefore
  <2>1. before' = None \/ before' = pane.size
    BY <1>2 DEF DimsBefore, Dims
  <2> QED
    BY <1>2, <2>1 DEF DimsBefore, paneVars, seenVars, Forward, Known, Shown, InHand, Over, Asked,
                      Trying, NoFalseSkip, RightServer
<1>3. CASE Screen
  BY <1>3 DEF Screen, Finish, paneVars, seenVars, Forward, Known, Shown, InHand, Over, Asked,
              Trying, NoFalseSkip, RightServer
<1>4. CASE Type
  <2>1. pane'.size = pane.size
    BY <1>4 DEF Type, TypeOK, Pane
  <2>2. outcome' = "Err" => pane' = pane /\ typed' = typed
    BY <1>4 DEF Type, Finish
  <2> QED
    BY <1>4, <2>1, <2>2 DEF Type, Finish, Forward, Known, Shown, InHand, Over, Asked, Trying,
                      NoFalseSkip, RightServer
<1>5. CASE Retry
  <2>1. job'.base = None /\ job'.stamp = job.stamp
    BY <1>5, JobFields DEF Retry, TypeOK
  <2> QED
    BY <1>5, <2>1 DEF Retry, paneVars, Forward, Known, Shown, InHand, Over, Asked, Trying,
                      NoFalseSkip, RightServer
<1> QED
  BY <1>1, <1>2, <1>3, <1>4, <1>5

\* The gates: when both readings of the size agree with the snapshot's and no
\* size came back, snapshot and screen were taken at that one size.
LEMMA GatesKeep ==
  ASSUME TypeOK, GInv, DimsAfter
  PROVE  GInv'
<1> USE DEF GInv
<1>1. UNCHANGED <<paneVars, job, shot, seenVars>> /\ before' = None /\ pc' \in {"type", "done"}
      /\ pc = "dims_after" /\ typed = None /\ outcome = "none"
      /\ outcome' # "Sent" /\ (outcome' # "none" => pc' = "done")
  BY DEF DimsAfter, Finish, Over
<1>2. ASSUME outcome' = "SkippedResumed"
      PROVE  shot.moved \/ undone
  <2>1. PICK after \in Dims :
          Recency(job.base, shot.text, shot.size, Agreed(before, after)) = "Changed"
    BY <1>1, <1>2 DEF DimsAfter, Finish
  <2>2. /\ job.base # None /\ after # None /\ before = after /\ before = job.base.dims
        /\ job.base.text # shot.text \/ job.base.size # shot.size
    BY <2>1 DEF Recency, Agreed
  <2>3. after = pane.size
    BY <2>2 DEF Dims
  <2>4. CASE ~undone
    <3>1. before \notin left
      BY <2>2, <2>3, <2>4 DEF Forward
    <3>2. before = shot.size /\ job.base.dims = job.base.size
      BY <1>1, <2>2, <3>1 DEF InHand, Forward
    <3> QED
      BY <1>1, <2>2, <3>2 DEF InHand
  <2> QED
    BY <2>4
<1>3. NoFalseSkip'
  BY <1>1, <1>2 DEF NoFalseSkip, seenVars
<1> QED
  BY <1>1, <1>3 DEF paneVars, seenVars, Forward, Known, Shown, InHand, Over, Asked, Trying,
                    RightServer

-----------------------------------------------------------------------------
(***************************************************************************)
(* What happens to the pane.                                               *)
(***************************************************************************)
LEMMA PaneKeeps ==
  ASSUME TypeOK, GInv, Resize \/ Touch \/ Close \/ Restart
  PROVE  GInv'
<1> USE DEF GInv
<1>1. UNCHANGED <<pc, job, before, shot, outcome, typed>>
  BY DEF Resize, Touch, Close, Restart, Happens, workVars
<1>2. /\ left \subseteq left' /\ (undone => undone')
      /\ pane'.size = pane.size \/ pane.size \in left'
      /\ (~undone' => pane'.size = pane.size \/ pane'.size \notin left)
      /\ (pane'.size = pane.size => left' = left)
      /\ (pane'.size # pane.size => left' = left \cup {pane.size})
  BY DEF Resize, Touch, Close, Restart, Sized, TypeOK, Pane
<1>3. moved' \/ (moved' = moved /\ pane'.text = pane.text)
  BY DEF Resize, Touch, Close, Restart, TypeOK, Pane
<1>4. (raced => raced') /\ (Trying => server' = server \/ raced')
  <2>1. CASE Restart
    BY <2>1 DEF Restart, TypeOK
  <2>2. CASE raced' = raced /\ server' = server
    BY <2>2
  <2> QED
    BY <2>1, <2>2 DEF Resize, Touch, Close
<1>5. Forward' /\ Shown' /\ InHand' /\ Over'
  BY <1>1, <1>2, <1>3 DEF Forward, Known, Shown, InHand, Over
<1>6. Asked' /\ NoFalseSkip' /\ RightServer'
  BY <1>1, <1>2, <1>4 DEF Asked, Trying, NoFalseSkip, RightServer
<1> QED
  BY <1>5, <1>6

-----------------------------------------------------------------------------
LEMMA GInvHolds == Spec => [](TypeOK /\ GInv)
<1>1. Init => GInv
  BY VerifyConstants DEF Init, GInv, Forward, Known, Shown, InHand, Over, Asked, Trying,
                         NoFalseSkip, RightServer
<1>2. TypeOK /\ GInv /\ [Next]_vars => GInv'
  <2>1. ASSUME GInv, UNCHANGED vars
        PROVE  GInv'
    BY <2>1 DEF vars, paneVars, workVars, seenVars, GInv, Forward, Known, Shown, InHand, Over,
                Asked, Trying, NoFalseSkip, RightServer
  <2> QED
    BY <2>1, SchedulingKeeps, TryKeeps, GatesKeep, PaneKeeps DEF Next, Program
<1> QED
  BY <1>1, <1>2, GatesTyped, PTL DEF Spec

\* A verified job is skipped as resumed only if the pane's text was changed by
\* someone else, or the pane was resized away and back.
THEOREM SkipsAreEarned == Spec => []NoFalseSkip
<1>1. GInv => NoFalseSkip
  BY DEF GInv
<1> QED
  BY <1>1, GInvHolds, PTL

\* A message is typed to the server the job was scheduled on, unless that was
\* replaced within the try.
THEOREM TypedWhereScheduled == Spec => []RightServer
<1>1. GInv => RightServer
  BY DEF GInv
<1> QED
  BY <1>1, GInvHolds, PTL
=============================================================================
