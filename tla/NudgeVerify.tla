------------------------------ MODULE NudgeVerify ------------------------------
(***************************************************************************)
(* A verified job and its pane, from the snapshot taken when the job is    *)
(* scheduled (target/tmux.rs, locate; verify.rs, capture_baseline) to the  *)
(* gates its injection passes before it types (inject.rs, run_injection).  *)
(*                                                                         *)
(* Every tmux call is a step of its own.  Between any two of them the pane *)
(* may be resized, typed into, closed, or lost with its tmux server, whose *)
(* successor hands the same ids out again; and any call may fail.          *)
(*                                                                         *)
(* A capture shows the pane's text laid out at its size: a fingerprint is  *)
(* the pair, so that a resize always reflows.  What becomes of the message *)
(* once typed is left to the pane; here it was sent.                       *)
(***************************************************************************)
EXTENDS Naturals

CONSTANTS
  Texts,      \* what a pane may show
  Banners,    \* those that show a rate-limit banner, readable or not
  Sizes,      \* the sizes a pane may have
  None,       \* no answer, no stamp, no snapshot, no server
  Retries,    \* the retries the job is scheduled with
  MaxEvents   \* bound: what happens to the pane and its server

ASSUME VerifyConstants ==
  /\ Banners \subseteq Texts
  /\ Retries \in Nat /\ MaxEvents \in Nat
  /\ None \notin Nat /\ None \notin Sizes /\ None \notin [dims : Sizes, text : Texts, size : Sizes]

VARIABLES
  \* The pane the job's id names, on the server that runs now.
  server,   \* which tmux server that is, None when none runs
  born,     \* the servers started so far
  pane,     \* its text and size, and whether the id names a pane at all
  \* The job and the process that works on it.
  pc,
  job,      \* whether to verify, the server stamp, the snapshot, retries left
  before,   \* the size read before a capture
  shot,     \* the screen captured in this try
  outcome,
  \* History, read by the properties only.
  moved,    \* the pane's text was changed since the snapshot's capture
  left,     \* sizes the pane has had and left
  undone,   \* it was brought back to one of them
  raced,    \* the server was lost after this try asked for it
  typed,    \* the server typed to in this try
  events

paneVars == <<server, born, pane>>
workVars == <<job, before, shot, outcome>>
seenVars == <<moved, left, undone, raced, typed, events>>
vars == <<paneVars, pc, workVars, seenVars>>

Pcs == {"locate", "base_dims", "base_screen", "queued", "dims_before", "screen",
        "dims_after", "type", "done"}

Outcomes == {"none", "Sent", "SkippedNoBanner", "SkippedResumed", "ServerRestarted", "Err"}

Pane == [there : BOOLEAN, text : Texts, size : Sizes]

\* What is kept of the pane: the size that was read, and the capture, which is
\* the text at the size the pane had by then.
Baseline == [dims : Sizes, text : Texts, size : Sizes]

Job == [verify : BOOLEAN, stamp : Nat \cup {None}, base : Baseline \cup {None},
        retries_left : Nat]

\* A screen at fire time; `moved` is history.
Shot == [text : Texts, size : Sizes, moved : BOOLEAN]

TypeOK ==
  /\ server \in Nat \cup {None} /\ born \in Nat
  /\ pane \in Pane
  /\ pc \in Pcs
  /\ job \in Job
  /\ before \in Sizes \cup {None}
  /\ pc = "base_screen" => before # None
  /\ shot \in Shot
  /\ outcome \in Outcomes
  /\ moved \in BOOLEAN /\ undone \in BOOLEAN /\ raced \in BOOLEAN
  /\ left \subseteq Sizes
  /\ typed \in Nat \cup {None}
  /\ events \in Nat

Init ==
  /\ server = 0 /\ born = 0
  /\ pane \in [there : {TRUE}, text : Texts, size : Sizes]
  /\ pc = "locate"
  /\ job \in [verify : BOOLEAN, stamp : {None}, base : {None}, retries_left : {Retries}]
  /\ before = None /\ outcome = "none"
  /\ shot = [text |-> pane.text, size |-> pane.size, moved |-> FALSE]
  /\ moved = FALSE /\ left = {} /\ undone = FALSE /\ raced = FALSE /\ typed = None
  /\ events = 0

\* Inside run_injection, past the question for the server.
Trying == pc \in {"dims_before", "screen", "dims_after", "type"}

-----------------------------------------------------------------------------
(***************************************************************************)
(* What tmux answers.                                                      *)
(***************************************************************************)

\* A plausible slip: the empty fields tmux prints for a missing pane read as 0.
BugDims == {None} \cup (IF pane.there THEN {pane.size} ELSE {0})

\* dims: nothing when the call fails, or the pane is gone.
Dims == {None} \cup (IF pane.there THEN {pane.size} ELSE {})

Recency(base, text, size, dims) ==
  IF base = None \/ dims = None THEN "Unknown"
  ELSE IF dims # base.dims THEN "Unknown"
  ELSE IF base.text = text /\ base.size = size THEN "Unchanged" ELSE "Changed"

\* A plausible slip: the size is read once, before the capture.
BugReadOnce(dims_before, dims_after) == dims_before

\* One size on both sides of the capture, or none to go by.
Agreed(dims_before, dims_after) ==
  IF dims_before = dims_after THEN dims_before ELSE None

-----------------------------------------------------------------------------
(***************************************************************************)
(* Scheduling.                                                             *)
(***************************************************************************)

\* The stamp comes in the answer that gives the id; an old tmux has none.
Locate ==
  /\ pc = "locate"
  /\ pane.there
  /\ \E stamp \in {server, None} : job' = [job EXCEPT !.stamp = stamp]
  /\ pc' = IF job.verify THEN "base_dims" ELSE "queued"
  /\ UNCHANGED <<paneVars, before, shot, outcome, seenVars>>

\* capture_baseline: a size that cannot be read means no snapshot.
BaseDims ==
  /\ pc = "base_dims"
  /\ before' \in Dims
  /\ pc' = IF before' = None THEN "queued" ELSE "base_screen"
  /\ UNCHANGED <<paneVars, job, shot, outcome, seenVars>>

BaseScreen ==
  /\ pc = "base_screen"
  /\ \/ UNCHANGED job
     \/ /\ pane.there
        /\ job' = [job EXCEPT !.base =
                     [dims |-> before, text |-> pane.text, size |-> pane.size]]
  /\ moved' = FALSE
  /\ before' = None
  /\ pc' = "queued"
  /\ UNCHANGED <<paneVars, shot, outcome, left, undone, raced, typed, events>>

-----------------------------------------------------------------------------
(***************************************************************************)
(* run_injection.                                                          *)
(***************************************************************************)
Finish(o) ==
  /\ outcome' = o
  /\ pc' = "done"

\* A plausible slip: an id that names a pane is taken at its word.
BugRestarted(stamp) == stamp # None /\ ~pane.there /\ server # stamp

\* No server at all counts as restarted.
Restarted(stamp) == stamp # None /\ server # stamp

AskServer ==
  /\ pc = "queued"
  /\ \/ /\ job.stamp # None
        /\ Finish("Err")
     \/ /\ Restarted(job.stamp)
        /\ Finish("ServerRestarted")
     \/ /\ ~Restarted(job.stamp)
        /\ pc' = IF job.verify THEN "dims_before" ELSE "type"
        /\ UNCHANGED outcome
  /\ raced' = FALSE
  /\ UNCHANGED <<paneVars, job, before, shot, moved, left, undone, typed, events>>

DimsBefore ==
  /\ pc = "dims_before"
  /\ before' \in Dims
  /\ pc' = "screen"
  /\ UNCHANGED <<paneVars, job, shot, outcome, seenVars>>

\* An unreachable pane is an error, never a skip.
Screen ==
  /\ pc = "screen"
  /\ \/ /\ Finish("Err")
        /\ UNCHANGED shot
     \/ /\ pane.there
        /\ shot' = [text |-> pane.text, size |-> pane.size, moved |-> moved]
        /\ pc' = "dims_after"
        /\ UNCHANGED outcome
  /\ UNCHANGED <<paneVars, job, before, seenVars>>

\* The second reading of the size, and the gates: recency, then the banner.
DimsAfter ==
  /\ pc = "dims_after"
  /\ \E after \in Dims :
       LET verdict == Recency(job.base, shot.text, shot.size, Agreed(before, after)) IN
       \/ verdict = "Changed" /\ Finish("SkippedResumed")
       \/ verdict # "Changed" /\ shot.text \notin Banners /\ Finish("SkippedNoBanner")
       \/ verdict # "Changed" /\ shot.text \in Banners /\ pc' = "type" /\ UNCHANGED outcome
  /\ before' = None
  /\ UNCHANGED <<paneVars, job, shot, seenVars>>

\* What the pane shows once typed into is up to its program.
Type ==
  /\ pc = "type"
  /\ \/ /\ Finish("Err")
        /\ UNCHANGED <<pane, typed>>
     \/ /\ pane.there
        /\ \E t \in Texts : pane' = [pane EXCEPT !.text = t]
        /\ typed' = server
        /\ Finish("Sent")
  /\ UNCHANGED <<server, born, job, before, shot, moved, left, undone, raced, events>>

\* reschedule: the snapshot goes, nudge having typed since.
Retried == [job EXCEPT !.retries_left = @ - 1, !.base = None]

Retry ==
  /\ pc = "done"
  /\ outcome \in {"Sent", "Err"}
  /\ job.retries_left > 0
  /\ job' = Retried
  /\ outcome' = "none"
  /\ typed' = None
  /\ before' = None
  /\ pc' = "queued"
  /\ UNCHANGED <<paneVars, shot, moved, left, undone, raced, events>>

-----------------------------------------------------------------------------
(***************************************************************************)
(* The pane's own life.                                                    *)
(***************************************************************************)
Happens ==
  /\ events < MaxEvents
  /\ events' = events + 1
  /\ UNCHANGED <<pc, workVars, typed>>

\* The pane has size s from here on.
Sized(s) ==
  /\ left' = IF s = pane.size THEN left ELSE left \cup {pane.size}
  /\ undone' = (undone \/ (s # pane.size /\ s \in left))

Resize ==
  /\ Happens
  /\ pane.there
  /\ \E s \in Sizes \ {pane.size} :
       /\ pane' = [pane EXCEPT !.size = s]
       /\ Sized(s)
  /\ UNCHANGED <<server, born, moved, raced>>

\* The user, or the program in the pane by itself.
Touch ==
  /\ Happens
  /\ pane.there
  /\ \E t \in Texts \ {pane.text} : pane' = [pane EXCEPT !.text = t]
  /\ moved' = TRUE
  /\ UNCHANGED <<server, born, left, undone, raced>>

Close ==
  /\ Happens
  /\ pane.there
  /\ pane' = [pane EXCEPT !.there = FALSE]
  /\ UNCHANGED <<server, born, moved, left, undone, raced>>

\* The server ends, and another may start; its panes take the ids again.
Restart ==
  /\ Happens
  /\ \/ /\ server' = None
        /\ UNCHANGED born
        /\ pane' = [pane EXCEPT !.there = FALSE]
     \/ /\ born' = born + 1
        /\ server' = born'
        /\ pane' \in Pane
  /\ Sized(pane'.size)
  /\ moved' = TRUE
  /\ raced' = (raced \/ Trying)

-----------------------------------------------------------------------------
Program == \/ Locate \/ BaseDims \/ BaseScreen
           \/ AskServer \/ DimsBefore \/ Screen \/ DimsAfter \/ Type \/ Retry

Next == Program \/ Resize \/ Touch \/ Close \/ Restart

Spec == Init /\ [][Next]_vars

-----------------------------------------------------------------------------
(***************************************************************************)
(* Properties.                                                             *)
(***************************************************************************)

\* nudge says "you resumed" only of a pane whose text was changed since the
\* snapshot, and by someone else than nudge; or of one that was resized away
\* and back (verify.rs, capture_baseline; inject.rs, the sizes either side of
\* the capture; queue.rs, reschedule).
NoFalseSkip == outcome = "SkippedResumed" => shot.moved \/ undone

\* A message is typed to the server the job was scheduled on, or to one that
\* took its place after this very try had asked (inject.rs, server_restarted).
RightServer == typed # None /\ job.stamp # None => typed = job.stamp \/ raced

\* inject.rs: "Agreement on both sides is what proves no resize straddled the
\* capture"; verify.rs of the snapshot: "a resize racing this function can only
\* ever produce a baseline that fails open, never one that skips".
ResizesFailOpen == outcome = "SkippedResumed" => shot.moved
=============================================================================
