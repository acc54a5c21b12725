-------------------------------- MODULE NudgeTui --------------------------------
(***************************************************************************)
(* nudge's dashboard (tui/): the model that `update` changes one message   *)
(* at a time, the effects it asks for, run one after another before the    *)
(* next key is read (tui/mod.rs, dispatch_effects), and what they act on:  *)
(* the daemon's job list and tmux's panes, which change meanwhile.         *)
(*                                                                         *)
(* One action is one thing the user can do, whichever keys do it; one      *)
(* effect of `todo` is one call to the daemon or to tmux.  A call may      *)
(* fail, and a reply of the daemon may be lost after the request took      *)
(* effect.  The clock is left to Tick's choice of the intervals that have  *)
(* run out.  Status lines and the help footer are left out, and so is the  *)
(* preview: it comes and goes with the detection read off it.              *)
(***************************************************************************)
EXTENDS NudgeForm

CONSTANTS
  Seeds,        \* job lists the dashboard may find
  PanesOn,      \* the panes each tmux server starts with, in order
  Title,        \* each pane's title, a sequence of letters
  Me,           \* the pane nudge runs in
  Letters,      \* what may be typed into the picker
  Chars,        \* what may be typed into a text
  Readings,     \* what a screen may be read as (detect.rs, Detection)
  ResetAt,      \* the time a banner names
  ManualTimes,  \* the times a typed time may parse to
  Times,        \* these and every other fire time there is
  RetryAt,      \* when the daemon puts a retried job off to
  MaxText,      \* bound: characters of a text
  MaxKeys,      \* bound: keys pressed
  MaxEvents,    \* bound: calls that fail, and changes made by others
  MaxId         \* bound: ids handed out

\* A job of the daemon's, and the job it first was.
Job == [target : Target, messages : Texts, delays : Delays, fire_at : Times,
        flags : SUBSET Flags, retries_left : Int, id : Nat \ {0}, origin : Nat \ {0}]

\* The pane a stamped target names was one of that tmux server's.
StampTrue(t) ==
  t.server # None =>
    /\ t.server \in DOMAIN PanesOn
    /\ \E i \in DOMAIN PanesOn[t.server] : PanesOn[t.server][i] = t.pane

ASSUME TuiConstants ==
  /\ Me \in Nat /\ Chars \subseteq char_class
  /\ PanesOn \in Seq(Seq(Nat \ {0})) /\ PanesOn # <<>>
  /\ Times \subseteq Nat /\ ManualTimes \cup {ResetAt, RetryAt} \subseteq Times
  /\ Readings \subseteq {"Reset", "None", "Unreadable", "Elapsed"} /\ "None" \in Readings
  /\ MaxText \in Nat /\ MaxKeys \in Nat /\ MaxEvents \in Nat /\ MaxId \in Nat

ASSUME TitlesAreText ==
  \A s \in DOMAIN PanesOn : \A i \in DOMAIN PanesOn[s] : Title[PanesOn[s][i]] \in Seq(STRING)

ASSUME SeedsAreQueues ==
  /\ Seeds \subseteq Seq(Job)
  /\ \A q \in Seeds : \A k \in DOMAIN q :
       /\ q[k].origin = q[k].id /\ q[k].id <= MaxId /\ StampTrue(q[k].target)
       /\ \A j \in DOMAIN q : j < k => q[j].id < q[k].id

VARIABLES
  \* The program (tui/model.rs, Model).
  tab,           \* Jobs or NewNudge
  jobs,          \* the jobs last read
  seen,          \* the tmux server read with them (positions.server)
  selected,      \* the row of `jobs` the cursor is on, from 1
  form,
  pane_server,   \* the tmux server form.panes was read from
  after_submit,  \* where a successful submit lands
  pending,       \* the spec being submitted
  summary,       \* what is printed after the dashboard quits
  quit,
  todo,          \* the effects not run yet
  \* What it acts on.
  queue,         \* the daemon's jobs, each with the job it first was
  last_id,       \* the last id handed out
  tmux,          \* the server running, and its panes in order
  \* History, read by the properties only, and the bounds.
  opened,        \* the job being edited, as it was when `e` was pressed
  touched,       \* the fields the user has changed since
  keys, events

modelVars == <<tab, jobs, seen, selected, pane_server, after_submit, pending, summary, quit>>
worldVars == <<queue, last_id, tmux, events>>
history   == <<opened, touched>>
ghosts    == <<history, keys>>
vars      == <<modelVars, form, todo, worldVars, ghosts>>

Poll == [do |-> "PollJobs"]
List == [do |-> "ListPanes"]

\* The first frame is primed with the jobs and the panes.
Primed == <<Poll, List>>

Init ==
  /\ tab = "NewNudge" /\ form = fresh /\ after_submit = "Quit"
  /\ jobs = <<>> /\ seen = None /\ selected = 1 /\ pane_server = None
  /\ pending = None /\ summary = None /\ quit = FALSE
  /\ todo = Primed
  /\ queue \in Seeds
  /\ last_id = IF queue = <<>> THEN 0 ELSE queue[Len(queue)].id
  /\ tmux = [server |-> 1, order |-> PanesOn[1]]
  /\ opened = None /\ touched = {} /\ keys = 0 /\ events = 0

-----------------------------------------------------------------------------
(***************************************************************************)
(* Keys.  Each is read with nothing left to do.                            *)
(***************************************************************************)
Idle     == ~quit /\ todo = <<>>
Key      == Idle /\ keys < MaxKeys /\ keys' = keys + 1
OnJobs   == Key /\ tab = "Jobs"
OnForm   == Key /\ tab = "NewNudge" /\ form.picker.nav = None
OnPicker == Key /\ tab = "NewNudge" /\ form.picker.nav # None

\* A field of an edited job is the user's once they change it.
Touch(field) == /\ touched' = IF form.editing = 0 THEN touched ELSE touched \cup {field}
                /\ opened' = opened

Field == IF form.focus = "message" THEN "message" ELSE "when"

\* The capture of the pane in view, if there is one.
capture_selected(f) ==
  IF active_pane(f) = None THEN <<>>
  ELSE <<[do |-> "CapturePane", pane |-> active_pane(f).target]>>

Recapture(f) == form' = Uncaptured(f) /\ todo' = capture_selected(f)

\* A key that only changes the form.
Becomes(f) == form' = f /\ UNCHANGED <<modelVars, todo, worldVars>>

Quit ==
  /\ Key
  /\ quit' = TRUE
  /\ UNCHANGED <<tab, jobs, seen, selected, pane_server, after_submit, pending, summary>>
  /\ UNCHANGED <<form, todo, worldVars, history>>

\* 250 ms without a key: the jobs and the preview are read again when due.
Tick ==
  /\ Idle
  /\ \E poll, stale \in BOOLEAN :
       LET shown == tab = "NewNudge" /\ selected_pane(form) # None /\ (stale \/ ~form.captured)
       IN /\ todo' = (IF poll THEN <<Poll>> ELSE <<>>)
                       \o (IF shown THEN capture_selected(form) ELSE <<>>)
          /\ form' = IF shown THEN Uncaptured(form) ELSE form
  /\ UNCHANGED <<modelVars, worldVars, ghosts>>

-----------------------------------------------------------------------------
(* The form: moving about. *)

LeaveForm ==
  /\ OnForm
  /\ tab' = "Jobs" /\ form' = [form EXCEPT !.op = None]
  /\ UNCHANGED <<jobs, seen, selected, pane_server, after_submit, pending, summary, quit>>
  /\ UNCHANGED <<todo, worldVars, history>>

MoveFocus(d) == OnForm /\ Becomes(move_focus(form, d)) /\ UNCHANGED history

\* A key of Insert, and of Normal with no operator pending.
Inserting  == OnForm /\ form.nav = "Insert"
Commanding == OnForm /\ form.nav = "Normal" /\ form.op = None

Esc == Inserting /\ Becomes(EscInsert(form)) /\ UNCHANGED history

EnterInsert(at) == Commanding /\ Becomes(enter_insert(form, at)) /\ UNCHANGED history

ArrowInsert(d) ==
  /\ Inserting /\ IsText(form)
  /\ Becomes(IF d = 1 THEN cursor_right_insert(form) ELSE cursor_left(form))
  /\ UNCHANGED history

Motion(m) ==
  /\ Commanding /\ IsText(form)
  /\ Becomes([form EXCEPT !.cursor = MotionTo(form, m)])
  /\ UNCHANGED history

(* The form: changing it. *)

Type(ch) ==
  /\ Inserting /\ (IsText(form) \/ form.focus = "when")
  /\ text_len(form) < MaxText
  /\ Becomes(TypeChar(form, ch)) /\ Touch(Field)

Backspace ==
  /\ Inserting /\ IsText(form)
  /\ Becomes(backspace(form)) /\ Touch(Field)

Delete(k) ==
  /\ Commanding /\ IsText(form)
  /\ Becomes(DeleteKey(form, k)) /\ Touch(Field)

Operator(o) ==
  /\ Commanding /\ IsText(form)
  /\ Becomes([form EXCEPT !.op = o]) /\ UNCHANGED history

\* The key after an operator is its motion, or cancels it.
Operate(m) ==
  /\ OnForm /\ form.op # None
  /\ Becomes(apply_operator(form, m)) /\ Touch(Field)

CancelOperator ==
  /\ OnForm /\ form.op # None
  /\ Becomes([form EXCEPT !.op = None]) /\ UNCHANGED history

Toggle ==
  /\ OnForm /\ form.focus \in Flags /\ form.op = None
  /\ Becomes(toggle_flag(form)) /\ Touch(form.focus)

\* A plausible slip: the pane changes and its banner is not read again.
BugChangePane(d) ==
  /\ form.focus = "pane" /\ form.panes # <<>>
  /\ form' = [form EXCEPT !.pane_idx = wrap_index(@, d, Len(form.panes))]
  /\ UNCHANGED todo

ChangePane(d) ==
  /\ form.focus = "pane" /\ form.panes # <<>>
  /\ Recapture([form EXCEPT !.pane_idx = wrap_index(@, d, Len(form.panes))])

ChangeWhen ==
  /\ form.focus = "when"
  /\ LET f == [form EXCEPT !.when = cycle_when(form)]
     IN IF f.when = "Auto" THEN Recapture(f) ELSE form' = f /\ UNCHANGED todo

change_value(d) ==
  /\ OnForm /\ form.op = None /\ ~IsText(form)
  /\ ChangePane(d) \/ ChangeWhen
  /\ Touch(form.focus)
  /\ UNCHANGED <<modelVars, worldVars>>

-----------------------------------------------------------------------------
(* The form: submitting it. *)

\* The fire time a submit may read off the form; a typed time need not parse.
FireTime(at) ==
  \/ form.when = "Keep" /\ at = form.carried.fire_at
  \/ form.when = "Auto" /\ HasReset(form) /\ at = form.detected.at
  \/ form.when = "Manual" /\ ~IsBlank(form.manual) /\ at \in ManualTimes

\* A plausible slip: a job is stamped with the server of the last poll.
BugStamp == seen

Stamp == pane_server

Accepted(after) ==
  \E at \in Times :
    /\ selected_pane(form) # None /\ FireTime(at)
    /\ LET spec == build_spec(form, Stamp, at)
       IN /\ pending' = spec
          /\ IF form.editing = 0
             THEN /\ after_submit' = after
                  /\ todo' = <<[do |-> "Schedule", spec |-> spec]>>
             ELSE /\ after_submit' = "Jobs"
                  /\ todo' = <<[do |-> "Replace", id |-> form.editing, spec |-> spec]>>

Refused ==
  /\ \/ form.when = "Manual"
     \/ form.when = "Auto" /\ ~HasReset(form)
     \/ selected_pane(form) = None
  /\ UNCHANGED <<pending, after_submit, todo>>

\* Enter lands outside the dashboard, ^S on the jobs; Enter on the pane field
\* opens the picker instead.
Submit(after) ==
  /\ OnForm /\ (after = "Quit" => form.focus # "pane")
  /\ Accepted(after) \/ Refused
  /\ form' = IF after = "Quit" THEN [form EXCEPT !.op = None] ELSE form
  /\ UNCHANGED <<tab, jobs, seen, selected, pane_server, summary, quit, worldVars, history>>

-----------------------------------------------------------------------------
(* The picker. *)

Label(p) == <<"%", " ">> \o Title[p.id]   \* "%": a position, which no query spells

pane_labels(panes) == [i \in DOMAIN panes |-> Label(panes[i])]

Opening ==
  /\ OnForm
  /\ \/ form.focus = "pane"
     \/ form.nav = "Insert" /\ ~IsText(form)
     \/ form.nav = "Normal" /\ form.op = None

OpenPicker ==
  /\ Opening
  /\ Recapture([form EXCEPT !.op = None,
                 !.picker = [query |-> <<>>, highlight |-> 1, nav |-> "Insert",
                             matches |-> filter(<<>>, pane_labels(form.panes))]])
  /\ UNCHANGED <<modelVars, worldVars, history>>

\* The preview is taken again only if the pane in view has changed.
Viewing(f) ==
  LET at(g) == IF active_pane(g) = None THEN None ELSE active_pane(g).target
  IN IF at(f) = at(form) THEN form' = f /\ UNCHANGED todo ELSE Recapture(f)

PickMove(d) ==
  /\ OnPicker
  /\ LET p == form.picker  n == Len(p.matches)
     IN Viewing([form EXCEPT !.picker.highlight = IF n = 0 THEN @ ELSE wrap_index(@, d, n)])
  /\ UNCHANGED <<modelVars, worldVars, history>>

\* A plausible slip: the highlight stays where it was in the longer list.
BugFiltered(query) ==
  Viewing([form EXCEPT !.picker.query = query,
                       !.picker.matches = filter(query, pane_labels(form.panes))])

Filtered(query) ==
  Viewing([form EXCEPT !.picker.query = query, !.picker.highlight = 1,
                       !.picker.matches = filter(query, pane_labels(form.panes))])

PickType(c) ==
  /\ OnPicker /\ form.picker.nav = "Insert"
  /\ Filtered(Append(form.picker.query, c))
  /\ UNCHANGED <<modelVars, worldVars, history>>

PickBackspace ==
  /\ OnPicker /\ form.picker.nav = "Insert"
  /\ Filtered(SubSeq(form.picker.query, 1, Pred(Len(form.picker.query))))
  /\ UNCHANGED <<modelVars, worldVars, history>>

PickMode ==
  /\ OnPicker
  /\ Becomes([form EXCEPT !.picker.nav = IF @ = "Insert" THEN "Normal" ELSE "Insert"])
  /\ UNCHANGED history

PickCancel ==
  /\ OnPicker /\ form.picker.nav = "Normal"
  /\ Recapture([form EXCEPT !.picker = closed])
  /\ UNCHANGED <<modelVars, worldVars, history>>

PickEnter ==
  /\ OnPicker
  /\ LET hit == At(form.picker.matches, form.picker.highlight)
     IN /\ Recapture([form EXCEPT !.picker = closed,
                        !.pane_idx = IF hit = None THEN @ ELSE hit])
        /\ IF hit = None THEN UNCHANGED <<opened, touched>> ELSE Touch("pane")
  /\ UNCHANGED <<modelVars, worldVars>>

-----------------------------------------------------------------------------
(* The jobs tab. *)

Select(d) ==
  /\ OnJobs /\ jobs # <<>>
  /\ selected' = IF d = 1 THEN Least(selected + 1, Len(jobs))
                 ELSE IF selected = 1 THEN 1 ELSE selected - 1
  /\ UNCHANGED <<tab, jobs, seen, pane_server, after_submit, pending, summary, quit>>
  /\ UNCHANGED <<form, todo, worldVars, history>>

ToForm ==
  /\ OnJobs
  /\ tab' = "NewNudge"
  /\ todo' = IF form.panes = <<>> THEN <<List>> ELSE <<>>
  /\ UNCHANGED <<jobs, seen, selected, pane_server, after_submit, pending, summary, quit>>
  /\ UNCHANGED <<form, worldVars, history>>

AskPoll ==
  /\ OnJobs /\ todo' = <<Poll>>
  /\ UNCHANGED <<modelVars, form, worldVars, history>>

AskCancel ==
  /\ OnJobs /\ At(jobs, selected) # None
  /\ todo' = <<[do |-> "Cancel", id |-> jobs[selected].id]>>
  /\ UNCHANGED <<modelVars, form, worldVars, history>>

current_server == IF pane_server # None THEN pane_server ELSE seen

from_earlier_server(target, server) ==
  target.server # None /\ server # None /\ target.server # server

\* A job of an earlier tmux server is not opened.
Edit ==
  /\ OnJobs /\ At(jobs, selected) # None
  /\ LET j == jobs[selected]
     IN /\ ~from_earlier_server(j.target, current_server)
        /\ form' = enter_edit(form, j)
        /\ opened' = j /\ touched' = {}
  /\ tab' = "NewNudge"
  /\ UNCHANGED <<jobs, seen, selected, pane_server, after_submit, pending, summary, quit>>
  /\ UNCHANGED <<todo, worldVars>>

-----------------------------------------------------------------------------
(***************************************************************************)
(* Effects (tui/exec.rs), and the messages they come back as.              *)
(***************************************************************************)
Running(what) == ~quit /\ todo # <<>> /\ Head(todo).do = what

Done == todo' = Tail(todo)

Then(more) == todo' = Tail(todo) \o more

Mishap == events < MaxEvents /\ events' = events + 1
Smooth == events' = events

\* Nothing but a status line comes of a call that failed.
Failed == Mishap /\ Done /\ UNCHANGED <<modelVars, form, queue, last_id>>

\* A plausible slip: a list that shrank leaves the cursor below its end.
BugClampSelection(k, list) == k

clamp_selection(k, list) == IF list = <<>> THEN 1 ELSE Least(k, Len(list))

\* What the jobs' panes are shown with; nothing, if tmux cannot list them.
positions ==
  \/ Smooth /\ seen' = tmux.server
  \/ Mishap /\ seen' = None

JobsLoaded ==
  /\ jobs' = queue
  /\ positions
  /\ selected' = clamp_selection(selected, queue)
  /\ Done
  /\ UNCHANGED <<tab, pane_server, after_submit, pending, summary, quit, form, queue, last_id>>

RunPoll ==
  /\ Running("PollJobs")
  /\ JobsLoaded \/ Failed
  /\ UNCHANGED <<tmux, ghosts>>

\* tmux numbers the panes in order; an id stays with its pane.
Listing == [i \in DOMAIN tmux.order |-> [id |-> tmux.order[i], target |-> -i]]

\* The last-active pane of the window nudge's own pane is in, else the first.
\* Which one tmux flags so, if any, and whether it is in that window, is the
\* user's affair.
default_idx(panes, last) ==
  LET at == {i \in DOMAIN panes : panes[i].id = last /\ last # Me}
  IN IF at = {} THEN 1 ELSE Min(at)

\* The form with the panes listed anew and one of them selected.
list(last) == [form EXCEPT !.panes = Listing, !.pane_idx = default_idx(Listing, last)]

PanesLoaded ==
  \E last \in {tmux.order[i] : i \in DOMAIN tmux.order} :
    /\ Smooth
    /\ LET f == list(last)
       IN /\ pane_server' = tmux.server
          /\ form' = IF tab = "NewNudge" THEN Uncaptured(f) ELSE f
          /\ Then(IF tab = "NewNudge" THEN capture_selected(f) ELSE <<>>)

RunList ==
  /\ Running("ListPanes")
  /\ \/ /\ PanesLoaded
        /\ UNCHANGED <<tab, jobs, seen, selected, after_submit, pending, summary, quit>>
        /\ UNCHANGED <<queue, last_id>>
     \/ Failed
  /\ UNCHANGED <<tmux, ghosts>>

\* A pane that cannot be captured reads as one without a banner.
Reading(kind, at) == [kind |-> kind, of |-> at,
                      at |-> IF kind = "Reset" THEN ResetAt ELSE None,
                      id |-> At(tmux.order, -at)]

RunCapture ==
  /\ Running("CapturePane")
  /\ LET at == Head(todo).pane
     IN \E kind \in IF At(tmux.order, -at) = None THEN {"None"} ELSE Readings :
          form' = [form EXCEPT !.detected = Reading(kind, at)]
  /\ Done
  /\ UNCHANGED <<modelVars, queue, last_id, tmux, events, ghosts>>

\* A submit that came through: out of the dashboard, or back to the jobs with
\* the form as new.
finish_submit ==
  /\ pending' = None
  /\ IF after_submit = "Quit"
     THEN /\ summary' = pending /\ quit' = TRUE
          /\ Done
          /\ UNCHANGED <<tab, form>>
     ELSE /\ tab' = "Jobs" /\ form' = fresh
          /\ Then(<<Poll>>)
          /\ UNCHANGED <<summary, quit>>
  /\ UNCHANGED <<jobs, seen, selected, pane_server, after_submit>>

\* The daemon took the request, and its reply is lost.
ReplyLost == Mishap /\ Done /\ UNCHANGED <<modelVars, form>>

JobOf(spec, id, origin) ==
  [target |-> spec.target, messages |-> spec.messages, delays |-> spec.delays,
   fire_at |-> spec.fire_at, flags |-> spec.flags, retries_left |-> spec.retries_left,
   id |-> id, origin |-> origin]

RunSchedule ==
  /\ Running("Schedule")
  /\ \/ /\ last_id < MaxId
        /\ last_id' = last_id + 1
        /\ queue' = Append(queue, JobOf(Head(todo).spec, last_id + 1, last_id + 1))
        /\ (Smooth /\ finish_submit) \/ ReplyLost
     \/ Failed
  /\ UNCHANGED <<tmux, ghosts>>

Live(id) == {k \in DOMAIN queue : queue[k].id = id}

\* Ids name one job each.
Without(id) ==
  IF Live(id) = {} THEN queue
  ELSE LET k == CHOOSE k \in Live(id) : TRUE IN Cut(queue, k - 1, k)

\* A plausible slip: an edit of a job that is gone makes a new one.
BugReplaced(id, spec) ==
  /\ last_id < MaxId
  /\ last_id' = last_id + 1
  /\ queue' = Append(Without(id), JobOf(spec, last_id + 1, opened.origin))

Replaced(id, spec) ==
  /\ Live(id) # {} /\ last_id < MaxId
  /\ last_id' = last_id + 1
  /\ \E k \in Live(id) :
       queue' = Append(Without(id), JobOf(spec, last_id + 1, queue[k].origin))

AlreadyGone(id) ==
  /\ Live(id) = {} /\ Smooth /\ pending' = None /\ Then(<<Poll>>)
  /\ UNCHANGED <<tab, jobs, seen, selected, pane_server, after_submit, summary, quit>>
  /\ UNCHANGED <<form, queue, last_id>>

RunReplace ==
  /\ Running("Replace")
  /\ LET id == Head(todo).id
     IN \/ Replaced(id, Head(todo).spec) /\ ((Smooth /\ finish_submit) \/ ReplyLost)
        \/ AlreadyGone(id)
        \/ Failed
  /\ UNCHANGED <<tmux, ghosts>>

\* Found or not, the jobs are read again.
Cancelled == Smooth /\ Then(<<Poll>>)

RunCancel ==
  /\ Running("Cancel")
  /\ \/ /\ queue' = Without(Head(todo).id)
        /\ Cancelled \/ (Mishap /\ Done)
        /\ UNCHANGED <<modelVars, form, last_id>>
     \/ Failed
  /\ UNCHANGED <<tmux, ghosts>>

-----------------------------------------------------------------------------
(***************************************************************************)
(* The world: the daemon fires and retries jobs, panes close, which moves  *)
(* the positions of those after them, and tmux is started anew.            *)
(***************************************************************************)
Happens == ~quit /\ Mishap

Fire ==
  /\ Happens
  /\ \E k \in DOMAIN queue :
       LET j == queue[k]
       IN \/ queue' = Without(j.id)
          \/ /\ "auto_retry" \in j.flags /\ j.retries_left # 0
             /\ queue' = [queue EXCEPT ![k].fire_at = RetryAt,
                            ![k].retries_left = IF @ > 0 THEN @ - 1 ELSE @]
  /\ UNCHANGED <<modelVars, form, todo, last_id, tmux, ghosts>>

ClosePane ==
  /\ Happens
  /\ \E k \in DOMAIN tmux.order :
       /\ tmux.order[k] # Me
       /\ tmux' = [tmux EXCEPT !.order = Cut(@, k - 1, k)]
  /\ UNCHANGED <<modelVars, form, todo, queue, last_id, ghosts>>

RestartTmux ==
  /\ Happens
  /\ tmux.server + 1 \in DOMAIN PanesOn
  /\ tmux' = [server |-> tmux.server + 1, order |-> PanesOn[tmux.server + 1]]
  /\ UNCHANGED <<modelVars, form, todo, queue, last_id, ghosts>>

-----------------------------------------------------------------------------
Keys ==
  \/ Quit \/ LeaveForm \/ Esc \/ CancelOperator \/ Toggle \/ Backspace
  \/ \E d \in {-1, 1} : MoveFocus(d) \/ ArrowInsert(d) \/ change_value(d) \/ PickMove(d) \/ Select(d)
  \/ \E at \in {"Here", "After", "End", "Start"} : EnterInsert(at)
  \/ \E m \in Motions : Motion(m)
  \/ \E ch \in Chars : Type(ch)
  \/ \E k \in {"x", "D", "C"} : Delete(k)
  \/ \E o \in {"d", "c"} : Operator(o)
  \/ \E m \in Motions \cup {"line"} : Operate(m)
  \/ \E after \in {"Quit", "Jobs"} : Submit(after)
  \/ OpenPicker \/ PickBackspace \/ PickMode \/ PickCancel \/ PickEnter
  \/ \E c \in Letters : PickType(c)
  \/ ToForm \/ AskPoll \/ AskCancel \/ Edit

Effects == RunPoll \/ RunList \/ RunCapture \/ RunSchedule \/ RunReplace \/ RunCancel

Next == Keys \/ Tick \/ Effects \/ Fire \/ ClosePane \/ RestartTmux

Spec == Init /\ [][Next]_vars

-----------------------------------------------------------------------------
(***************************************************************************)
(* Properties.                                                             *)
(***************************************************************************)
\* Every part of the model holds a value of its kind, the cursor of the jobs
\* tab is on one of them, and the counters stay within their bounds.
TypeOK ==
  /\ tab \in {"Jobs", "NewNudge"} /\ after_submit \in {"Quit", "Jobs"} /\ quit \in BOOLEAN
  /\ jobs \in Seq(Job) /\ queue \in Seq(Job)
  /\ selected \in Nat \ {0} /\ (jobs # <<>> => selected \in DOMAIN jobs)
  /\ pane_server \in Option(Nat) /\ seen \in Option(Nat)
  /\ tmux \in [server : DOMAIN PanesOn, order : Seq(Nat \ {0})]
  /\ FormTyped(form)
  /\ last_id \in 0 .. MaxId /\ keys \in 0 .. MaxKeys /\ events \in 0 .. MaxEvents

\* The modes of the form agree (sync_when_editing, move_focus): a typed time
\* is there only while the When field is Manual, a blank one only while it is
\* being typed, an operator waits only on a text in Normal, and Keep only
\* means something for a job being edited.
FormCoherent ==
  /\ form.manual # <<>> => form.when = "Manual"
  /\ form.when = "Manual" /\ form.manual = <<>> => form.focus = "when" /\ form.nav = "Insert"
  /\ form.op # None => form.nav = "Normal" /\ IsText(form)
  /\ form.when = "Keep" => form.editing # 0
  /\ form.editing = 0 <=> form.carried = None

\* The cursor stands on a character of the focused text, in Insert also past
\* its end: a stale cursor would insert and delete in the wrong place
\* (tui/model.rs leaves it to the consumers to clamp one).
CursorInRange ==
  IsText(form) =>
    form.cursor <= IF form.nav = "Insert" THEN text_len(form) ELSE Pred(text_len(form))

\* Where the cursor is drawn: on a character in Normal, or past the last one in
\* Insert.
drawn_at ==
  Least(form.cursor,
        IF form.nav = "Normal" THEN Pred(text_len(form)) ELSE text_len(form))

\* The cursor drawn in a wrapped text has a column of the field, after the last
\* character too, whatever the field's width (tui/view.rs, wrap_starts), and a
\* row among those shown, each of which the text has, however few there is room
\* for (form_view, which indexes the rows unchecked).
CursorHasColumn ==
  IsText(form) =>
    \A width \in 1 .. MaxText :
      LET starts == wrap_starts(TextOf(form), width)
      IN /\ Column(starts, drawn_at) \in 0 .. width - 1
         /\ \A spare \in 0 .. MaxText :
              LET shown == RowsShown(starts, spare, drawn_at)
              IN /\ Row(starts, drawn_at) \in shown
                 /\ shown \subseteq 0 .. Cardinality(starts) - 1

\* The vim word motions go where vim's do, from every place of the texts in
\* the form (next_word, prev_word).
WordMotions ==
  \A t \in {form.message, form.manual} : \A i \in 0 .. Len(t) :
    next_word(t, i) = VimNextWord(t, i) /\ prev_word(t, i) = VimPrevWord(t, i)

\* The picker offers exactly the panes its query is a subsequence of, best
\* score first, and highlights one of them if there is any (picker_filter), which
\* is among those its list shows, however few rows that has (picker_view); the
\* pane it leaves selected is one of those listed.
PickerOffersMatches ==
  /\ form.panes # <<>> => form.pane_idx \in DOMAIN form.panes
  /\ form.picker.nav # None =>
    LET p == form.picker  labels == pane_labels(form.panes)
    IN /\ {p.matches[r] : r \in DOMAIN p.matches}
            = {i \in DOMAIN labels : IsSubsequence(p.query, labels[i])}
       /\ \A r, q \in DOMAIN p.matches : r < q =>
            score(p.query, labels[p.matches[r]]).total >= score(p.query, labels[p.matches[q]]).total
       /\ p.matches # <<>> =>
            \A h \in 1 .. Len(p.matches) :
              /\ p.highlight \in MatchesShown(Len(p.matches), h, p.highlight)
              /\ MatchesShown(Len(p.matches), h, p.highlight) \subseteq DOMAIN p.matches

\* What a banner is shown to say was read off the pane in view: no reading of
\* one pane is left standing, and submitted, under the name of another
\* (capture_selected).  It is read by position: as long as tmux has not
\* renumbered its panes since they were listed, the pane read is that pane.
ShownIsOfActivePane ==
  form.detected # None =>
    /\ active_pane(form) # None
    /\ form.detected.of = active_pane(form).target
    /\ events = 0 => form.detected.id = active_pane(form).id

\* A saved edit changes what the user changed and nothing else, whatever they
\* did in between (enter_edit: "unset stays put"), except that a job with no
\* retries left is given the default budget, and one blank message the default
\* text.  The pane is EditKeepsPane's; a job that keeps it keeps its stamp.
EditKeepsRest ==
  \A k \in DOMAIN todo : todo[k].do = "Replace" =>
    LET s == todo[k].spec
    IN /\ todo[k].id = opened.id
       /\ "when" \notin touched => s.fire_at = opened.fire_at
       /\ "message" \notin touched =>
            \/ s.messages = opened.messages
            \/ /\ Len(opened.messages) = 1 /\ IsBlank(opened.messages[1])
               /\ s.messages = <<DefaultText>>
       /\ \A f \in Flags \ touched : f \in s.flags <=> f \in opened.flags
       /\ s.delays = opened.delays
       /\ s.target.pane = opened.target.pane => s.target = opened.target
       /\ "auto_retry" \in s.flags /\ opened.retries_left # 0 => s.retries_left = opened.retries_left

\* However often an edit is saved, with replies lost and the list refreshed
\* under it, one job at most comes of the one it was opened on.
EditNotDoubled ==
  \A j, k \in DOMAIN queue : queue[j].origin = queue[k].origin => j = k

\* A job's stamp is true: the pane it names was one of that tmux server's, so
\* the check at fire time compares like with like (build_spec, pane_server).
StampIsTrue == \A k \in DOMAIN queue : StampTrue(queue[k].target)

\* A saved edit leaves the job on its pane, as long as tmux lists it, unless
\* the user picked another: what the comment on PanesLoaded (tui/update.rs)
\* says of a selection, and enter_edit of what is not changed.
EditKeepsPane ==
  \A k \in DOMAIN todo : todo[k].do = "Replace" /\ "pane" \notin touched =>
    \A i \in DOMAIN form.panes :
      opened.target.pane \in {form.panes[i].id, form.panes[i].target} =>
        selected_pane(form) = form.panes[i]
=============================================================================
