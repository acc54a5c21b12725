----------------------------- MODULE NudgeTui_proofs ------------------------------
(***************************************************************************)
(* Proofs about the dashboard, for any jobs, panes, servers, titles, texts *)
(* and bounds: what its form may be, and that what it asks of the daemon   *)
(* is what the user asked of it.                                           *)
(***************************************************************************)
EXTENDS NudgeTui, NudgeForm_proofs

-----------------------------------------------------------------------------
(***************************************************************************)
(* The inductive invariant.                                                *)
(***************************************************************************)
Capture(at) == [do |-> "CapturePane", pane |-> at]

\* Ids and origins name one job each, and all were handed out.
QueueOK(q, n) ==
  \A k \in DOMAIN q :
    /\ q[k].id <= n /\ q[k].origin <= n /\ StampTrue(q[k].target)
    /\ \A j \in DOMAIN q : (q[j].id = q[k].id \/ q[j].origin = q[k].origin) => j = k

\* The pane was one of that tmux server's.
OfServer(id, server) ==
  server \in DOMAIN PanesOn /\ \E n \in DOMAIN PanesOn[server] : PanesOn[server][n] = id

\* The form is sound in itself, its panes are those of the server it stamps
\* jobs with, and it is faithful to the job it edits.
FormInv(f, server, j, T) ==
  /\ FormOK(f)
  /\ \A i \in DOMAIN f.panes : OfServer(f.panes[i].id, server)
  /\ f.carried # None => StampTrue(f.carried.target)
  /\ f.editing # 0 => j \in Job /\ Faithful(f, j, T)

\* What is shown was read off the pane in view.
ViewOK(f, still) ==
  f.detected # None =>
    /\ active_pane(f) # None
    /\ f.detected.of = active_pane(f).target
    /\ still => f.detected.id = active_pane(f).id

\* What is left to do: never more than these, and a capture is of the pane in
\* view, a replacement of the job being edited.
TodoOK(t, f, j, T) ==
  \/ t \in {<<>>, <<Poll>>, <<List>>, Primed}
  \/ /\ active_pane(f) # None
     /\ \/ t = <<Capture(active_pane(f).target)>>
        \/ t = <<Poll, Capture(active_pane(f).target)>>
  \/ \E s \in JobSpec :
       /\ s.fire_at \in Times /\ StampTrue(s.target)
       /\ \/ t = <<[do |-> "Schedule", spec |-> s]>>
          \/ /\ f.editing # 0 /\ KeepsRest(s, j, T)
             /\ t = <<[do |-> "Replace", id |-> f.editing, spec |-> s]>>
  \/ \E id \in Nat : t = <<[do |-> "Cancel", id |-> id]>>

ModelInv ==
  /\ tab \in {"Jobs", "NewNudge"} /\ after_submit \in {"Quit", "Jobs"} /\ quit \in BOOLEAN
  /\ jobs \in Seq(Job) /\ \A k \in DOMAIN jobs : StampTrue(jobs[k].target)
  /\ selected \in Nat \ {0} /\ (jobs # <<>> => selected \in DOMAIN jobs)
  /\ pane_server \in Option(Nat) /\ seen \in Option(Nat)
  /\ keys \in 0 .. MaxKeys

WorldInv ==
  /\ queue \in Seq(Job) /\ QueueOK(queue, last_id)
  /\ last_id \in 0 .. MaxId /\ events \in 0 .. MaxEvents
  /\ tmux \in [server : DOMAIN PanesOn, order : Seq(Nat \ {0})]
  /\ \A i \in DOMAIN tmux.order : OfServer(tmux.order[i], tmux.server)

ScreenInv ==
  /\ FormInv(form, pane_server, opened, touched)
  /\ events = 0 => form.panes \in {<<>>, Listing}
  /\ ViewOK(form, events = 0)
  /\ TodoOK(todo, form, opened, touched)
  /\ todo \in {<<List>>, Primed} => tab = "NewNudge"

IInv == ModelInv /\ WorldInv /\ ScreenInv

-----------------------------------------------------------------------------
(***************************************************************************)
(* Jobs and queues.                                                        *)
(***************************************************************************)
LEMMA JobsAreEditable ==
  ASSUME NEW j \in Job
  PROVE  Editable(j)
BY TuiConstants DEF Job, Editable

LEMMA JobTyped ==
  ASSUME NEW s \in JobSpec, s.fire_at \in Times, NEW id \in Nat \ {0}, NEW origin \in Nat \ {0}
  PROVE  /\ JobOf(s, id, origin) \in Job
         /\ JobOf(s, id, origin).id = id /\ JobOf(s, id, origin).origin = origin
         /\ JobOf(s, id, origin).target = s.target
<1>1. /\ s.target \in Target /\ s.messages \in Texts /\ s.delays \in Delays
      /\ s.flags \in SUBSET Flags /\ s.retries_left \in Int
  BY DEF JobSpec
<1> DEFINE j == JobOf(s, id, origin)
<1>2. j = [target |-> s.target, messages |-> s.messages, delays |-> s.delays,
           fire_at |-> s.fire_at, flags |-> s.flags, retries_left |-> s.retries_left,
           id |-> id, origin |-> origin]
  BY DEF JobOf
<1>3. j \in Job
  BY <1>1, <1>2 DEF Job
<1>4. j.id = id /\ j.origin = origin /\ j.target = s.target
  BY <1>2
<1> QED
  BY <1>3, <1>4

LEMMA Appended ==
  ASSUME NEW q \in Seq(Job), NEW n \in Nat, QueueOK(q, n),
         NEW j \in Job, j.id = n + 1, j.origin <= n + 1, StampTrue(j.target),
         \A k \in DOMAIN q : q[k].origin # j.origin
  PROVE  Append(q, j) \in Seq(Job) /\ QueueOK(Append(q, j), n + 1)
<1> DEFINE r == Append(q, j)
<1>1. r \in Seq(Job) /\ Len(r) = Len(q) + 1 /\ r[Len(q) + 1] = j
      /\ \A i \in 1 .. Len(q) : r[i] = q[i]
  BY AppendProperties
<1>2. DOMAIN r = 1 .. Len(q) + 1 /\ DOMAIN q = 1 .. Len(q) /\ Len(q) \in Nat
  BY <1>1
<1>3. \A k \in DOMAIN q : q[k].id \in Nat /\ q[k].origin \in Nat /\ q[k].id # n + 1
  <2>1. \A k \in DOMAIN q : q[k] \in Job
    OBVIOUS
  <2>2. \A k \in DOMAIN q : q[k].id \in Nat /\ q[k].origin \in Nat
    BY <2>1 DEF Job
  <2>3. \A k \in DOMAIN q : q[k].id <= n
    BY DEF QueueOK
  <2> QED
    BY <2>2, <2>3
<1>4. j.origin \in Nat
  BY DEF Job
<1> HIDE DEF r
<1>5. ASSUME NEW k \in DOMAIN r
      PROVE  /\ r[k].id <= n + 1 /\ r[k].origin <= n + 1 /\ StampTrue(r[k].target)
             /\ \A i \in DOMAIN r : (r[i].id = r[k].id \/ r[i].origin = r[k].origin) => i = k
  <2>1. CASE k \in DOMAIN q
    <3>1. r[k] = q[k]
      BY <1>1, <1>2, <2>1
    <3>2. r[k].id <= n + 1 /\ r[k].origin <= n + 1 /\ StampTrue(r[k].target)
      BY <1>3, <2>1, <3>1 DEF QueueOK
    <3>3. ASSUME NEW i \in DOMAIN r, r[i].id = r[k].id \/ r[i].origin = r[k].origin PROVE i = k
      <4>1. CASE i \in DOMAIN q
        BY <1>1, <1>2, <2>1, <3>1, <3>3, <4>1 DEF QueueOK
      <4>2. CASE i \notin DOMAIN q
        <5>1. r[i] = j
          BY <1>1, <1>2, <4>2
        <5> QED
          BY <1>3, <2>1, <3>1, <3>3, <5>1
      <4> QED
        BY <4>1, <4>2
    <3> QED
      BY <3>2, <3>3
  <2>2. CASE k \notin DOMAIN q
    <3>1. k = Len(q) + 1 /\ r[k] = j
      BY <1>1, <1>2, <2>2
    <3>2. ASSUME NEW i \in DOMAIN r, r[i].id = r[k].id \/ r[i].origin = r[k].origin PROVE i = k
      <4>1. CASE i \in DOMAIN q
        <5>1. r[i] = q[i]
          BY <1>1, <1>2, <4>1
        <5> QED
          BY <1>3, <3>1, <3>2, <4>1, <5>1
      <4>2. CASE i \notin DOMAIN q
        BY <1>2, <2>2, <4>2
      <4> QED
        BY <4>1, <4>2
    <3> QED
      BY <3>1, <3>2
  <2> QED
    BY <2>1, <2>2
<1> QED
  BY <1>1, <1>5 DEF QueueOK, r

\* A queue without one of its jobs.
LEMMA Removed ==
  ASSUME NEW q \in Seq(Job), NEW n \in Nat, QueueOK(q, n), NEW k \in DOMAIN q
  PROVE  LET r == Cut(q, k - 1, k)
         IN /\ r \in Seq(Job) /\ QueueOK(r, n)
            /\ \A i \in DOMAIN r : r[i].origin # q[k].origin
<1> DEFINE r == Cut(q, k - 1, k)
           at(i) == IF i <= k - 1 THEN i ELSE i + 1
<1>1. k \in 1 .. Len(q) /\ k - 1 \in 0 .. Len(q) /\ k \in 0 .. Len(q) /\ k - 1 < k /\ Len(q) \in Nat
  OBVIOUS
<1>2. /\ r \in Seq(Job) /\ Len(r) = Len(q) - (k - (k - 1))
      /\ \A i \in DOMAIN r : r[i] = q[IF i <= k - 1 \/ k <= k - 1 THEN i ELSE i + (k - (k - 1))]
  BY <1>1, CutIn
<1>3. DOMAIN r = 1 .. Len(q) - 1
  <2>1. k - (k - 1) = 1
    BY <1>1
  <2>2. Len(r) = Len(q) - 1
    BY <1>2, <2>1
  <2> QED
    BY <1>2, <2>2
<1> HIDE DEF r
<1>4. \A i \in DOMAIN r : at(i) \in DOMAIN q /\ at(i) # k /\ r[i] = q[at(i)]
  <2> SUFFICES ASSUME NEW i \in DOMAIN r PROVE at(i) \in DOMAIN q /\ at(i) # k /\ r[i] = q[at(i)]
    OBVIOUS
  <2>1. i \in Nat /\ 1 <= i /\ i <= Len(q) - 1
    BY <1>1, <1>3
  <2>2. (IF i <= k - 1 \/ k <= k - 1 THEN i ELSE i + (k - (k - 1))) = at(i)
    BY <1>1, <2>1
  <2>3. at(i) \in 1 .. Len(q) /\ at(i) # k
    BY <1>1, <2>1
  <2> QED
    BY <1>2, <2>2, <2>3
<1>5. \A i, j \in DOMAIN r : at(i) = at(j) => i = j
  BY <1>1, <1>3
<1> HIDE DEF at
<1>6. QueueOK(r, n)
  BY <1>4, <1>5 DEF QueueOK
<1>7. \A i \in DOMAIN r : r[i].origin # q[k].origin
  BY <1>4 DEF QueueOK
<1> QED
  BY <1>2, <1>6, <1>7 DEF r

LEMMA WithoutOK ==
  ASSUME WorldInv, NEW id
  PROVE  /\ Without(id) \in Seq(Job) /\ QueueOK(Without(id), last_id)
         /\ \A k \in Live(id), i \in DOMAIN Without(id) : Without(id)[i].origin # queue[k].origin
<1>1. queue \in Seq(Job) /\ last_id \in Nat /\ QueueOK(queue, last_id)
  BY TuiConstants DEF WorldInv
<1>2. CASE Live(id) = {}
  BY <1>1, <1>2 DEF Without
<1>3. CASE Live(id) # {}
  <2> DEFINE k == CHOOSE k \in Live(id) : TRUE
  <2>1. k \in Live(id) /\ Without(id) = Cut(queue, k - 1, k)
    BY <1>3 DEF Without
  <2> HIDE DEF k
  <2>2. k \in DOMAIN queue /\ queue[k].id = id
    BY <2>1 DEF Live
  <2>3. \A i \in Live(id) : i = k
    BY <1>1, <2>2 DEF Live, QueueOK
  <2> QED
    BY <1>1, <2>1, <2>2, <2>3, Removed
<1> QED
  BY <1>2, <1>3
-----------------------------------------------------------------------------
(***************************************************************************)
(* What is on the screen.                                                  *)
(***************************************************************************)
LEMMA Joined ==
  ASSUME NEW a, NEW b
  PROVE  /\ <<>> \o <<a>> = <<a>> /\ <<a>> \o <<b>> = <<a, b>>
         /\ <<a>> \o <<>> = <<a>> /\ <<>> \o <<>> = <<>>
<1> DEFINE S == {a, b}
<1>1. <<>> \in Seq(S) /\ <<a>> \in Seq(S) /\ <<b>> \in Seq(S)
  OBVIOUS
<1>2. \A s \in Seq(S) : s \o <<>> = s /\ <<>> \o s = s
  BY ConcatEmptySeq
<1>3. <<a>> \o <<b>> = <<a, b>>
  <2> DEFINE r == <<a>> \o <<b>>
  <2>1. /\ r \in Seq(S) /\ Len(r) = Len(<<a>>) + Len(<<b>>)
        /\ \A i \in 1 .. Len(<<a>>) + Len(<<b>>) :
             r[i] = IF i <= Len(<<a>>) THEN <<a>>[i] ELSE <<b>>[i - Len(<<a>>)]
    BY <1>1, ConcatProperties
  <2>2. Len(<<a>>) = 1 /\ Len(<<b>>) = 1 /\ <<a>>[1] = a /\ <<b>>[1] = b
    OBVIOUS
  <2> HIDE DEF r
  <2>3. Len(r) = 2 /\ r[1] = a /\ r[2] = b
    BY <2>1, <2>2
  <2>4. r = <<r[1], r[2]>>
    BY <2>1, <2>3
  <2> QED
    BY <2>3, <2>4 DEF r
<1> QED
  BY <1>1, <1>2, <1>3

\* An operator pressed, or dropped.
LEMMA OpOK ==
  ASSUME NEW f, FormOK(f), NEW o \in {None, "d", "c"},
         o # None => f.nav = "Normal" /\ IsText(f)
  PROVE  LET g == [f EXCEPT !.op = o] IN FormOK(g) /\ Edits(f, g, "none")
<1> DEFINE g == [f EXCEPT !.op = o]
<1>1. /\ FormTyped(g) /\ Edits(f, g, "none") /\ g.op = o /\ g.nav = f.nav /\ g.cursor = f.cursor
      /\ g.focus = f.focus /\ g.when = f.when /\ g.manual = f.manual /\ g.message = f.message
  BY DEF FormOK, FormTyped, Edits, Option
<1> HIDE DEF g
<1>2. (IsText(g) <=> IsText(f)) /\ text_len(g) = text_len(f)
  BY <1>1 DEF Edits, IsText, IsManual, text_len, TextOf
<1>3. Coherent(g)
  BY <1>1, <1>2 DEF FormOK, Coherent, Edits
<1>4. CursorOn(g)
  BY <1>1, <1>2 DEF FormOK, CursorOn
<1> QED
  BY <1>1, <1>3, <1>4 DEF FormOK, g

\* Two panes of one listing at one position are one pane.
LEMMA PositionNamesPane ==
  ASSUME NEW i \in DOMAIN Listing, NEW j \in DOMAIN Listing, WorldInv,
         Listing[i].target = Listing[j].target
  PROVE  i = j
<1>1. i \in Nat /\ j \in Nat
  BY DEF Listing, WorldInv
<1>2. -i = -j
  BY DEF Listing
<1> QED
  BY <1>1, <1>2

\* A key of the editor, pressed on a field, with nothing left to do.
LEMMA EditorStep ==
  ASSUME IInv, todo = <<>>, NEW g, FormOK(g), NEW field, Edits(form, g, field), form' = g,
         UNCHANGED <<todo, pane_server, tab, tmux, events, opened>>,
         touched \subseteq touched', field \in touched' \cup {"none"} \/ form.editing = 0
  PROVE  ScreenInv'
<1>1. Faithful(form, opened, touched)
  BY DEF IInv, ScreenInv, FormInv, Faithful
<1>2. Faithful(g, opened, touched')
  BY <1>1, EditsFaithful
<1>3. active_pane(g) = active_pane(form)
  BY EditsView
<1>4. FormInv(g, pane_server, opened, touched')
  BY <1>2 DEF IInv, ScreenInv, FormInv, Edits
<1>5. ViewOK(g, events = 0) /\ g.panes = form.panes
  BY <1>3 DEF IInv, ScreenInv, ViewOK, Edits
<1>6. TodoOK(todo, g, opened, touched')
  BY DEF TodoOK
<1>7. Listing' = Listing
  BY DEF Listing
<1> QED
  BY <1>4, <1>5, <1>6, <1>7 DEF IInv, ScreenInv, Primed

\* The same with the view taken again, behind what may be done before it.
LEMMA RecaptureStep ==
  ASSUME IInv, NEW g, FormInv(g, pane_server, opened', touched'), g.panes = form.panes,
         form' = Uncaptured(g), NEW s \in {<<>>, <<Poll>>}, todo' = s \o capture_selected(g),
         UNCHANGED <<pane_server, tab, tmux, events>>
  PROVE  ScreenInv'
<1> DEFINE h == Uncaptured(g)
<1>1. /\ FormTyped(h) /\ Beside(g, h) /\ h.op = g.op /\ h.panes = g.panes
      /\ h.detected = None /\ h.picker = g.picker /\ h.pane_idx = g.pane_idx
  BY DEF FormInv, FormOK, FormTyped, Uncaptured, Beside, Option
<1> HIDE DEF h
<1>2. active_pane(h) = active_pane(g)
  BY <1>1 DEF active_pane
<1>3. FormOK(h)
  BY <1>1, BesideOK DEF FormInv
<1>4. FormInv(h, pane_server, opened', touched')
  <2>1. h.editing # 0 => Faithful(h, opened', touched')
    BY <1>1, BesideFaithful DEF FormInv, Beside
  <2> QED
    BY <1>1, <1>3, <2>1 DEF FormInv, Beside
<1>5. ViewOK(h, events = 0)
  BY <1>1 DEF ViewOK
<1>6. TodoOK(todo', h, opened', touched') /\ todo' \notin {<<List>>, Primed}
  <2>1. CASE active_pane(g) = None
    <3>1. todo' = s
      BY <2>1, Joined DEF capture_selected
    <3>2. Poll # List /\ todo' \in {<<>>, <<Poll>>}
      BY <3>1 DEF Poll, List
    <3>3. todo' \notin {<<List>>, Primed}
      BY <3>2 DEF Primed
    <3> QED
      BY <3>2, <3>3 DEF TodoOK
  <2>2. CASE active_pane(g) # None
    <3> DEFINE c == Capture(active_pane(g).target)
    <3>1. capture_selected(g) = <<c>>
      BY <2>2 DEF capture_selected, Capture
    <3>2. c # List /\ c # Poll
      BY DEF Capture, List, Poll
    <3> HIDE DEF c
    <3>3. todo' = <<c>> \/ todo' = <<Poll, c>>
      BY <3>1, Joined
    <3>4. todo' \notin {<<List>>, Primed}
      BY <3>2, <3>3 DEF Primed
    <3> QED
      BY <1>2, <2>2, <3>3, <3>4 DEF TodoOK, c
  <2> QED
    BY <2>1, <2>2
<1>7. Listing' = Listing
  BY DEF Listing
<1>8. form' = h
  BY DEF h
<1> QED
  BY <1>1, <1>4, <1>5, <1>6, <1>7, <1>8 DEF IInv, ScreenInv
-----------------------------------------------------------------------------
(***************************************************************************)
(* Keys.                                                                   *)
(***************************************************************************)
LEMMA KeyKeeps ==
  ASSUME IInv, Key, UNCHANGED worldVars
  PROVE  WorldInv' /\ todo = <<>> /\ keys' \in 0 .. MaxKeys
<1>1. WorldInv'
  BY DEF IInv, WorldInv, worldVars
<1>2. keys' \in 0 .. MaxKeys
  BY TuiConstants DEF IInv, ModelInv, Key
<1> QED
  BY <1>1, <1>2 DEF Key, Idle

LEMMA ModelKeeps ==
  ASSUME IInv, UNCHANGED modelVars, keys' \in 0 .. MaxKeys
  PROVE  ModelInv'
BY DEF IInv, ModelInv, modelVars

\* A key of the editor that changes none of a job's fields.
LEMMA QuietKey ==
  ASSUME IInv, Key, NEW g, FormOK(g), Edits(form, g, "none"), Becomes(g), UNCHANGED history
  PROVE  IInv'
<1>1. WorldInv' /\ todo = <<>> /\ ModelInv'
  BY KeyKeeps, ModelKeeps DEF Becomes
<1>2. ScreenInv'
  BY <1>1, EditorStep DEF Becomes, modelVars, worldVars, history
<1> QED
  BY <1>1, <1>2 DEF IInv

\* And one that changes the field it is pressed on.
LEMMA EditingKey ==
  ASSUME IInv, Key, NEW g, FormOK(g), Edits(form, g, FieldOf(form)), Becomes(g), Touch(Field)
  PROVE  IInv'
<1>1. WorldInv' /\ todo = <<>> /\ ModelInv'
  BY KeyKeeps, ModelKeeps DEF Becomes
<1>2. FieldOf(form) = Field
  BY DEF FieldOf, Field
<1>3. /\ opened' = opened /\ touched \subseteq touched'
      /\ Field \in touched' \cup {"none"} \/ form.editing = 0
  BY DEF Touch
<1>4. ScreenInv'
  BY <1>1, <1>2, <1>3, EditorStep DEF Becomes, modelVars, worldVars
<1> QED
  BY <1>1, <1>4 DEF IInv

LEMMA FormHere ==
  ASSUME IInv
  PROVE  FormOK(form) /\ FormTyped(form) /\ form.op \in {None, "d", "c"}
         /\ (form.nav = "Insert" => form.op = None)
BY DEF IInv, ScreenInv, FormInv, FormOK, FormTyped, Coherent, Option

LEMMA QuietKeys ==
  ASSUME IInv,
         \/ Esc \/ CancelOperator
         \/ \E d \in {-1, 1} : MoveFocus(d) \/ ArrowInsert(d)
         \/ \E at \in {"Here", "After", "End", "Start"} : EnterInsert(at)
         \/ \E m \in Motions : Motion(m)
         \/ \E o \in {"d", "c"} : Operator(o)
  PROVE  IInv'
<1> USE FormHere
<1>1. CASE Esc
  BY <1>1, EscOK, QuietKey DEF Esc, Inserting, OnForm
<1>2. CASE CancelOperator
  BY <1>2, OpOK, QuietKey DEF CancelOperator, OnForm
<1>3. ASSUME NEW d \in {-1, 1}, MoveFocus(d) PROVE IInv'
  BY <1>3, MoveFocusOK, QuietKey DEF MoveFocus, OnForm
<1>4. ASSUME NEW d \in {-1, 1}, ArrowInsert(d) PROVE IInv'
  <2> DEFINE g == IF d = 1 THEN cursor_right_insert(form) ELSE cursor_left(form)
  <2>1. FormOK(g) /\ Edits(form, g, "none")
    BY <1>4, ArrowOK DEF ArrowInsert, Inserting
  <2>2. Key /\ Becomes(g) /\ UNCHANGED history
    BY <1>4 DEF ArrowInsert, Inserting, OnForm
  <2> HIDE DEF g
  <2> QED
    BY <2>1, <2>2, QuietKey
<1>5. ASSUME NEW at \in {"Here", "After", "End", "Start"}, EnterInsert(at) PROVE IInv'
  BY <1>5, EnterInsertOK, QuietKey DEF EnterInsert, Commanding, OnForm
<1>6. ASSUME NEW m \in Motions, Motion(m) PROVE IInv'
  BY <1>6, MotionOK, QuietKey DEF Motion, Commanding, OnForm
<1>7. ASSUME NEW o \in {"d", "c"}, Operator(o) PROVE IInv'
  BY <1>7, OpOK, QuietKey DEF Operator, Commanding, OnForm
<1> QED
  BY <1>1, <1>2, <1>3, <1>4, <1>5, <1>6, <1>7

LEMMA EditingKeys ==
  ASSUME IInv,
         \/ Backspace
         \/ \E ch \in Chars : Type(ch)
         \/ \E k \in {"x", "D", "C"} : Delete(k)
         \/ \E m \in Motions \cup {"line"} : Operate(m)
  PROVE  IInv'
<1> USE FormHere
<1>1. CASE Backspace
  BY <1>1, BackspaceOK, EditingKey DEF Backspace, Inserting, OnForm
<1>2. ASSUME NEW ch \in Chars, Type(ch) PROVE IInv'
  <2>1. ch \in char_class
    BY TuiConstants
  <2> QED
    BY <1>2, <2>1, TypeCharOK, EditingKey DEF Type, Inserting, OnForm
<1>3. ASSUME NEW k \in {"x", "D", "C"}, Delete(k) PROVE IInv'
  BY <1>3, DeleteKeyOK, EditingKey DEF Delete, Commanding, OnForm
<1>4. ASSUME NEW m \in Motions \cup {"line"}, Operate(m) PROVE IInv'
  BY <1>4, OperatorOK, EditingKey DEF Operate, OnForm
<1> QED
  BY <1>1, <1>2, <1>3, <1>4

LEMMA ToggleKey ==
  ASSUME IInv, Toggle
  PROVE  IInv'
<1> DEFINE g == toggle_flag(form)
<1>1. WorldInv' /\ todo = <<>> /\ ModelInv'
  BY KeyKeeps, ModelKeeps DEF Toggle, OnForm, Becomes
<1>2. FormOK(g)
  BY FormHere, ToggleOK DEF Toggle
<1>3. /\ g = [form EXCEPT !.flags = g.flags]
      /\ \A flag \in Flags \ {form.focus} : flag \in g.flags <=> flag \in form.flags
  BY FormHere DEF toggle_flag, FormTyped
<1>4. /\ g.editing = form.editing /\ g.carried = form.carried /\ g.when = form.when
      /\ g.kept = form.kept /\ g.message = form.message /\ g.panes = form.panes
      /\ g.picker = form.picker /\ g.pane_idx = form.pane_idx /\ g.detected = form.detected
  BY FormHere DEF toggle_flag, FormTyped
<1>5. form' = g /\ UNCHANGED <<todo, pane_server, tab, tmux, events, opened>>
  BY DEF Toggle, Becomes, modelVars, worldVars, Touch
<1> HIDE DEF g
<1>6. form.editing # 0 => touched' = touched \cup {form.focus}
  BY DEF Toggle, Touch
<1>7. FormInv(g, pane_server, opened, touched')
  <2>1. ASSUME form.editing # 0 PROVE opened \in Job /\ Faithful(g, opened, touched')
    <3>1. opened \in Job /\ Faithful(form, opened, touched)
      BY <2>1 DEF IInv, ScreenInv, FormInv
    <3> QED
      BY <1>3, <1>4, <1>6, <2>1, <3>1 DEF Faithful
  <2> QED
    BY <1>2, <1>4, <2>1 DEF IInv, ScreenInv, FormInv
<1>8. active_pane(g) = active_pane(form)
  BY <1>4 DEF active_pane
<1>9. ViewOK(g, events = 0)
  BY <1>4, <1>8 DEF IInv, ScreenInv, ViewOK
<1>10. TodoOK(todo', g, opened', touched') /\ Listing' = Listing
  BY <1>1, <1>5 DEF TodoOK, Listing
<1>11. ScreenInv'
  BY <1>4, <1>5, <1>7, <1>9, <1>10 DEF IInv, ScreenInv, Primed
<1> QED
  BY <1>1, <1>11 DEF IInv

\* The picker, the pane and the preview change beside the job being edited.
LEMMA BesideInv ==
  ASSUME NEW f, NEW server, NEW j, NEW T, FormInv(f, server, j, T),
         NEW g, FormTyped(g), Beside(f, g), g.panes = f.panes, g.op \in {None, f.op},
         NEW T2, T \subseteq T2
  PROVE  FormInv(g, server, j, T2)
<1>1. FormOK(g)
  BY BesideOK DEF FormInv
<1>2. g.editing # 0 => Faithful(g, j, T2)
  BY BesideFaithful DEF FormInv, Beside
<1> QED
  BY <1>1, <1>2 DEF FormInv, Beside

LEMMA CaptureAlone ==
  ASSUME NEW g
  PROVE  <<>> \o capture_selected(g) = capture_selected(g)
BY Joined DEF capture_selected

LEMMA RecaptureKey ==
  ASSUME IInv, Key, UNCHANGED <<modelVars, worldVars>>, NEW g, Recapture(g), g.panes = form.panes,
         FormInv(g, pane_server, opened', touched')
  PROVE  IInv'
<1>1. WorldInv' /\ ModelInv'
  BY KeyKeeps, ModelKeeps
<1>2. todo' = <<>> \o capture_selected(g) /\ form' = Uncaptured(g)
  BY CaptureAlone DEF Recapture
<1>3. ScreenInv'
  BY <1>2, RecaptureStep DEF modelVars, worldVars
<1> QED
  BY <1>1, <1>3 DEF IInv

LEMMA PaneKey ==
  ASSUME IInv, Key, UNCHANGED <<modelVars, worldVars>>, NEW g, Recapture(g),
         FormTyped(g), Beside(form, g), g.panes = form.panes, g.op \in {None, form.op},
         opened' = opened, touched \subseteq touched'
  PROVE  IInv'
<1>1. FormInv(g, pane_server, opened', touched')
  BY BesideInv DEF IInv, ScreenInv
<1> QED
  BY <1>1, RecaptureKey

\* A key of the picker that may leave the pane in view as it was.
LEMMA ViewingKey ==
  ASSUME IInv, Key, UNCHANGED <<modelVars, worldVars, history>>, NEW g, Viewing(g),
         FormTyped(g), Beside(form, g), g.panes = form.panes, g.op \in {None, form.op},
         g.detected = form.detected
  PROVE  IInv'
<1>1. opened' = opened /\ touched' = touched
  BY DEF history
<1>2. CASE Recapture(g)
  BY <1>1, <1>2, PaneKey
<1>3. CASE ~Recapture(g)
  <2> DEFINE at(h) == IF active_pane(h) = None THEN None ELSE active_pane(h).target
  <2>1. at(g) = at(form) /\ form' = g /\ todo' = todo
    BY <1>3 DEF Viewing
  <2>2. WorldInv' /\ ModelInv' /\ todo = <<>>
    BY KeyKeeps, ModelKeeps
  <2>3. FormInv(g, pane_server, opened, touched)
    BY BesideInv DEF IInv, ScreenInv
  <2>4. /\ active_pane(form) # None => /\ active_pane(form).target \in Int
                                       /\ \E i \in DOMAIN form.panes : active_pane(form) = form.panes[i]
        /\ active_pane(g) # None => /\ active_pane(g).target \in Int
                                    /\ \E i \in DOMAIN form.panes : active_pane(g) = form.panes[i]
    BY FormHere, InView DEF Pane
  <2>5. None \notin Int
    BY FormConstants
  <2>6. active_pane(form) # None =>
          active_pane(g) # None /\ active_pane(g).target = active_pane(form).target
    BY <2>1, <2>4, <2>5
  <2>7. events = 0 /\ active_pane(form) # None => active_pane(g) = active_pane(form)
    <3> SUFFICES ASSUME events = 0, active_pane(form) # None
                 PROVE  active_pane(g) = active_pane(form)
      OBVIOUS
    <3>1. PICK i \in DOMAIN form.panes : active_pane(form) = form.panes[i]
      BY <2>4
    <3>2. PICK k \in DOMAIN form.panes : active_pane(g) = form.panes[k]
      BY <2>4, <2>6
    <3>3. form.panes = Listing
      <4>1. form.panes # <<>>
        BY <3>1
      <4> QED
        BY <4>1 DEF IInv, ScreenInv
    <3>4. i = k
      BY <2>6, <3>1, <3>2, <3>3, PositionNamesPane DEF IInv
    <3> QED
      BY <3>1, <3>2, <3>4
  <2>8. ViewOK(g, events = 0)
    BY <2>6, <2>7 DEF IInv, ScreenInv, ViewOK
  <2>9. TodoOK(todo', g, opened', touched') /\ Listing' = Listing
        /\ UNCHANGED <<pane_server, tab, events>>
    BY <2>1, <2>2 DEF TodoOK, Listing, worldVars, modelVars
  <2>10. ScreenInv'
    BY <1>1, <2>1, <2>3, <2>8, <2>9 DEF IInv, ScreenInv, Primed
  <2> QED
    BY <2>2, <2>10 DEF IInv
<1> QED
  BY <1>2, <1>3

LEMMA FilteredKey ==
  ASSUME IInv, Key, UNCHANGED <<modelVars, worldVars, history>>, NEW q, Filtered(q)
  PROVE  IInv'
<1> DEFINE g == [form EXCEPT !.picker.query = q, !.picker.highlight = 1,
                             !.picker.matches = filter(q, pane_labels(form.panes))]
<1>1. /\ FormTyped(g) /\ Beside(form, g) /\ g.panes = form.panes /\ g.op = form.op
      /\ g.detected = form.detected
  BY FormHere DEF FormTyped, Beside
<1>2. Viewing(g)
  BY DEF Filtered
<1> HIDE DEF g
<1> QED
  BY <1>1, <1>2, ViewingKey

LEMMA PickerKeys ==
  ASSUME IInv,
         \/ OpenPicker \/ PickBackspace \/ PickMode \/ PickCancel \/ PickEnter
         \/ \E c \in Letters : PickType(c)
         \/ \E d \in {-1, 1} : PickMove(d)
  PROVE  IInv'
<1>1. CASE OpenPicker
  <2> DEFINE g == [form EXCEPT !.op = None,
                     !.picker = [query |-> <<>>, highlight |-> 1, nav |-> "Insert",
                                 matches |-> filter(<<>>, pane_labels(form.panes))]]
  <2>1. FormTyped(g) /\ Beside(form, g) /\ g.panes = form.panes /\ g.op = None
    BY FormHere DEF FormTyped, Beside, Option
  <2>2. Key /\ Recapture(g) /\ UNCHANGED <<modelVars, worldVars, history>>
    BY <1>1 DEF OpenPicker, Opening, OnForm
  <2> HIDE DEF g
  <2> QED
    BY <2>1, <2>2, PaneKey DEF history
<1>2. CASE PickBackspace
  BY <1>2, FilteredKey DEF PickBackspace, OnPicker
<1>3. ASSUME NEW c \in Letters, PickType(c) PROVE IInv'
  BY <1>3, FilteredKey DEF PickType, OnPicker
<1>4. ASSUME NEW d \in {-1, 1}, PickMove(d) PROVE IInv'
  <2> DEFINE n == Len(form.picker.matches)
             g == [form EXCEPT !.picker.highlight = IF n = 0 THEN @ ELSE wrap_index(@, d, n)]
  <2>1. /\ FormTyped(g) /\ Beside(form, g) /\ g.panes = form.panes /\ g.op = form.op
        /\ g.detected = form.detected
    BY FormHere DEF FormTyped, Beside
  <2>2. Key /\ Viewing(g) /\ UNCHANGED <<modelVars, worldVars, history>>
    BY <1>4 DEF PickMove, OnPicker
  <2> HIDE DEF g
  <2> QED
    BY <2>1, <2>2, ViewingKey
<1>5. CASE PickMode
  <2> DEFINE g == [form EXCEPT !.picker.nav = IF @ = "Insert" THEN "Normal" ELSE "Insert"]
             p == g.picker
  <2>1. /\ FormTyped(g) /\ Beside(form, g) /\ g.panes = form.panes /\ g.op = form.op
        /\ g.detected = form.detected /\ g.pane_idx = form.pane_idx
    BY FormHere DEF FormTyped, Beside, Option
  <2>2. Key /\ form' = g /\ todo' = todo /\ UNCHANGED <<modelVars, worldVars, history>>
    BY <1>5 DEF PickMode, OnPicker, Becomes
  <2>3. form.picker.nav # None /\ p.nav # None
        /\ p.matches = form.picker.matches /\ p.highlight = form.picker.highlight
    BY <1>5, FormHere, FormConstants DEF PickMode, OnPicker, FormTyped
  <2>4. active_pane(g) = active_pane(form)
    BY <2>1, <2>3 DEF active_pane
  <2> HIDE DEF g
  <2>5. Viewing(g)
    BY <2>1, <2>2, <2>4 DEF Viewing
  <2> QED
    BY <2>1, <2>2, <2>5, ViewingKey
<1>6. CASE PickCancel
  <2> DEFINE g == [form EXCEPT !.picker = closed]
  <2>1. FormTyped(g) /\ Beside(form, g) /\ g.panes = form.panes /\ g.op = form.op
    BY FormHere DEF FormTyped, Beside, closed, Option
  <2>2. Key /\ Recapture(g) /\ UNCHANGED <<modelVars, worldVars, history>>
    BY <1>6 DEF PickCancel, OnPicker
  <2> HIDE DEF g
  <2> QED
    BY <2>1, <2>2, PaneKey DEF history
<1>7. CASE PickEnter
  <2> DEFINE hit == At(form.picker.matches, form.picker.highlight)
             g == [form EXCEPT !.picker = closed, !.pane_idx = IF hit = None THEN @ ELSE hit]
  <2>1. FormTyped(g) /\ Beside(form, g) /\ g.panes = form.panes /\ g.op = form.op
    BY FormHere DEF FormTyped, Beside, closed, Option
  <2>2. /\ Key /\ Recapture(g) /\ UNCHANGED <<modelVars, worldVars>>
        /\ opened' = opened /\ touched \subseteq touched'
    BY <1>7 DEF PickEnter, OnPicker, Touch
  <2> HIDE DEF g
  <2> QED
    BY <2>1, <2>2, PaneKey
<1> QED
  BY <1>1, <1>2, <1>3, <1>4, <1>5, <1>6, <1>7

LEMMA ChangeKeys ==
  ASSUME IInv, NEW d \in {-1, 1}, change_value(d)
  PROVE  IInv'
<1>1. /\ Key /\ UNCHANGED <<modelVars, worldVars>> /\ opened' = opened /\ touched \subseteq touched'
      /\ form.focus \in touched' \/ form.editing = 0
  BY DEF change_value, OnForm, Touch
<1>2. CASE ChangePane(d)
  <2> DEFINE g == [form EXCEPT !.pane_idx = wrap_index(@, d, Len(form.panes))]
  <2>1. FormTyped(g) /\ Beside(form, g) /\ g.panes = form.panes /\ g.op = form.op
    BY FormHere DEF FormTyped, Beside
  <2>2. Recapture(g)
    BY <1>2 DEF ChangePane
  <2> HIDE DEF g
  <2> QED
    BY <1>1, <2>1, <2>2, PaneKey
<1>3. CASE ChangeWhen
  <2> DEFINE g == [form EXCEPT !.when = cycle_when(form)]
  <2>1. form.focus = "when" /\ ~IsText(form)
    BY <1>3 DEF ChangeWhen, change_value
  <2>2. FormOK(g) /\ Edits(form, g, "when")
    BY <2>1, FormHere, CycleWhenOK
  <2>3. IF g.when = "Auto" THEN Recapture(g) ELSE form' = g /\ UNCHANGED todo
    BY <1>3 DEF ChangeWhen
  <2> HIDE DEF g
  <2>4. CASE Recapture(g)
    <3>1. FormInv(g, pane_server, opened', touched')
      <4>1. Faithful(form, opened, touched)
        BY DEF IInv, ScreenInv, FormInv, Faithful
      <4>2. Faithful(g, opened, touched')
        BY <1>1, <2>1, <2>2, <4>1, EditsFaithful
      <4> QED
        BY <1>1, <2>2, <4>2 DEF IInv, ScreenInv, FormInv, Edits
    <3>2. g.panes = form.panes
      BY <2>2 DEF Edits
    <3> QED
      BY <1>1, <2>4, <3>1, <3>2, RecaptureKey
  <2>5. CASE form' = g /\ UNCHANGED todo
    <3>1. WorldInv' /\ todo = <<>> /\ ModelInv'
      BY <1>1, KeyKeeps, ModelKeeps
    <3>2. ScreenInv'
      BY <1>1, <2>1, <2>2, <2>5, <3>1, EditorStep DEF modelVars, worldVars
    <3> QED
      BY <3>1, <3>2 DEF IInv
  <2> QED
    BY <2>3, <2>4, <2>5
<1> QED
  BY <1>2, <1>3 DEF change_value

\* What is asked for or done while the form is left alone, but for an operator.
LEMMA AskStep ==
  ASSUME IInv, FormOK(form'), Edits(form, form', "none"),
         TodoOK(todo', form', opened, touched),
         UNCHANGED <<pane_server, history>>, events' = 0 => events = 0 /\ tmux' = tmux,
         todo' \in {<<List>>, Primed} => tab' = "NewNudge"
  PROVE  ScreenInv'
<1>1. opened' = opened /\ touched' = touched /\ (events' = 0 => Listing' = Listing)
  BY DEF history, Listing
<1>2. Faithful(form', opened, touched)
  <2>1. Faithful(form, opened, touched)
    BY DEF IInv, ScreenInv, FormInv, Faithful
  <2> QED
    BY <2>1, EditsFaithful
<1>3. active_pane(form') = active_pane(form)
  BY EditsView
<1>4. FormInv(form', pane_server, opened, touched)
  BY <1>2 DEF IInv, ScreenInv, FormInv, Edits
<1>5. ViewOK(form', events' = 0) /\ form'.panes = form.panes
  BY <1>3 DEF IInv, ScreenInv, ViewOK, Edits
<1> QED
  BY <1>1, <1>4, <1>5 DEF IInv, ScreenInv, Primed

LEMMA FormAsItWas ==
  ASSUME IInv
  PROVE  FormOK(form) /\ Edits(form, form, "none")
BY FormHere DEF Edits

\* Nothing, or the jobs, to be read is no list of panes.
LEMMA PollIsNotList ==
  <<>> \notin {<<List>>, Primed} /\ <<Poll>> \notin {<<List>>, Primed}
<1>1. Poll # List
  BY DEF Poll, List
<1> QED
  BY <1>1 DEF Primed

LEMMA JobsKeys ==
  ASSUME IInv,
         \/ Quit \/ LeaveForm \/ AskPoll \/ AskCancel \/ ToForm
         \/ \E d \in {-1, 1} : Select(d)
  PROVE  IInv'
<1>0. Key /\ UNCHANGED worldVars /\ UNCHANGED history /\ UNCHANGED pane_server
  BY DEF Quit, LeaveForm, AskPoll, AskCancel, ToForm, Select, OnForm, OnJobs, modelVars
<1>1. WorldInv' /\ todo = <<>> /\ keys' \in 0 .. MaxKeys /\ UNCHANGED <<tmux, events>>
  BY <1>0, KeyKeeps DEF worldVars
<1>2. FormOK(form) /\ Edits(form, form, "none")
  BY FormAsItWas
<1>3. CASE Quit
  <2>1. ModelInv'
    BY <1>1, <1>3 DEF Quit, IInv, ModelInv
  <2>2. TodoOK(todo', form', opened, touched) /\ todo' \notin {<<List>>, Primed} /\ form' = form
    BY <1>1, <1>3, PollIsNotList DEF Quit, TodoOK
  <2> QED
    BY <1>0, <1>1, <1>2, <2>1, <2>2, AskStep DEF IInv
<1>4. CASE LeaveForm
  <2>1. ModelInv'
    BY <1>1, <1>4 DEF LeaveForm, IInv, ModelInv
  <2>2. TodoOK(todo', form', opened, touched) /\ todo' \notin {<<List>>, Primed}
    BY <1>1, <1>4, PollIsNotList DEF LeaveForm, TodoOK
  <2>3. FormOK(form') /\ Edits(form, form', "none")
    BY <1>2, <1>4, OpOK DEF LeaveForm
  <2> QED
    BY <1>0, <1>1, <2>1, <2>2, <2>3, AskStep DEF IInv
<1>5. CASE AskPoll
  <2>1. ModelInv'
    BY <1>1, <1>5, ModelKeeps DEF AskPoll
  <2>2. TodoOK(todo', form', opened, touched) /\ todo' \notin {<<List>>, Primed} /\ form' = form
    BY <1>5, PollIsNotList DEF AskPoll, TodoOK
  <2> QED
    BY <1>0, <1>1, <1>2, <2>1, <2>2, AskStep DEF IInv
<1>6. CASE AskCancel
  <2>1. ModelInv'
    BY <1>1, <1>6, ModelKeeps DEF AskCancel
  <2>2. selected \in DOMAIN jobs /\ jobs[selected] \in Job
    BY <1>6 DEF AskCancel, At, IInv, ModelInv
  <2>3. jobs[selected].id \in Nat
    BY <2>2 DEF Job
  <2> DEFINE e == [do |-> "Cancel", id |-> jobs[selected].id]
  <2>4. todo' = <<e>> /\ form' = form
    BY <1>6 DEF AskCancel
  <2>5. e # List
    BY DEF List
  <2>6. TodoOK(todo', form', opened, touched)
    BY <2>3, <2>4 DEF TodoOK
  <2> HIDE DEF e
  <2>7. todo' \notin {<<List>>, Primed}
    BY <2>4, <2>5 DEF Primed
  <2> QED
    BY <1>0, <1>1, <1>2, <2>1, <2>4, <2>6, <2>7, AskStep DEF IInv
<1>7. CASE ToForm
  <2>1. ModelInv'
    BY <1>1, <1>7 DEF ToForm, IInv, ModelInv
  <2>2. TodoOK(todo', form', opened, touched) /\ form' = form /\ tab' = "NewNudge"
    BY <1>7 DEF ToForm, TodoOK
  <2> QED
    BY <1>0, <1>1, <1>2, <2>1, <2>2, AskStep DEF IInv
<1>8. ASSUME NEW d \in {-1, 1}, Select(d) PROVE IInv'
  <2>1. selected \in Nat \ {0} /\ selected \in DOMAIN jobs /\ Len(jobs) \in Nat /\ jobs # <<>>
        /\ jobs \in Seq(Job)
    BY <1>8 DEF Select, IInv, ModelInv
  <2>2. selected' \in 1 .. Len(jobs)
    BY <1>8, <2>1 DEF Select, Least
  <2>3. ModelInv'
    BY <1>1, <1>8, <2>1, <2>2 DEF Select, IInv, ModelInv
  <2>4. TodoOK(todo', form', opened, touched) /\ todo' \notin {<<List>>, Primed} /\ form' = form
    BY <1>1, <1>8, PollIsNotList DEF Select, TodoOK
  <2> QED
    BY <1>0, <1>1, <1>2, <2>3, <2>4, AskStep DEF IInv
<1> QED
  BY <1>3, <1>4, <1>5, <1>6, <1>7, <1>8

LEMMA EditKey ==
  ASSUME IInv, Edit
  PROVE  IInv'
<1>1. Key /\ UNCHANGED worldVars /\ todo' = todo /\ pane_server' = pane_server /\ tab' = "NewNudge"
  BY DEF Edit, OnJobs
<1>2. WorldInv' /\ todo = <<>> /\ keys' \in 0 .. MaxKeys /\ UNCHANGED <<tmux, events>>
  BY <1>1, KeyKeeps DEF worldVars
<1>3. ModelInv'
  BY <1>2 DEF Edit, IInv, ModelInv
<1> DEFINE j == jobs[selected]
           g == enter_edit(form, j)
<1>4. j \in Job /\ StampTrue(j.target)
  BY DEF Edit, At, IInv, ModelInv
<1>5. form' = g /\ opened' = j /\ touched' = {}
  BY DEF Edit
<1> HIDE DEF j
<1>6. /\ FormOK(g) /\ Faithful(g, j, {}) /\ g.panes = form.panes /\ g.picker = closed
      /\ g.detected = None
  BY <1>4, FormHere, JobsAreEditable, EnterEditOK
<1> HIDE DEF g
<1>7. g.carried # None => g.carried.target = j.target
  BY <1>6 DEF FormOK, Coherent, Faithful, CarriedOf
<1>8. FormInv(g, pane_server, j, {})
  BY <1>4, <1>6, <1>7 DEF IInv, ScreenInv, FormInv
<1>9. ViewOK(g, events = 0) /\ TodoOK(<<>>, g, j, {}) /\ Listing' = Listing
  BY <1>2, <1>6 DEF ViewOK, TodoOK, Listing
<1>10. ScreenInv'
  BY <1>1, <1>2, <1>5, <1>6, <1>8, <1>9 DEF IInv, ScreenInv, Primed
<1> QED
  BY <1>2, <1>3, <1>10 DEF IInv

\* What a submit reads off the form: its pane stamped truly, its time the
\* job's own unless the user set one.
LEMMA SubmittedSpec ==
  ASSUME IInv, selected_pane(form) # None, NEW at \in Times, FireTime(at)
  PROVE  LET s == build_spec(form, Stamp, at)
         IN /\ s \in JobSpec /\ s.fire_at \in Times /\ StampTrue(s.target)
            /\ form.editing # 0 => KeepsRest(s, opened, touched)
<1> DEFINE s == build_spec(form, Stamp, at)
<1>1. FormOK(form) /\ pane_server \in Option(Nat) /\ at \in Nat
  BY FormHere, TuiConstants DEF IInv, ModelInv
<1>2. /\ s \in JobSpec
      /\ \/ form.carried # None /\ s.target = form.carried.target
         \/ s.target = [pane |-> selected_pane(form).id, server |-> pane_server]
  BY <1>1, BuildSpecTyped DEF Stamp
<1>3. s.fire_at = at
  BY DEF build_spec
<1>4. StampTrue(s.target)
  <2>1. CASE form.carried # None /\ s.target = form.carried.target
    BY <2>1 DEF IInv, ScreenInv, FormInv
  <2>2. CASE s.target = [pane |-> selected_pane(form).id, server |-> pane_server]
    <3>1. OfServer(selected_pane(form).id, pane_server)
      BY FormHere, InView DEF IInv, ScreenInv, FormInv
    <3> QED
      BY <2>2, <3>1 DEF OfServer, StampTrue
  <2> QED
    BY <1>2, <2>1, <2>2
<1>5. ASSUME form.editing # 0 PROVE KeepsRest(s, opened, touched)
  <2>1. opened \in Job /\ Faithful(form, opened, touched)
    BY <1>5 DEF IInv, ScreenInv, FormInv
  <2>2. "when" \notin touched => at = opened.fire_at
    BY <1>5, <2>1 DEF FireTime, Faithful, CarriedOf
  <2> QED
    BY <1>1, <1>5, <2>1, <2>2, JobsAreEditable, BuildSpecKeeps
<1> QED
  BY <1>2, <1>3, <1>4, <1>5

LEMMA SubmitKey ==
  ASSUME IInv, NEW after \in {"Quit", "Jobs"}, Submit(after)
  PROVE  IInv'
<1>1. /\ Key /\ UNCHANGED worldVars /\ UNCHANGED history
      /\ UNCHANGED <<tab, jobs, seen, selected, pane_server, quit>>
  BY DEF Submit, OnForm
<1>2. WorldInv' /\ todo = <<>> /\ keys' \in 0 .. MaxKeys /\ UNCHANGED <<tmux, events>>
  BY <1>1, KeyKeeps DEF worldVars
<1>3. FormOK(form') /\ Edits(form, form', "none")
  BY FormHere, FormAsItWas, OpOK DEF Submit
<1>4. form'.editing = form.editing
  BY <1>3 DEF Edits
<1>5. CASE Refused
  <2>1. ModelInv' /\ todo' = <<>>
    BY <1>1, <1>2, <1>5 DEF Refused, IInv, ModelInv
  <2>2. TodoOK(todo', form', opened, touched)
    BY <2>1 DEF TodoOK
  <2> QED
    BY <1>1, <1>2, <1>3, <2>1, <2>2, PollIsNotList, AskStep DEF IInv
<1>6. CASE Accepted(after)
  <2>1. PICK at \in Times :
          /\ selected_pane(form) # None /\ FireTime(at)
          /\ LET spec == build_spec(form, Stamp, at)
             IN IF form.editing = 0
                THEN /\ after_submit' = after
                     /\ todo' = <<[do |-> "Schedule", spec |-> spec]>>
                ELSE /\ after_submit' = "Jobs"
                     /\ todo' = <<[do |-> "Replace", id |-> form.editing, spec |-> spec]>>
    BY <1>6 DEF Accepted
  <2> DEFINE s == build_spec(form, Stamp, at)
             schedule == [do |-> "Schedule", spec |-> s]
             replace == [do |-> "Replace", id |-> form.editing, spec |-> s]
  <2>2. /\ s \in JobSpec /\ s.fire_at \in Times /\ StampTrue(s.target)
        /\ form.editing # 0 => KeepsRest(s, opened, touched)
    BY <2>1, SubmittedSpec
  <2>3. after_submit' \in {"Quit", "Jobs"}
    BY <2>1
  <2>4. ModelInv'
    BY <1>1, <1>2, <2>3 DEF IInv, ModelInv
  <2>5. todo' = <<schedule>> \/ (form.editing # 0 /\ todo' = <<replace>>)
    BY <2>1
  <2>6. schedule # List /\ replace # List
    BY DEF List
  <2> HIDE DEF s
  <2>7. TodoOK(todo', form', opened, touched)
    BY <1>4, <2>2, <2>5 DEF TodoOK
  <2> HIDE DEF schedule, replace
  <2>8. todo' \notin {<<List>>, Primed}
    BY <2>5, <2>6 DEF Primed
  <2> QED
    BY <1>1, <1>2, <1>3, <2>4, <2>7, <2>8, AskStep DEF IInv
<1> QED
  BY <1>5, <1>6 DEF Submit

LEMMA TickStep ==
  ASSUME IInv, Tick
  PROVE  IInv'
<1>1. /\ todo = <<>> /\ UNCHANGED modelVars /\ UNCHANGED worldVars /\ UNCHANGED history
      /\ keys' = keys
  BY DEF Tick, Idle, ghosts
<1>2. WorldInv' /\ ModelInv' /\ UNCHANGED <<tmux, events, pane_server, tab>>
  BY <1>1 DEF IInv, WorldInv, ModelInv, worldVars, modelVars
<1>3. opened' = opened /\ touched' = touched
  BY <1>1 DEF history
<1>4. PICK poll, stale \in BOOLEAN :
        LET shown == tab = "NewNudge" /\ selected_pane(form) # None /\ (stale \/ ~form.captured)
        IN /\ todo' = (IF poll THEN <<Poll>> ELSE <<>>)
                        \o (IF shown THEN capture_selected(form) ELSE <<>>)
           /\ form' = IF shown THEN Uncaptured(form) ELSE form
  BY DEF Tick
<1> DEFINE shown == tab = "NewNudge" /\ selected_pane(form) # None /\ (stale \/ ~form.captured)
           s == IF poll THEN <<Poll>> ELSE <<>>
<1>5. s \in {<<>>, <<Poll>>}
  OBVIOUS
<1>6. CASE shown
  <2>1. todo' = s \o capture_selected(form) /\ form' = Uncaptured(form)
    BY <1>4, <1>6
  <2> HIDE DEF s
  <2>2. ScreenInv'
    BY <1>2, <1>3, <1>5, <2>1, RecaptureStep DEF IInv, ScreenInv
  <2> QED
    BY <1>2, <2>2 DEF IInv
<1>7. CASE ~shown
  <2>1. todo' = s \o <<>> /\ form' = form
    BY <1>4, <1>7
  <2> HIDE DEF s
  <2>2. todo' \in {<<>>, <<Poll>>}
    BY <1>5, <2>1, Joined
  <2>3. TodoOK(todo', form', opened, touched)
    BY <2>2 DEF TodoOK
  <2> QED
    BY <1>1, <1>2, <2>1, <2>2, <2>3, FormAsItWas, PollIsNotList, AskStep DEF IInv
<1> QED
  BY <1>6, <1>7

LEMMA KeysKeep ==
  ASSUME IInv, Keys
  PROVE  IInv'
BY QuietKeys, EditingKeys, ToggleKey, PickerKeys, ChangeKeys, JobsKeys, EditKey, SubmitKey DEF Keys
-----------------------------------------------------------------------------
(***************************************************************************)
(* Effects.                                                                *)
(***************************************************************************)
LEMMA Cells ==
  ASSUME NEW a, NEW b
  PROVE  /\ Head(<<a>>) = a /\ Tail(<<a>>) = <<>>
         /\ Head(<<a, b>>) = a /\ Tail(<<a, b>>) = <<b>>
OBVIOUS

\* The effect that runs, and what is left after it.
LEMMA HeadTail ==
  ASSUME NEW t, NEW f, NEW j, NEW T, TodoOK(t, f, j, T), t # <<>>
  PROVE  LET h == Head(t)
         IN /\ TodoOK(Tail(t), f, j, T)
            /\ Tail(t) \in {<<List>>, Primed} => t = Primed
            /\ h.do # "PollJobs" => Tail(t) = <<>>
            /\ h.do = "ListPanes" => t = <<List>>
            /\ h.do = "CapturePane" =>
                 active_pane(f) # None /\ h.pane = active_pane(f).target
            /\ h.do \in {"Schedule", "Replace"} =>
                 h.spec \in JobSpec /\ h.spec.fire_at \in Times /\ StampTrue(h.spec.target)
            /\ h.do = "Cancel" => h.id \in Nat
<1> DEFINE h == Head(t)
<1>0. <<>> \notin {<<List>>, Primed} /\ Poll.do = "PollJobs" /\ List.do = "ListPanes"
      /\ TodoOK(<<>>, f, j, T)
  BY PollIsNotList DEF Poll, List, TodoOK
<1>1. CASE t = <<Poll>>
  BY <1>0, <1>1, Cells
<1>2. CASE t = <<List>>
  BY <1>0, <1>2, Cells
<1>3. CASE t = Primed
  <2>1. h = Poll /\ Tail(t) = <<List>>
    BY <1>3, Cells DEF Primed
  <2>2. TodoOK(<<List>>, f, j, T)
    BY DEF TodoOK
  <2> QED
    BY <1>0, <1>3, <2>1, <2>2
<1>4. CASE active_pane(f) # None /\ (\/ t = <<Capture(active_pane(f).target)>>
                                     \/ t = <<Poll, Capture(active_pane(f).target)>>)
  <2> DEFINE c == Capture(active_pane(f).target)
  <2>1. c.do = "CapturePane" /\ c.pane = active_pane(f).target
    BY DEF Capture
  <2> HIDE DEF c
  <2>2. t = <<c>> \/ t = <<Poll, c>>
    BY <1>4 DEF c
  <2>3. CASE t = <<c>>
    <3>1. h = c /\ Tail(t) = <<>>
      BY <2>3, Cells
    <3> QED
      BY <1>0, <1>4, <2>1, <3>1
  <2>4. CASE t = <<Poll, c>>
    <3>1. h = Poll /\ Tail(t) = <<c>> /\ c # List /\ c # Poll
      BY <1>0, <2>1, <2>4, Cells
    <3>2. TodoOK(Tail(t), f, j, T)
      BY <1>4, <3>1 DEF TodoOK, c
    <3>3. Tail(t) \notin {<<List>>, Primed}
      BY <3>1 DEF Primed
    <3> QED
      BY <1>0, <3>1, <3>2, <3>3
  <2> QED
    BY <2>2, <2>3, <2>4
<1>5. ASSUME NEW s \in JobSpec, s.fire_at \in Times, StampTrue(s.target), NEW id,
             \/ t = <<[do |-> "Schedule", spec |-> s]>>
             \/ t = <<[do |-> "Replace", id |-> id, spec |-> s]>>
      PROVE  Head(t).do \in {"Schedule", "Replace"} /\ Head(t).spec = s /\ Tail(t) = <<>>
  <2> DEFINE a == [do |-> "Schedule", spec |-> s]
             b == [do |-> "Replace", id |-> id, spec |-> s]
  <2>1. a.do = "Schedule" /\ a.spec = s /\ b.do = "Replace" /\ b.spec = s
    OBVIOUS
  <2>2. t = <<a>> \/ t = <<b>>
    BY <1>5
  <2> HIDE DEF a, b
  <2>3. (Head(t) = a \/ Head(t) = b) /\ Tail(t) = <<>>
    BY <2>2, Cells
  <2> QED
    BY <2>1, <2>3
<1>6. CASE \E s \in JobSpec :
             /\ s.fire_at \in Times /\ StampTrue(s.target)
             /\ \E id : \/ t = <<[do |-> "Schedule", spec |-> s]>>
                        \/ t = <<[do |-> "Replace", id |-> id, spec |-> s]>>
  BY <1>0, <1>5, <1>6
<1>7. CASE \E id \in Nat : t = <<[do |-> "Cancel", id |-> id]>>
  <2>1. PICK id \in Nat : t = <<[do |-> "Cancel", id |-> id]>>
    BY <1>7
  <2> DEFINE c == [do |-> "Cancel", id |-> id]
  <2>2. c.do = "Cancel" /\ c.id = id
    OBVIOUS
  <2>3. t = <<c>>
    BY <2>1
  <2> HIDE DEF c
  <2>4. h = c /\ Tail(t) = <<>>
    BY <2>3, Cells
  <2> HIDE DEF h
  <2> QED
    BY <1>0, <2>2, <2>4 DEF h
<1> QED
  BY <1>1, <1>2, <1>3, <1>4, <1>6, <1>7 DEF TodoOK
LEMMA EventsIn ==
  ASSUME IInv, Smooth \/ Mishap
  PROVE  /\ events' \in 0 .. MaxEvents /\ (events' = 0 => events = 0)
         /\ Mishap => events' # 0
BY TuiConstants DEF IInv, WorldInv, Smooth, Mishap

\* An effect that leaves the form as it is, and is followed by no list.
LEMMA DoneStep ==
  ASSUME IInv, todo # <<>>, Done, UNCHANGED <<form, tab, pane_server, tmux, opened, touched>>,
         Smooth \/ Mishap
  PROVE  ScreenInv'
<1>1. TodoOK(todo', form', opened, touched) /\ (todo' \in {<<List>>, Primed} => todo = Primed)
  BY HeadTail DEF Done, IInv, ScreenInv
<1>2. todo' \in {<<List>>, Primed} => tab' = "NewNudge"
  BY <1>1 DEF IInv, ScreenInv
<1> QED
  BY <1>1, <1>2, EventsIn, FormAsItWas, AskStep DEF history

LEMMA FailedStep ==
  ASSUME IInv, todo # <<>>, Failed, UNCHANGED <<tmux, ghosts>>
  PROVE  IInv'
<1>1. ScreenInv'
  BY DoneStep DEF Failed, ghosts, history, modelVars
<1>2. WorldInv'
  BY EventsIn DEF Failed, IInv, WorldInv
<1>3. ModelInv'
  BY ModelKeeps DEF Failed, ghosts, IInv, ModelInv
<1> QED
  BY <1>1, <1>2, <1>3 DEF IInv

\* The effect that runs is alone, unless it is a poll; more may follow it.
LEMMA Alone ==
  ASSUME IInv, todo # <<>>, Head(todo).do # "PollJobs"
  PROVE  Tail(todo) = <<>> /\ Tail(todo) \o <<Poll>> = <<Poll>>
<1>1. Tail(todo) = <<>>
  BY HeadTail DEF IInv, ScreenInv
<1> QED
  BY <1>1, Joined

LEMMA PollStep ==
  ASSUME IInv, RunPoll
  PROVE  IInv'
<1>1. todo # <<>> /\ UNCHANGED <<tmux, ghosts>>
  BY DEF RunPoll, Running
<1>2. CASE Failed
  BY <1>1, <1>2, FailedStep
<1>3. CASE JobsLoaded
  <2>1. Smooth \/ Mishap
    BY <1>3 DEF JobsLoaded, positions
  <2>2. ScreenInv'
    BY <1>1, <1>3, <2>1, DoneStep DEF JobsLoaded, ghosts, history
  <2>3. WorldInv'
    BY <1>1, <1>3, <2>1, EventsIn DEF JobsLoaded, IInv, WorldInv
  <2>4. queue \in Seq(Job) /\ Len(queue) \in Nat /\ selected \in Nat \ {0}
        /\ \A k \in DOMAIN queue : StampTrue(queue[k].target)
    BY DEF IInv, WorldInv, ModelInv, QueueOK
  <2>5. /\ clamp_selection(selected, queue) \in Nat \ {0}
        /\ queue # <<>> => clamp_selection(selected, queue) \in DOMAIN queue
    <3>1. CASE queue = <<>>
      BY <3>1 DEF clamp_selection
    <3>2. CASE queue # <<>>
      <4>1. Len(queue) # 0
        BY <2>4, <3>2
      <4> QED
        BY <2>4, <3>2, <4>1 DEF clamp_selection, Least
    <3> QED
      BY <3>1, <3>2
  <2>6. seen' \in Option(Nat)
    <3>1. tmux.server \in Nat
      BY TuiConstants DEF IInv, WorldInv
    <3> QED
      BY <1>3, <3>1 DEF JobsLoaded, positions, Option
  <2>7. ModelInv'
    <3>1. jobs' = queue /\ selected' = clamp_selection(selected, queue) /\ keys' = keys
          /\ UNCHANGED <<tab, pane_server, after_submit, quit>>
      BY <1>1, <1>3 DEF JobsLoaded, ghosts
    <3> QED
      BY <2>4, <2>5, <2>6, <3>1 DEF IInv, ModelInv
  <2> QED
    BY <2>2, <2>3, <2>7 DEF IInv
<1> QED
  BY <1>2, <1>3 DEF RunPoll

LEMMA ListingTyped ==
  ASSUME WorldInv
  PROVE  /\ Listing \in Seq(Pane) /\ DOMAIN Listing = DOMAIN tmux.order
         /\ \A i \in DOMAIN Listing :
              /\ Listing[i].id = tmux.order[i] /\ Listing[i].target = -i
              /\ OfServer(Listing[i].id, tmux.server)
<1>1. tmux.order \in Seq(Nat \ {0}) /\ DOMAIN tmux.order = 1 .. Len(tmux.order)
      /\ Len(tmux.order) \in Nat
  BY DEF WorldInv
<1>2. \A i \in 1 .. Len(tmux.order) : [id |-> tmux.order[i], target |-> -i] \in Pane
  BY <1>1 DEF Pane
<1>3. Listing \in Seq(Pane)
  BY <1>1, <1>2 DEF Listing
<1> QED
  BY <1>1, <1>3 DEF Listing, WorldInv

LEMMA ListStep ==
  ASSUME IInv, RunList
  PROVE  IInv'
<1>1. /\ todo = <<List>> /\ tab = "NewNudge" /\ todo # <<>> /\ UNCHANGED <<tmux, ghosts>>
      /\ Tail(todo) = <<>>
  BY HeadTail DEF RunList, Running, IInv, ScreenInv
<1>2. CASE Failed
  BY <1>1, <1>2, FailedStep
<1>3. CASE ~Failed
  <2>1. /\ PanesLoaded /\ UNCHANGED <<tab, jobs, seen, selected, after_submit, pending, summary, quit>>
        /\ UNCHANGED <<queue, last_id>>
    BY <1>3 DEF RunList
  <2>2. PICK last : LET f == list(last)
                    IN /\ Smooth /\ pane_server' = tmux.server
                       /\ form' = Uncaptured(f)
                       /\ todo' = Tail(todo) \o capture_selected(f)
    BY <1>1, <2>1 DEF PanesLoaded, Then
  <2> DEFINE f == list(last)
             h == Uncaptured(f)
  <2>3. todo' = capture_selected(f)
    BY <1>1, <2>2, CaptureAlone
  <2>4. /\ FormTyped(f) /\ Beside(form, f) /\ f.panes = Listing /\ f.op = form.op
    BY FormHere, ListingTyped DEF list, FormTyped, Beside, IInv
  <2> HIDE DEF f
  <2>5. /\ FormTyped(h) /\ Beside(form, h) /\ h.panes = Listing /\ h.op = form.op
        /\ h.detected = None /\ active_pane(h) = active_pane(f)
    BY <2>4 DEF Uncaptured, FormTyped, Beside, Option, active_pane
  <2> HIDE DEF h
  <2>6. FormInv(h, tmux.server, opened, touched)
    <3>1. FormOK(h)
      BY <2>5, FormHere, BesideOK
    <3>2. h.editing # 0 => opened \in Job /\ Faithful(h, opened, touched)
      BY <2>5, BesideFaithful DEF IInv, ScreenInv, FormInv, Beside
    <3>3. \A i \in DOMAIN h.panes : OfServer(h.panes[i].id, tmux.server)
      BY <2>5, ListingTyped DEF IInv
    <3>4. h.carried # None => StampTrue(h.carried.target)
      BY <2>5 DEF IInv, ScreenInv, FormInv, Beside
    <3> QED
      BY <3>1, <3>2, <3>3, <3>4 DEF FormInv
  <2>7. TodoOK(todo', h, opened, touched) /\ todo' \notin {<<List>>, Primed}
    <3>1. CASE active_pane(f) = None
      BY <2>3, <3>1, PollIsNotList DEF capture_selected, TodoOK
    <3>2. CASE active_pane(f) # None
      <4> DEFINE c == Capture(active_pane(f).target)
      <4>1. todo' = <<c>>
        BY <2>3, <3>2 DEF capture_selected, Capture
      <4>2. c # List
        BY DEF Capture, List
      <4> HIDE DEF c
      <4>3. todo' \notin {<<List>>, Primed}
        BY <4>1, <4>2 DEF Primed
      <4> QED
        BY <2>5, <3>2, <4>1, <4>3 DEF TodoOK, c
    <3> QED
      BY <3>1, <3>2
  <2>8. /\ form' = h /\ pane_server' = tmux.server /\ opened' = opened /\ touched' = touched
        /\ events' = events /\ Listing' = Listing
    BY <1>1, <2>2 DEF h, f, Smooth, ghosts, history, Listing
  <2>9. ViewOK(h, events = 0)
    BY <2>5 DEF ViewOK
  <2>10. ScreenInv'
    BY <2>5, <2>6, <2>7, <2>8, <2>9 DEF ScreenInv
  <2>11. WorldInv'
    BY <1>1, <2>1, <2>8 DEF IInv, WorldInv
  <2>12. ModelInv'
    <3>1. tmux.server \in Option(Nat)
      BY TuiConstants DEF IInv, WorldInv, Option
    <3> QED
      BY <1>1, <2>1, <2>8, <3>1 DEF IInv, ModelInv, ghosts
  <2> QED
    BY <2>10, <2>11, <2>12 DEF IInv
<1> QED
  BY <1>2, <1>3

LEMMA CaptureStep ==
  ASSUME IInv, RunCapture
  PROVE  IInv'
<1> DEFINE at == Head(todo).pane
<1>1. /\ active_pane(form) # None /\ at = active_pane(form).target /\ todo' = <<>>
      /\ UNCHANGED <<modelVars, queue, last_id, tmux, events, ghosts>>
  <2>1. Running("CapturePane") /\ Done /\ UNCHANGED <<modelVars, queue, last_id, tmux, events, ghosts>>
    BY DEF RunCapture
  <2>2. todo # <<>> /\ Head(todo).do = "CapturePane" /\ todo' = <<>>
    BY <2>1, Alone DEF Running, Done
  <2>3. active_pane(form) # None /\ at = active_pane(form).target
    BY <2>2, HeadTail DEF IInv, ScreenInv
  <2> QED
    BY <2>1, <2>2, <2>3
<1>2. PICK kind : /\ kind \in {"None"} \cup Readings
                  /\ form' = [form EXCEPT !.detected = Reading(kind, at)]
  BY DEF RunCapture
<1> HIDE DEF at
<1> DEFINE d == Reading(kind, at)
           g == [form EXCEPT !.detected = d]
<1>3. PICK i \in DOMAIN form.panes : active_pane(form) = form.panes[i] /\ form.panes[i] \in Pane
  BY <1>1, FormHere, InView
<1>4. at \in Int
  BY <1>1, <1>3 DEF Pane
<1>5. d \in Detection /\ d.of = at /\ d.id = At(tmux.order, -at)
  <2>1. kind \in {"Reset", "None", "Unreadable", "Elapsed"} /\ ResetAt \in Nat
    BY <1>2, TuiConstants
  <2>2. At(tmux.order, -at) \in Option(Nat)
    BY DEF At, Option, IInv, WorldInv
  <2> QED
    BY <1>4, <2>1, <2>2 DEF Reading, Detection, Option
<1>6. events = 0 => d.id = active_pane(form).id
  <2>1. SUFFICES ASSUME events = 0 PROVE At(tmux.order, -at) = active_pane(form).id
    BY <1>5
  <2>2. form.panes = Listing
    BY <1>3, <2>1 DEF IInv, ScreenInv
  <2>3. /\ i \in DOMAIN tmux.order /\ i \in Nat /\ at = -i
        /\ active_pane(form).id = tmux.order[i]
    BY <1>1, <1>3, <2>2, ListingTyped DEF IInv, WorldInv
  <2>4. -at = i
    BY <2>3
  <2> QED
    BY <2>3, <2>4 DEF At
<1> HIDE DEF d
<1>7. /\ FormTyped(g) /\ Beside(form, g) /\ g.panes = form.panes /\ g.op = form.op
      /\ g.detected = d /\ active_pane(g) = active_pane(form)
  BY <1>5, FormHere DEF FormTyped, Beside, Option, active_pane
<1>8. form' = g /\ opened' = opened /\ touched' = touched /\ Listing' = Listing
      /\ UNCHANGED <<pane_server, tab, events>>
  BY <1>1, <1>2 DEF d, ghosts, history, Listing, modelVars
<1> HIDE DEF g
<1>9. FormInv(g, pane_server, opened, touched)
  BY <1>7, BesideInv DEF IInv, ScreenInv
<1>10. ViewOK(g, events = 0)
  BY <1>1, <1>5, <1>6, <1>7 DEF ViewOK
<1>11. TodoOK(todo', g, opened, touched) /\ todo' \notin {<<List>>, Primed}
  BY <1>1, PollIsNotList DEF TodoOK
<1>12. ScreenInv'
  <2>1. events' = 0 => form'.panes \in {<<>>, Listing'}
    BY <1>7, <1>8 DEF IInv, ScreenInv
  <2> QED
    BY <1>8, <1>9, <1>10, <1>11, <2>1 DEF ScreenInv
<1>13. WorldInv' /\ ModelInv'
  BY <1>1 DEF IInv, WorldInv, ModelInv, modelVars, ghosts
<1> QED
  BY <1>12, <1>13 DEF IInv

\* A submit that came through: the form as it was, or as new.
LEMMA FinishStep ==
  ASSUME IInv, todo # <<>>, Head(todo).do \in {"Schedule", "Replace"},
         Smooth, finish_submit, UNCHANGED <<tmux, ghosts>>
  PROVE  ScreenInv' /\ ModelInv'
<1>1. /\ UNCHANGED <<jobs, seen, selected, pane_server, after_submit, tmux, events, keys>>
      /\ opened' = opened /\ touched' = touched
  BY DEF finish_submit, ghosts, history, Smooth
<1>2. CASE after_submit = "Quit"
  <2>1. Done /\ UNCHANGED <<form, tab>> /\ quit' = TRUE
    BY <1>2 DEF finish_submit
  <2>2. ScreenInv'
    BY <1>1, <2>1, DoneStep
  <2>3. ModelInv'
    BY <1>1, <2>1 DEF IInv, ModelInv
  <2> QED
    BY <2>2, <2>3
<1>3. CASE after_submit # "Quit"
  <2>1. tab' = "Jobs" /\ form' = fresh /\ Then(<<Poll>>) /\ quit' = quit
    BY <1>3 DEF finish_submit
  <2>2. todo' = <<Poll>>
    BY <2>1, Alone DEF Then
  <2>3. ModelInv'
    BY <1>1, <2>1 DEF IInv, ModelInv
  <2>4. FormInv(fresh, pane_server, opened, touched) /\ ViewOK(fresh, events = 0)
    BY FreshOK DEF FormInv, ViewOK
  <2>5. TodoOK(<<Poll>>, fresh, opened, touched)
    BY DEF TodoOK
  <2>6. ScreenInv'
    BY <1>1, <2>1, <2>2, <2>4, <2>5, FreshOK, PollIsNotList DEF ScreenInv
  <2> QED
    BY <2>3, <2>6
<1> QED
  BY <1>2, <1>3

\* The daemon took the request: its reply comes, or is lost.
LEMMA AnsweredStep ==
  ASSUME IInv, todo # <<>>, Head(todo).do \in {"Schedule", "Replace"},
         (Smooth /\ finish_submit) \/ ReplyLost, UNCHANGED <<tmux, ghosts>>
  PROVE  ScreenInv' /\ ModelInv' /\ events' \in 0 .. MaxEvents
<1>1. CASE Smooth /\ finish_submit
  BY <1>1, FinishStep, EventsIn
<1>2. CASE ReplyLost
  <2>1. ScreenInv'
    BY <1>2, DoneStep DEF ReplyLost, modelVars, ghosts, history
  <2>2. ModelInv'
    BY <1>2, ModelKeeps DEF ReplyLost, ghosts, IInv, ModelInv
  <2> QED
    BY <1>2, <2>1, <2>2, EventsIn DEF ReplyLost
<1> QED
  BY <1>1, <1>2

\* What the submit asked for, and the ids handed out.
LEMMA Requested ==
  ASSUME IInv, todo # <<>>, Head(todo).do \in {"Schedule", "Replace"}
  PROVE  /\ Head(todo).spec \in JobSpec /\ Head(todo).spec.fire_at \in Times
         /\ StampTrue(Head(todo).spec.target)
         /\ last_id \in Nat /\ last_id + 1 \in Nat \ {0}
         /\ last_id < MaxId => last_id + 1 \in 0 .. MaxId
<1>1. last_id \in Nat /\ MaxId \in Nat
  BY TuiConstants DEF IInv, WorldInv
<1>2. /\ last_id + 1 \in Nat \ {0}
      /\ last_id < MaxId => last_id + 1 \in 0 .. MaxId
  BY <1>1
<1>3. TodoOK(todo, form, opened, touched)
  BY DEF IInv, ScreenInv
<1>4. /\ Head(todo).spec \in JobSpec /\ Head(todo).spec.fire_at \in Times
      /\ StampTrue(Head(todo).spec.target)
  BY <1>3, HeadTail
<1> QED
  BY <1>1, <1>2, <1>4

LEMMA ScheduleStep ==
  ASSUME IInv, RunSchedule
  PROVE  IInv'
<1>1. todo # <<>> /\ Head(todo).do = "Schedule" /\ UNCHANGED <<tmux, ghosts>>
  BY DEF RunSchedule, Running
<1>2. CASE Failed
  BY <1>1, <1>2, FailedStep
<1>3. CASE ~Failed
  <2> DEFINE j == JobOf(Head(todo).spec, last_id + 1, last_id + 1)
  <2>1. /\ last_id < MaxId /\ last_id' = last_id + 1 /\ queue' = Append(queue, j)
        /\ (Smooth /\ finish_submit) \/ ReplyLost
    BY <1>3 DEF RunSchedule
  <2>2. j \in Job /\ j.id = last_id + 1 /\ j.origin = last_id + 1 /\ StampTrue(j.target)
    BY <1>1, Requested, JobTyped
  <2> HIDE DEF j
  <2>3. queue \in Seq(Job) /\ QueueOK(queue, last_id)
    BY DEF IInv, WorldInv
  <2>4. \A k \in DOMAIN queue : queue[k].origin # j.origin
    <3>0. \A k \in DOMAIN queue : queue[k] \in Job
      BY <2>3
    <3>1. \A k \in DOMAIN queue : queue[k].origin \in Nat
      BY <3>0 DEF Job
    <3> QED
      BY <1>1, <2>2, <2>3, <3>1, Requested DEF QueueOK
  <2>5. queue' \in Seq(Job) /\ QueueOK(queue', last_id')
    BY <1>1, <2>1, <2>2, <2>3, <2>4, Requested, Appended
  <2>6. ScreenInv' /\ ModelInv' /\ events' \in 0 .. MaxEvents
    BY <1>1, <2>1, AnsweredStep
  <2>7. WorldInv'
    BY <1>1, <2>1, <2>5, <2>6, Requested DEF IInv, WorldInv
  <2> QED
    BY <2>6, <2>7 DEF IInv
<1> QED
  BY <1>2, <1>3

LEMMA ReplaceStep ==
  ASSUME IInv, RunReplace
  PROVE  IInv'
<1> DEFINE id == Head(todo).id
<1>1. todo # <<>> /\ Head(todo).do = "Replace" /\ UNCHANGED <<tmux, ghosts>>
  BY DEF RunReplace, Running
<1>2. CASE Failed
  BY <1>1, <1>2, FailedStep
<1>3. CASE AlreadyGone(id)
  <2>1. /\ Smooth /\ Then(<<Poll>>)
        /\ UNCHANGED <<tab, jobs, seen, selected, pane_server, after_submit, quit>>
        /\ UNCHANGED <<form, queue, last_id>>
    BY <1>3 DEF AlreadyGone
  <2>2. todo' = <<Poll>> /\ todo' \notin {<<List>>, Primed}
    BY <1>1, <2>1, Alone, PollIsNotList DEF Then
  <2>3. TodoOK(todo', form', opened, touched)
    BY <2>2 DEF TodoOK
  <2>4. ScreenInv'
    BY <1>1, <2>1, <2>2, <2>3, EventsIn, FormAsItWas, AskStep DEF ghosts
  <2>5. WorldInv' /\ ModelInv'
    BY <1>1, <2>1 DEF Smooth, IInv, WorldInv, ModelInv, ghosts
  <2> QED
    BY <2>4, <2>5 DEF IInv
<1>4. CASE Replaced(id, Head(todo).spec) /\ ((Smooth /\ finish_submit) \/ ReplyLost)
  <2>1. PICK k \in Live(id) : /\ last_id < MaxId /\ last_id' = last_id + 1
                              /\ queue' = Append(Without(id), JobOf(Head(todo).spec, last_id + 1,
                                                                    queue[k].origin))
    BY <1>4 DEF Replaced
  <2> DEFINE j == JobOf(Head(todo).spec, last_id + 1, queue[k].origin)
             rest == Without(id)
  <2>2. WorldInv /\ queue \in Seq(Job) /\ QueueOK(queue, last_id) /\ k \in DOMAIN queue
    BY DEF IInv, WorldInv, Live
  <2>3. queue[k].origin \in Nat \ {0} /\ queue[k].origin <= last_id
    <3>1. queue[k] \in Job
      BY <2>2
    <3> QED
      BY <2>2, <3>1 DEF Job, QueueOK
  <2>4. j \in Job /\ j.id = last_id + 1 /\ j.origin = queue[k].origin /\ StampTrue(j.target)
    BY <1>1, <2>3, Requested, JobTyped
  <2>5. /\ rest \in Seq(Job) /\ QueueOK(rest, last_id)
        /\ \A i \in DOMAIN rest : rest[i].origin # queue[k].origin
    BY <2>2, WithoutOK
  <2>6. queue' = Append(rest, j)
    BY <2>1
  <2> HIDE DEF j, rest
  <2>7. j.origin <= last_id + 1
    BY <1>1, <2>3, <2>4, Requested
  <2>8. queue' \in Seq(Job) /\ QueueOK(queue', last_id')
    BY <1>1, <2>1, <2>4, <2>5, <2>6, <2>7, Requested, Appended
  <2>9. ScreenInv' /\ ModelInv' /\ events' \in 0 .. MaxEvents
    BY <1>1, <1>4, AnsweredStep
  <2>10. WorldInv'
    BY <1>1, <2>1, <2>8, <2>9, Requested DEF IInv, WorldInv
  <2> QED
    BY <2>9, <2>10 DEF IInv
<1> QED
  BY <1>2, <1>3, <1>4 DEF RunReplace

LEMMA CancelStep ==
  ASSUME IInv, RunCancel
  PROVE  IInv'
<1>1. todo # <<>> /\ Head(todo).do = "Cancel" /\ UNCHANGED <<tmux, ghosts>>
  BY DEF RunCancel, Running
<1>2. CASE Failed
  BY <1>1, <1>2, FailedStep
<1>3. CASE ~Failed
  <2>1. /\ queue' = Without(Head(todo).id) /\ UNCHANGED <<modelVars, form, last_id>>
        /\ Cancelled \/ (Mishap /\ Done)
    BY <1>3 DEF RunCancel
  <2>2. WorldInv'
    <3>1. queue' \in Seq(Job) /\ QueueOK(queue', last_id) /\ events' \in 0 .. MaxEvents
      BY <2>1, WithoutOK, EventsIn DEF IInv, Cancelled
    <3> QED
      BY <1>1, <2>1, <3>1 DEF IInv, WorldInv
  <2>3. ModelInv'
    BY <1>1, <2>1 DEF IInv, ModelInv, modelVars, ghosts
  <2>4. CASE Cancelled
    <3>1. todo' = <<Poll>> /\ todo' \notin {<<List>>, Primed}
      BY <1>1, <2>4, Alone, PollIsNotList DEF Cancelled, Then
    <3>2. TodoOK(todo', form', opened, touched)
      BY <3>1 DEF TodoOK
    <3>3. ScreenInv'
      BY <1>1, <2>1, <2>4, <3>1, <3>2, EventsIn, FormAsItWas, AskStep
      DEF ghosts, modelVars, Cancelled
    <3> QED
      BY <2>2, <2>3, <3>3 DEF IInv
  <2>5. CASE Mishap /\ Done
    <3>1. ScreenInv'
      BY <1>1, <2>1, <2>5, DoneStep DEF ghosts, history, modelVars
    <3> QED
      BY <2>2, <2>3, <3>1 DEF IInv
  <2> QED
    BY <2>1, <2>4, <2>5
<1> QED
  BY <1>2, <1>3
-----------------------------------------------------------------------------
(***************************************************************************)
(* The world.                                                              *)
(***************************************************************************)
LEMMA WorldStep ==
  ASSUME IInv, Mishap, UNCHANGED <<modelVars, form, todo, ghosts>>, WorldInv'
  PROVE  IInv'
<1>1. events' # 0 /\ opened' = opened /\ touched' = touched
  BY EventsIn DEF ghosts, history
<1>2. TodoOK(todo', form', opened, touched)
  BY DEF IInv, ScreenInv
<1>3. todo' \in {<<List>>, Primed} => tab' = "NewNudge"
  BY DEF IInv, ScreenInv, modelVars
<1>4. ScreenInv'
  BY <1>1, <1>2, <1>3, FormAsItWas, AskStep DEF modelVars, ghosts
<1>5. ModelInv'
  BY DEF IInv, ModelInv, modelVars, ghosts
<1> QED
  BY <1>4, <1>5 DEF IInv

\* A retried job is put off, and has one retry fewer.
LEMMA PutOff ==
  ASSUME NEW q \in Seq(Job), NEW n, QueueOK(q, n), NEW k \in DOMAIN q
  PROVE  LET r == [q EXCEPT ![k].fire_at = RetryAt,
                            ![k].retries_left = IF @ > 0 THEN @ - 1 ELSE @]
         IN r \in Seq(Job) /\ QueueOK(r, n)
<1> DEFINE less == IF q[k].retries_left > 0 THEN q[k].retries_left - 1 ELSE q[k].retries_left
           j == [q[k] EXCEPT !.fire_at = RetryAt, !.retries_left = less]
           r == [q EXCEPT ![k] = j]
<1>1. q[k] \in Job /\ RetryAt \in Times
  BY TuiConstants
<1>2. less \in Int
  BY <1>1 DEF Job
<1> HIDE DEF less
<1>3. j \in Job /\ j.id = q[k].id /\ j.origin = q[k].origin /\ j.target = q[k].target
  BY <1>1, <1>2 DEF Job
<1> HIDE DEF j
<1>4. r \in Seq(Job) /\ DOMAIN r = DOMAIN q
  BY <1>3
<1>5. \A i \in DOMAIN r : r[i].id = q[i].id /\ r[i].origin = q[i].origin /\ r[i].target = q[i].target
  BY <1>3
<1> HIDE DEF r
<1>6. QueueOK(r, n)
  BY <1>4, <1>5 DEF QueueOK
<1>7. [q EXCEPT ![k].fire_at = RetryAt, ![k].retries_left = IF @ > 0 THEN @ - 1 ELSE @] = r
  BY DEF r, j, less
<1> QED
  BY <1>4, <1>6, <1>7

LEMMA FireStep ==
  ASSUME IInv, Fire
  PROVE  IInv'
<1>1. /\ Mishap /\ UNCHANGED <<modelVars, form, todo, last_id, tmux, ghosts>>
      /\ events' \in 0 .. MaxEvents
  BY EventsIn DEF Fire, Happens
<1>2. WorldInv /\ queue \in Seq(Job) /\ QueueOK(queue, last_id)
  BY DEF IInv, WorldInv
<1>3. PICK k \in DOMAIN queue :
        \/ queue' = Without(queue[k].id)
        \/ queue' = [queue EXCEPT ![k].fire_at = RetryAt,
                       ![k].retries_left = IF @ > 0 THEN @ - 1 ELSE @]
  BY DEF Fire
<1> DEFINE r == [queue EXCEPT ![k].fire_at = RetryAt,
                   ![k].retries_left = IF @ > 0 THEN @ - 1 ELSE @]
<1>4. r \in Seq(Job) /\ QueueOK(r, last_id)
  BY <1>2, PutOff
<1>5. Without(queue[k].id) \in Seq(Job) /\ QueueOK(Without(queue[k].id), last_id)
  BY <1>2, WithoutOK
<1>6. queue' = Without(queue[k].id) \/ queue' = r
  BY <1>3
<1> HIDE DEF r
<1>7. queue' \in Seq(Job) /\ QueueOK(queue', last_id)
  BY <1>4, <1>5, <1>6
<1>8. WorldInv'
  BY <1>1, <1>7 DEF IInv, WorldInv
<1> QED
  BY <1>1, <1>8, WorldStep

LEMMA CloseStep ==
  ASSUME IInv, ClosePane
  PROVE  IInv'
<1>1. /\ Mishap /\ UNCHANGED <<modelVars, form, todo, queue, last_id, ghosts>>
      /\ events' \in 0 .. MaxEvents
  BY EventsIn DEF ClosePane, Happens
<1> DEFINE o == tmux.order
<1>2. /\ o \in Seq(Nat \ {0}) /\ tmux.server \in DOMAIN PanesOn
      /\ \A i \in DOMAIN o : OfServer(o[i], tmux.server)
  BY DEF IInv, WorldInv
<1>3. PICK k \in DOMAIN o : tmux' = [tmux EXCEPT !.order = Cut(@, k - 1, k)]
  BY DEF ClosePane
<1>4. k - 1 \in 0 .. Len(o) /\ k \in 0 .. Len(o)
  BY <1>2
<1> DEFINE c == Cut(o, k - 1, k)
<1>5. /\ c \in Seq(Nat \ {0})
      /\ Len(c) = Len(o) - (IF k - 1 < k THEN k - (k - 1) ELSE 0)
      /\ \A i \in DOMAIN c : c[i] = o[IF i <= k - 1 \/ k <= k - 1 THEN i ELSE i + (k - (k - 1))]
  BY <1>2, <1>4, CutIn
<1>6. tmux' = [server |-> tmux.server, order |-> c]
  BY <1>3 DEF IInv, WorldInv
<1> HIDE DEF o, c
<1>7. \A i \in DOMAIN c : \E n \in DOMAIN o : c[i] = o[n]
  <2>1. k \in Nat /\ k >= 1 /\ Len(o) \in Nat /\ DOMAIN o = 1 .. Len(o)
    BY <1>2, <1>4
  <2>2. k - (k - 1) = 1 /\ k - 1 < k
    BY <2>1
  <2>3. Len(c) = Len(o) - 1
    BY <1>5, <2>2
  <2>4. DOMAIN c = 1 .. Len(o) - 1
    BY <1>5, <2>3
  <2>5. \A i \in DOMAIN c : c[i] = o[i] \/ c[i] = o[i + 1]
    BY <1>5, <2>2
  <2> QED
    BY <2>1, <2>4, <2>5
<1>8. \A i \in DOMAIN c : OfServer(c[i], tmux.server)
  BY <1>2, <1>7
<1>9. WorldInv'
  BY <1>1, <1>2, <1>5, <1>6, <1>8 DEF IInv, WorldInv
<1> QED
  BY <1>1, <1>9, WorldStep

LEMMA RestartStep ==
  ASSUME IInv, RestartTmux
  PROVE  IInv'
<1>1. /\ Mishap /\ UNCHANGED <<modelVars, form, todo, queue, last_id, ghosts>>
      /\ events' \in 0 .. MaxEvents
  BY EventsIn DEF RestartTmux, Happens
<1> DEFINE s == tmux.server + 1
<1>2. s \in DOMAIN PanesOn /\ tmux' = [server |-> s, order |-> PanesOn[s]]
  BY DEF RestartTmux
<1> HIDE DEF s
<1>3. PanesOn[s] \in Seq(Nat \ {0})
  BY <1>2, TuiConstants
<1>4. \A i \in DOMAIN PanesOn[s] : OfServer(PanesOn[s][i], s)
  BY <1>2 DEF OfServer
<1>5. WorldInv'
  BY <1>1, <1>2, <1>3, <1>4 DEF IInv, WorldInv
<1> QED
  BY <1>1, <1>5, WorldStep

-----------------------------------------------------------------------------
(***************************************************************************)
(* The invariant, and what follows from it.                                *)
(***************************************************************************)
LEMMA InitOK ==
  ASSUME Init
  PROVE  IInv
<1>1. /\ queue \in Seeds /\ queue \in Seq(Job) /\ form = fresh /\ todo = Primed /\ tab = "NewNudge"
      /\ last_id = IF queue = <<>> THEN 0 ELSE queue[Len(queue)].id
      /\ tmux = [server |-> 1, order |-> PanesOn[1]] /\ events = 0 /\ keys = 0
      /\ DOMAIN queue = 1 .. Len(queue) /\ Len(queue) \in Nat
  BY SeedsAreQueues DEF Init
<1>2. 1 \in DOMAIN PanesOn /\ PanesOn[1] \in Seq(Nat \ {0})
  <2>1. Len(PanesOn) \in Nat /\ Len(PanesOn) # 0
    BY TuiConstants
  <2> QED
    BY <2>1, TuiConstants
<1>3. \A k \in DOMAIN queue :
        /\ queue[k] \in Job /\ queue[k].id \in Nat
        /\ queue[k].origin = queue[k].id /\ queue[k].id <= MaxId /\ StampTrue(queue[k].target)
        /\ \A j \in DOMAIN queue : j < k => queue[j].id < queue[k].id
  <2>1. \A k \in DOMAIN queue : queue[k] \in Job
    BY <1>1
  <2>2. \A k \in DOMAIN queue : queue[k].id \in Nat
    BY <2>1 DEF Job
  <2> QED
    BY <1>1, <2>1, <2>2, SeedsAreQueues
<1>4. last_id \in 0 .. MaxId
  <2>1. CASE queue = <<>>
    BY <1>1, <2>1, TuiConstants
  <2>2. CASE queue # <<>>
    <3>1. Len(queue) \in DOMAIN queue
      BY <1>1, <2>2
    <3>2. queue[Len(queue)].id \in Nat /\ queue[Len(queue)].id <= MaxId /\ MaxId \in Nat
      BY <1>3, <3>1, TuiConstants
    <3>3. last_id = queue[Len(queue)].id
      BY <1>1, <2>2
    <3> QED
      BY <3>2, <3>3
  <2> QED
    BY <2>1, <2>2
<1>5. QueueOK(queue, last_id)
  <2> SUFFICES ASSUME NEW k \in DOMAIN queue
               PROVE  /\ queue[k].id <= last_id /\ queue[k].origin <= last_id
                      /\ StampTrue(queue[k].target)
                      /\ \A j \in DOMAIN queue :
                           (queue[j].id = queue[k].id \/ queue[j].origin = queue[k].origin) => j = k
    BY DEF QueueOK
  <2>1. Len(queue) \in DOMAIN queue /\ queue # <<>> /\ k \in Nat
    BY <1>1
  <2>2. queue[k].id <= queue[Len(queue)].id
    <3> DEFINE last == Len(queue)
    <3>1. k = last \/ k < last
      BY <1>1
    <3>2. last \in DOMAIN queue
      BY <2>1
    <3> HIDE DEF last
    <3>3. queue[k].id \in Nat /\ queue[last].id \in Nat /\ (k < last => queue[k].id < queue[last].id)
      BY <1>3, <3>2, Zenon
    <3>4. queue[k].id <= queue[last].id
      BY <3>1, <3>3
    <3> QED
      BY <3>4 DEF last
  <2>3. ASSUME NEW j \in DOMAIN queue, queue[j].id = queue[k].id PROVE j = k
    <3>1. j \in Nat /\ ~(j < k) /\ ~(k < j)
      BY <1>1, <1>3, <2>3
    <3> QED
      BY <2>1, <3>1
  <2> QED
    BY <1>1, <1>3, <2>1, <2>2, <2>3
<1>6. WorldInv
  BY <1>1, <1>2, <1>4, <1>5, TuiConstants DEF WorldInv, OfServer
<1>7. ModelInv
  <2>1. keys \in 0 .. MaxKeys
    BY <1>1, TuiConstants
  <2>2. jobs = <<>> /\ jobs \in Seq(Job) /\ \A k \in DOMAIN jobs : StampTrue(jobs[k].target)
    <3>1. jobs = <<>>
      BY DEF Init
    <3> QED
      BY <3>1
  <2>3. /\ tab = "NewNudge" /\ after_submit = "Quit" /\ quit = FALSE /\ selected = 1
        /\ seen = None /\ pane_server = None
    BY DEF Init
  <2>4. None \in Option(Nat) /\ selected \in Nat \ {0}
    BY <2>3 DEF Option
  <2> QED
    BY <2>1, <2>2, <2>3, <2>4 DEF ModelInv
<1>8. ScreenInv
  BY <1>1, FreshOK DEF Init, ScreenInv, FormInv, ViewOK, TodoOK
<1> QED
  BY <1>6, <1>7, <1>8 DEF IInv

LEMMA NextKeeps ==
  ASSUME IInv, [Next]_vars
  PROVE  IInv'
<1>1. CASE Next
  BY <1>1, KeysKeep, TickStep, PollStep, ListStep, CaptureStep, ScheduleStep, ReplaceStep,
     CancelStep, FireStep, CloseStep, RestartStep DEF Next, Effects
<1>2. CASE UNCHANGED vars
  <2>1. /\ UNCHANGED <<tab, jobs, seen, selected, pane_server, after_submit, quit, keys>>
        /\ UNCHANGED <<queue, last_id, tmux, events, form, todo, opened, touched>>
    BY <1>2 DEF vars, modelVars, worldVars, ghosts, history
  <2>2. ModelInv' /\ WorldInv'
    BY <2>1 DEF IInv, ModelInv, WorldInv
  <2>3. ScreenInv'
    BY <2>1 DEF IInv, ScreenInv, Listing, Primed
  <2> QED
    BY <2>2, <2>3 DEF IInv
<1> QED
  BY <1>1, <1>2

\* The inductive invariant holds in every state of the dashboard.
THEOREM DashboardInvariant == Spec => []IInv
<1>1. Init => IInv
  BY InitOK
<1>2. IInv /\ [Next]_vars => IInv'
  BY NextKeeps
<1> QED
  BY <1>1, <1>2, PTL DEF Spec
LEMMA InvariantGivesTypes ==
  ASSUME IInv
  PROVE  TypeOK
BY FormHere DEF TypeOK, IInv, ModelInv, WorldInv

LEMMA InvariantGivesEditKeepsRest ==
  ASSUME IInv
  PROVE  EditKeepsRest
<1> SUFFICES ASSUME NEW k \in DOMAIN todo, todo[k].do = "Replace"
             PROVE  todo[k].id = opened.id /\ KeepsRest(todo[k].spec, opened, touched)
  BY DEF EditKeepsRest, KeepsRest
<1>1. TodoOK(todo, form, opened, touched) /\ FormInv(form, pane_server, opened, touched)
  BY DEF IInv, ScreenInv
<1>2. ASSUME NEW a, todo = <<a>> PROVE todo[k] = a
  BY <1>2
<1>3. ASSUME NEW a, NEW b, todo = <<a, b>> PROVE todo[k] \in {a, b}
  BY <1>3
<1>4. Poll.do # "Replace" /\ List.do # "Replace" /\ \A at : Capture(at).do # "Replace"
  BY DEF Poll, List, Capture
<1>5. CASE todo \in {<<>>, <<Poll>>, <<List>>, Primed}
  BY <1>2, <1>3, <1>4, <1>5 DEF Primed
<1>6. CASE \E at : todo = <<Capture(at)>> \/ todo = <<Poll, Capture(at)>>
  BY <1>2, <1>3, <1>4, <1>6
<1>7. CASE \E s \in JobSpec : todo = <<[do |-> "Schedule", spec |-> s]>>
  BY <1>2, <1>7
<1>8. CASE \E id \in Nat : todo = <<[do |-> "Cancel", id |-> id]>>
  BY <1>2, <1>8
<1>9. CASE \E s \in JobSpec : /\ form.editing # 0 /\ KeepsRest(s, opened, touched)
                              /\ todo = <<[do |-> "Replace", id |-> form.editing, spec |-> s]>>
  <2>1. PICK s \in JobSpec : /\ form.editing # 0 /\ KeepsRest(s, opened, touched)
                             /\ todo = <<[do |-> "Replace", id |-> form.editing, spec |-> s]>>
    BY <1>9
  <2>2. todo[k] = [do |-> "Replace", id |-> form.editing, spec |-> s]
    BY <1>2, <2>1
  <2>3. form.editing = opened.id
    BY <1>1, <2>1 DEF FormInv, Faithful
  <2> QED
    BY <2>1, <2>2, <2>3
<1> QED
  BY <1>1, <1>5, <1>6, <1>7, <1>8, <1>9 DEF TodoOK

\* Every part of the dashboard holds a value of its kind, whatever jobs, panes
\* and keys it meets (tui/model.rs, Model).
THEOREM DashboardTypes == Spec => []TypeOK
BY DashboardInvariant, InvariantGivesTypes, PTL

\* The modes of the form agree, after any sequence of keys and replies
\* (sync_when_editing, move_focus).
THEOREM FormStaysCoherent == Spec => []FormCoherent
<1>1. IInv => FormCoherent
  BY FormHere DEF FormOK, Coherent, FormCoherent
<1> QED
  BY <1>1, DashboardInvariant, PTL

\* The cursor stays on the focused text, of any length (tui/model.rs, cursor).
THEOREM CursorStaysInRange == Spec => []CursorInRange
<1>1. IInv => CursorInRange
  BY FormHere DEF FormOK, CursorOn, CursorInRange
<1> QED
  BY <1>1, DashboardInvariant, PTL

\* What is shown of a pane's banner was read off the pane in view, however the
\* picker, the selection and the list of panes change (capture_selected).
THEOREM ShownReadingIsOfActivePane == Spec => []ShownIsOfActivePane
<1>1. IInv => ShownIsOfActivePane
  BY DEF IInv, ScreenInv, ViewOK, ShownIsOfActivePane
<1> QED
  BY <1>1, DashboardInvariant, PTL

\* A saved edit of any job changes what the user changed and nothing else
\* (enter_edit, build_spec).
THEOREM SavedEditKeepsRest == Spec => []EditKeepsRest
BY DashboardInvariant, InvariantGivesEditKeepsRest, PTL

\* However often an edit is saved, with replies lost, one job at most comes of
\* the one it was opened on (Effect::Replace).
THEOREM SavedEditNotDoubled == Spec => []EditNotDoubled
<1>1. IInv => EditNotDoubled
  BY DEF IInv, WorldInv, QueueOK, EditNotDoubled
<1> QED
  BY <1>1, DashboardInvariant, PTL

\* Every job the dashboard made or left alone names a pane of the tmux server
\* it is stamped with (build_spec, pane_server).
THEOREM StampsAreTrue == Spec => []StampIsTrue
<1>1. IInv => StampIsTrue
  BY DEF IInv, WorldInv, QueueOK, StampIsTrue
<1> QED
  BY <1>1, DashboardInvariant, PTL

\* The word motions go where vim's go, from every place of whatever texts the
\* form comes to hold (next_word, prev_word).
THEOREM WordMotionsAreVims == Spec => []WordMotions
<1>1. IInv => WordMotions
  <2>1. IInv => form.message \in Seq(char_class) /\ form.manual \in Seq(char_class)
    BY FormHere DEF FormTyped
  <2> QED
    BY <2>1, NextWordIsVims, PrevWordIsVims DEF WordMotions
<1> QED
  BY <1>1, DashboardInvariant, PTL

\* The cursor is drawn in a column of its field and on a row that is shown, for
\* texts and fields of any width and however few rows the screen can spare
\* (wrap_starts, form_view).
THEOREM CursorIsShown == Spec => []CursorHasColumn
<1>1. IInv => CursorHasColumn
  <2> SUFFICES ASSUME IInv, IsText(form), NEW width \in 1 .. MaxText
               PROVE  LET starts == wrap_starts(TextOf(form), width)
                      IN /\ Column(starts, drawn_at) \in 0 .. width - 1
                         /\ \A spare \in 0 .. MaxText :
                              LET shown == RowsShown(starts, spare, drawn_at)
                              IN /\ Row(starts, drawn_at) \in shown
                                 /\ shown \subseteq 0 .. Cardinality(starts) - 1
    BY DEF CursorHasColumn
  <2> DEFINE t == TextOf(form)
             n == Len(t)
             starts == wrap_starts(t, width)
             at == drawn_at
  <2>1. t \in Seq(char_class) /\ form.cursor \in Nat
    BY FormHere, TextTyped DEF FormTyped, FormOK
  <2>2. n \in Nat
    BY <2>1
  <2>3. at \in 0 .. n
    <3>1. at = Least(form.cursor, IF form.nav = "Normal" THEN Pred(n) ELSE n)
      BY DEF drawn_at, text_len
    <3> HIDE DEF at, n
    <3> QED
      BY <2>1, <2>2, <3>1 DEF Least, Pred
  <2>4. width \in Nat \ {0}
    BY TuiConstants
  <2>5. /\ starts \in SUBSET (0 .. n) /\ 0 \in starts
        /\ \A s \in starts : n - s >= width => \E r \in starts : s < r /\ r <= s + width
    <3>1. starts \subseteq 0 .. n /\ 0 \in starts
          /\ \A s \in starts : n - s >= width => \E r \in starts : s < r /\ r <= s + width
      BY <2>1, <2>4, WrapStartsAre, Zenon
    <3> QED
      BY <3>1, Zenon
  <2> HIDE DEF t, n, starts, at
  <2>6. Column(starts, at) \in 0 .. width - 1
    BY <2>2, <2>3, <2>4, <2>5, ColumnIn
  <2>7. Cardinality(starts) \in Nat /\ Row(starts, at) \in 0 .. Cardinality(starts) - 1
    BY <2>2, <2>3, <2>5, RowIn
  <2>8. ASSUME NEW spare \in 0 .. MaxText
        PROVE  LET shown == RowsShown(starts, spare, at)
               IN Row(starts, at) \in shown /\ shown \subseteq 0 .. Cardinality(starts) - 1
    <3>1. spare \in Nat
      BY TuiConstants
    <3> QED
      BY <2>7, <3>1, RowsShownIn, Zenon
  <2> QED
    BY <2>6, <2>8, Zenon DEF t, starts, at
<1> QED
  BY <1>1, DashboardInvariant, PTL

-----------------------------------------------------------------------------
(***************************************************************************)
(* The picker.                                                             *)
(***************************************************************************)
\* What a label is made of.
Glyphs == STRING \cup {"%", " "}

LEMMA Prefixed ==
  ASSUME NEW A, NEW a, NEW b, NEW B, B = A \cup {a, b}, NEW s \in Seq(A)
  PROVE  <<a, b>> \o s \in Seq(B)
<1>1. s \in Seq(B) /\ <<a, b>> \in Seq(B)
  OBVIOUS
<1> QED
  BY <1>1, ConcatProperties

LEMMA LabelTyped ==
  ASSUME NEW p, Title[p.id] \in Seq(STRING)
  PROVE  Label(p) \in Seq(Glyphs)
<1>1. Glyphs = STRING \cup {"%", " "}
  BY Zenon DEF Glyphs
<1> QED
  BY <1>1, Prefixed, Zenon DEF Label

\* The pane selected is one of those listed.
Held(f) == f.panes # <<>> => f.pane_idx \in DOMAIN f.panes

\* An open picker lists what its query matches, and highlights one of them.
Listed(f) == f.picker.matches = filter(f.picker.query, pane_labels(f.panes))

Picking(f) ==
  f.picker.nav # None =>
    /\ f.picker.query \in Seq(Letters) /\ Listed(f)
    /\ f.picker.highlight \in Nat
    /\ f.picker.matches # <<>> => f.picker.highlight \in DOMAIN f.picker.matches

\* While it is open, its form is in view and no list of the panes is asked for.
PickInv ==
  /\ Held(form) /\ Picking(form)
  /\ form.picker.nav # None => tab = "NewNudge" /\ todo \notin {<<List>>, Primed}

\* The panes of the form are of a server, and have titles.
LEMMA LabelsTyped ==
  ASSUME IInv
  PROVE  \E n \in Nat : /\ DOMAIN form.panes = 1 .. n
                        /\ pane_labels(form.panes) \in [1 .. n -> Seq(Glyphs)]
<1>1. form.panes \in Seq(Pane)
  BY FormHere DEF FormTyped
<1>2. PICK n \in Nat : DOMAIN form.panes = 1 .. n
  BY <1>1
<1>3. ASSUME NEW i \in DOMAIN form.panes PROVE Label(form.panes[i]) \in Seq(Glyphs)
  <2>1. OfServer(form.panes[i].id, pane_server)
    BY DEF IInv, ScreenInv, FormInv
  <2>2. Title[form.panes[i].id] \in Seq(STRING)
    BY <2>1, TitlesAreText, Zenon DEF OfServer
  <2> QED
    BY <2>2, LabelTyped, Zenon
<1>4. pane_labels(form.panes) = [i \in 1 .. n |-> Label(form.panes[i])]
  BY <1>2, Zenon DEF pane_labels
<1>5. ASSUME NEW i \in 1 .. n PROVE Label(form.panes[i]) \in Seq(Glyphs)
  BY <1>2, <1>3, Zenon
<1>6. [i \in 1 .. n |-> Label(form.panes[i])] \in [1 .. n -> Seq(Glyphs)]
  BY <1>5, Zenon
<1> QED
  BY <1>2, <1>4, <1>6, Zenon

LEMMA Filters ==
  ASSUME IInv, NEW q \in Seq(Letters)
  PROVE  /\ filter(q, pane_labels(form.panes)) \in Seq(DOMAIN form.panes)
         /\ Offers(filter(q, pane_labels(form.panes)), q, pane_labels(form.panes))
<1>1. PICK n \in Nat : /\ DOMAIN form.panes = 1 .. n
                       /\ pane_labels(form.panes) \in [1 .. n -> Seq(Glyphs)]
  BY LabelsTyped, Zenon
<1>2. PICK labels : labels = pane_labels(form.panes)
  OBVIOUS
<1>3. labels \in [1 .. n -> Seq(Glyphs)]
  BY <1>1, <1>2, Zenon
<1>4. filter(q, labels) \in Seq(1 .. n) /\ Offers(filter(q, labels), q, labels)
  BY <1>3, FilterIs, Zenon
<1> QED
  BY <1>1, <1>2, <1>4, Zenon

\* A form with the same panes and picker.
Same(f, g) == g.panes = f.panes /\ g.pane_idx = f.pane_idx /\ g.picker = f.picker

LEMMA SameHolds ==
  ASSUME NEW f, NEW g, Same(f, g), Held(f), Picking(f)
  PROVE  Held(g) /\ Picking(g)
<1>1. Held(g)
  BY DEF Same, Held
<1>2. Listed(f) => Listed(g)
  BY Zenon DEF Same, Listed
<1> QED
  BY <1>1, <1>2 DEF Same, Picking

LEMMA EditsSame ==
  ASSUME NEW f, NEW g, NEW field, Edits(f, g, field)
  PROVE  Same(f, g)
BY DEF Edits, Same

LEMMA UncapturedSame ==
  ASSUME NEW f, FormTyped(f)
  PROVE  Same(f, Uncaptured(f))
BY DEF Uncaptured, Same, FormTyped

LEMMA SameStep ==
  ASSUME PickInv, Same(form, form'),
         form.picker.nav # None => tab' = "NewNudge" /\ todo' \notin {<<List>>, Primed}
  PROVE  PickInv'
<1>1. Held(form') /\ Picking(form') /\ form'.picker = form.picker
  BY SameHolds DEF PickInv, Same
<1> QED
  BY <1>1 DEF PickInv

\* And a step that leaves the picker closed.
LEMMA ClosedStep ==
  ASSUME Held(form'), form'.picker.nav = None
  PROVE  PickInv'
BY DEF PickInv, Picking

LEMMA CaptureIsNotList ==
  ASSUME NEW g
  PROVE  capture_selected(g) \notin {<<List>>, Primed}
<1> DEFINE c == [do |-> "CapturePane", pane |-> active_pane(g).target]
<1>1. c # List
  BY DEF List
<1> HIDE DEF c
<1>2. <<c>> \notin {<<List>>, Primed}
  BY <1>1 DEF Primed
<1> QED
  BY <1>2, PollIsNotList DEF capture_selected, c

LEMMA Wrapped ==
  ASSUME NEW n \in Nat, NEW i \in 1 .. n, NEW d \in {-1, 1}
  PROVE  wrap_index(i, d, n) \in 1 .. n
<1>1. CASE n = 1
  BY <1>1 DEF wrap_index
<1>2. CASE n # 1
  <2>1. (i - 1 + d) % n \in 0 .. n - 1
    BY <1>2
  <2> QED
    BY <2>1 DEF wrap_index
<1> QED
  BY <1>1, <1>2

\* A key of the form, which leaves the picker closed.
LEMMA FormKey ==
  ASSUME IInv, PickInv, OnForm, NEW g, NEW field, Edits(form, g, field),
         form' = g \/ form' = Uncaptured(g), FormTyped(g)
  PROVE  PickInv'
<1>1. Same(form, g) /\ Same(g, Uncaptured(g))
  BY EditsSame, UncapturedSame
<1>2. Same(form, form')
  BY <1>1 DEF Same
<1>3. form.picker.nav = None
  BY DEF OnForm
<1> QED
  BY <1>2, <1>3, SameStep

LEMMA QuietPick ==
  ASSUME IInv, PickInv,
         \/ Esc \/ CancelOperator
         \/ \E d \in {-1, 1} : MoveFocus(d) \/ ArrowInsert(d)
         \/ \E at \in {"Here", "After", "End", "Start"} : EnterInsert(at)
         \/ \E m \in Motions : Motion(m)
         \/ \E o \in {"d", "c"} : Operator(o)
  PROVE  PickInv'
<1> USE FormHere
<1> DEFINE Quiet(g) == FormOK(g) /\ Edits(form, g, "none")
<1>0. ASSUME NEW g, Quiet(g), OnForm, form' = g PROVE PickInv'
  BY <1>0, FormKey DEF FormOK
<1>1. CASE Esc
  BY <1>0, <1>1, EscOK DEF Esc, Inserting, Becomes
<1>2. CASE CancelOperator
  BY <1>0, <1>2, OpOK DEF CancelOperator, Becomes
<1>3. ASSUME NEW d \in {-1, 1}, MoveFocus(d) PROVE PickInv'
  BY <1>0, <1>3, MoveFocusOK DEF MoveFocus, Becomes
<1>4. ASSUME NEW d \in {-1, 1}, ArrowInsert(d) PROVE PickInv'
  <2> DEFINE g == IF d = 1 THEN cursor_right_insert(form) ELSE cursor_left(form)
  <2>1. Quiet(g)
    BY <1>4, ArrowOK DEF ArrowInsert, Inserting
  <2>2. OnForm /\ form' = g
    BY <1>4 DEF ArrowInsert, Inserting, Becomes
  <2> HIDE DEF g, Quiet
  <2> QED
    BY <1>0, <2>1, <2>2
<1>5. ASSUME NEW at \in {"Here", "After", "End", "Start"}, EnterInsert(at) PROVE PickInv'
  BY <1>0, <1>5, EnterInsertOK DEF EnterInsert, Commanding, Becomes
<1>6. ASSUME NEW m \in Motions, Motion(m) PROVE PickInv'
  BY <1>0, <1>6, MotionOK DEF Motion, Commanding, Becomes
<1>7. ASSUME NEW o \in {"d", "c"}, Operator(o) PROVE PickInv'
  BY <1>0, <1>7, OpOK DEF Operator, Commanding, Becomes
<1> QED
  BY <1>1, <1>2, <1>3, <1>4, <1>5, <1>6, <1>7

LEMMA EditingPick ==
  ASSUME IInv, PickInv,
         \/ Backspace \/ Toggle
         \/ \E ch \in Chars : Type(ch)
         \/ \E k \in {"x", "D", "C"} : Delete(k)
         \/ \E m \in Motions \cup {"line"} : Operate(m)
  PROVE  PickInv'
<1> USE FormHere
<1> DEFINE Changes(g) == FormOK(g) /\ Edits(form, g, FieldOf(form))
<1>0. ASSUME NEW g, Changes(g), OnForm, form' = g PROVE PickInv'
  BY <1>0, FormKey DEF FormOK
<1>1. CASE Backspace
  BY <1>0, <1>1, BackspaceOK DEF Backspace, Inserting, Becomes
<1>2. ASSUME NEW ch \in Chars, Type(ch) PROVE PickInv'
  <2>1. ch \in char_class
    BY TuiConstants
  <2> QED
    BY <1>0, <1>2, <2>1, TypeCharOK DEF Type, Inserting, Becomes
<1>3. ASSUME NEW k \in {"x", "D", "C"}, Delete(k) PROVE PickInv'
  BY <1>0, <1>3, DeleteKeyOK DEF Delete, Commanding, Becomes
<1>4. ASSUME NEW m \in Motions \cup {"line"}, Operate(m) PROVE PickInv'
  BY <1>0, <1>4, OperatorOK DEF Operate, Becomes
<1>5. CASE Toggle
  <2>1. Same(form, toggle_flag(form)) /\ form' = toggle_flag(form) /\ form.picker.nav = None
    BY <1>5 DEF Toggle, Becomes, OnForm, toggle_flag, Same, FormTyped
  <2> QED
    BY <2>1, SameStep
<1> QED
  BY <1>1, <1>2, <1>3, <1>4, <1>5

LEMMA ChangePick ==
  ASSUME IInv, PickInv, NEW d \in {-1, 1}, change_value(d)
  PROVE  PickInv'
<1>1. OnForm /\ form.picker.nav = None
  BY DEF change_value, OnForm
<1>2. CASE ChangePane(d)
  <2> DEFINE i == wrap_index(form.pane_idx, d, Len(form.panes))
             g == [form EXCEPT !.pane_idx = i]
  <2>1. form' = Uncaptured(g) /\ form.panes # <<>>
    BY <1>2 DEF ChangePane, Recapture
  <2>2. form.panes \in Seq(Pane) /\ form.pane_idx \in 1 .. Len(form.panes)
    BY <2>1, FormHere DEF FormTyped, PickInv, Held
  <2>3. i \in DOMAIN form.panes
    <3>1. Len(form.panes) \in Nat /\ DOMAIN form.panes = 1 .. Len(form.panes)
      BY <2>2
    <3>2. i \in 1 .. Len(form.panes)
      BY <2>2, <3>1, Wrapped, Zenon
    <3> QED
      BY <3>1, <3>2, Zenon
  <2> HIDE DEF i
  <2>4. g.panes = form.panes /\ g.pane_idx = i /\ g.picker = form.picker /\ FormTyped(g)
    BY FormHere DEF FormTyped
  <2> HIDE DEF g
  <2>5. Same(g, form')
    BY <2>1, <2>4, UncapturedSame
  <2>6. Held(form') /\ form'.picker.nav = None
    BY <1>1, <2>3, <2>4, <2>5 DEF Held, Same
  <2> QED
    BY <2>6, ClosedStep
<1>3. CASE ChangeWhen
  <2> DEFINE g == [form EXCEPT !.when = cycle_when(form)]
  <2>1. form.focus = "when" /\ ~IsText(form)
    BY <1>3 DEF ChangeWhen, change_value
  <2>2. FormOK(g) /\ Edits(form, g, "when")
    BY <2>1, FormHere, CycleWhenOK
  <2>3. form' = g \/ form' = Uncaptured(g)
    BY <1>3 DEF ChangeWhen, Recapture
  <2> HIDE DEF g
  <2> QED
    BY <1>1, <2>2, <2>3, FormKey DEF FormOK
<1> QED
  BY <1>2, <1>3 DEF change_value

LEMMA BesidePick ==
  ASSUME IInv, PickInv,
         \/ Quit \/ LeaveForm \/ AskPoll \/ AskCancel \/ ToForm \/ Tick
         \/ \E d \in {-1, 1} : Select(d)
         \/ \E after \in {"Quit", "Jobs"} : Submit(after)
  PROVE  PickInv'
<1>1. Same(form, form)
  BY DEF Same
<1>2. CASE \/ AskPoll \/ AskCancel \/ ToForm \/ \E d \in {-1, 1} : Select(d)
  <2>1. form' = form /\ tab = "Jobs"
    BY <1>2 DEF AskPoll, AskCancel, ToForm, Select, OnJobs
  <2>2. form.picker.nav = None
    BY <2>1 DEF PickInv
  <2> QED
    BY <1>1, <2>1, <2>2, SameStep
<1>3. CASE LeaveForm \/ \E after \in {"Quit", "Jobs"} : Submit(after)
  <2>1. OnForm /\ (form' = form \/ form' = [form EXCEPT !.op = None])
    BY <1>3 DEF LeaveForm, Submit
  <2>2. Same(form, form') /\ form.picker.nav = None
    BY <2>1, FormHere DEF OnForm, Same, FormTyped
  <2> QED
    BY <2>2, SameStep
<1>4. CASE Quit
  BY <1>1, <1>4, SameStep DEF Quit, PickInv
<1>5. CASE Tick
  <2>1. PICK poll, stale \in BOOLEAN :
          LET shown == tab = "NewNudge" /\ selected_pane(form) # None /\ (stale \/ ~form.captured)
          IN /\ todo' = (IF poll THEN <<Poll>> ELSE <<>>)
                          \o (IF shown THEN capture_selected(form) ELSE <<>>)
             /\ form' = IF shown THEN Uncaptured(form) ELSE form
    BY <1>5 DEF Tick
  <2>2. Same(form, form') /\ tab' = tab
    BY <1>1, <1>5, <2>1, FormHere, UncapturedSame DEF Tick, modelVars
  <2> DEFINE s == IF poll THEN <<Poll>> ELSE <<>>
             c == [do |-> "CapturePane", pane |-> active_pane(form).target]
  <2>3. s = <<>> \/ s = <<Poll>>
    OBVIOUS
  <2>4. c # List
    BY DEF List
  <2>5. todo' = s \o <<>> \/ todo' = s \o <<c>>
    BY <2>1 DEF capture_selected
  <2> HIDE DEF c, s
  <2>6. todo' = <<>> \/ todo' = <<Poll>> \/ todo' = <<c>> \/ todo' = <<Poll, c>>
    BY <2>3, <2>5, Joined
  <2>7. <<c>> \notin {<<List>>, Primed} /\ <<Poll, c>> \notin {<<List>>, Primed}
    BY <2>4 DEF Primed
  <2>8. todo' \notin {<<List>>, Primed}
    BY <2>6, <2>7, PollIsNotList
  <2> QED
    BY <2>2, <2>8, SameStep DEF PickInv
<1> QED
  BY <1>2, <1>3, <1>4, <1>5

\* What a picker that is listed anew highlights.
LEMMA ListedAnew ==
  ASSUME IInv, NEW q \in Seq(Letters), NEW g, g.panes = form.panes, g.pane_idx = form.pane_idx,
         g.picker.query = q, g.picker.highlight = 1,
         g.picker.matches = filter(q, pane_labels(form.panes)), Held(form)
  PROVE  Held(g) /\ Picking(g)
<1>1. Held(g)
  BY DEF Held
<1>2. Listed(g)
  BY Zenon DEF Listed
<1>3. PICK D : D = DOMAIN form.panes
  OBVIOUS
<1>4. g.picker.matches \in Seq(D)
  BY <1>3, Filters, Zenon
<1>5. g.picker.matches # <<>> => 1 \in DOMAIN g.picker.matches
  BY <1>4
<1> QED
  BY <1>1, <1>2, <1>5 DEF Picking

\* A key of the picker that keeps it sound, whether or not it is captured.
LEMMA ViewingPick ==
  ASSUME OnPicker, UNCHANGED modelVars, PickInv, NEW g, Viewing(g) \/ Recapture(g), FormTyped(g),
         Held(g), Picking(g)
  PROVE  PickInv'
<1>1. form' = g \/ form' = Uncaptured(g)
  BY DEF Viewing, Recapture
<1>2. Held(form') /\ Picking(form')
  BY <1>1, UncapturedSame, SameHolds
<1>3. todo' = capture_selected(g) \/ todo' = todo
  BY DEF Viewing, Recapture
<1>4. tab' = "NewNudge" /\ todo = <<>>
  BY DEF OnPicker, modelVars, Key, Idle
<1>5. todo' \notin {<<List>>, Primed}
  BY <1>3, <1>4, CaptureIsNotList, PollIsNotList
<1> QED
  BY <1>2, <1>4, <1>5 DEF PickInv

LEMMA FilteredPick ==
  ASSUME IInv, PickInv, OnPicker, UNCHANGED modelVars, NEW q \in Seq(Letters), Filtered(q)
  PROVE  PickInv'
<1> DEFINE offered == filter(q, pane_labels(form.panes))
           g == [form EXCEPT !.picker.query = q, !.picker.highlight = 1, !.picker.matches = offered]
<1>1. Viewing(g)
  BY DEF Filtered
<1> HIDE DEF offered
<1>2. /\ g.panes = form.panes /\ g.pane_idx = form.pane_idx
      /\ g.picker.query = q /\ g.picker.highlight = 1 /\ g.picker.matches = offered /\ FormTyped(g)
  BY FormHere DEF FormTyped
<1> HIDE DEF g
<1>3. g.picker.matches = filter(q, pane_labels(form.panes))
  BY <1>2, Zenon DEF offered
<1>4. Held(g) /\ Picking(g)
  BY <1>2, <1>3, ListedAnew DEF PickInv
<1> QED
  BY <1>1, <1>2, <1>4, ViewingPick

LEMMA PickerPick ==
  ASSUME IInv, PickInv,
         \/ OpenPicker \/ PickBackspace \/ PickMode \/ PickCancel \/ PickEnter
         \/ \E c \in Letters : PickType(c)
         \/ \E d \in {-1, 1} : PickMove(d)
  PROVE  PickInv'
<1>0. ASSUME OnPicker
      PROVE  /\ form.picker.query \in Seq(Letters) /\ Listed(form) /\ form.picker.highlight \in Nat
             /\ form.picker.matches # <<>> => form.picker.highlight \in DOMAIN form.picker.matches
             /\ form.picker.matches \in Seq(DOMAIN form.panes)
  <2>1. form.picker.nav # None
    BY <1>0 DEF OnPicker
  <2>2. /\ form.picker.query \in Seq(Letters) /\ Listed(form) /\ form.picker.highlight \in Nat
        /\ form.picker.matches # <<>> => form.picker.highlight \in DOMAIN form.picker.matches
    BY <2>1, Zenon DEF PickInv, Picking
  <2>3. form.picker.matches \in Seq(DOMAIN form.panes)
    BY <2>2, Filters, Zenon DEF Listed
  <2> QED
    BY <2>2, <2>3, Zenon
<1>1. CASE OpenPicker
  <2> DEFINE offered == filter(<<>>, pane_labels(form.panes))
             g == [form EXCEPT !.op = None,
                     !.picker = [query |-> <<>>, highlight |-> 1, nav |-> "Insert",
                                 matches |-> offered]]
  <2>1. Recapture(g) /\ Key /\ tab = "NewNudge" /\ UNCHANGED modelVars
    BY <1>1 DEF OpenPicker, Opening, OnForm
  <2> HIDE DEF offered
  <2>2. /\ g.panes = form.panes /\ g.pane_idx = form.pane_idx
        /\ g.picker.query = <<>> /\ g.picker.highlight = 1 /\ g.picker.matches = offered
        /\ FormTyped(g)
    BY FormHere DEF FormTyped, Option
  <2> HIDE DEF g
  <2>3. g.picker.matches = filter(<<>>, pane_labels(form.panes)) /\ <<>> \in Seq(Letters)
    BY <2>2 DEF offered
  <2>4. Held(g) /\ Picking(g)
    BY <2>2, <2>3, ListedAnew DEF PickInv
  <2>5. form' = Uncaptured(g) /\ todo' = capture_selected(g) /\ tab' = "NewNudge"
    BY <2>1 DEF Recapture, modelVars
  <2>6. Held(form') /\ Picking(form')
    BY <2>2, <2>4, <2>5, UncapturedSame, SameHolds
  <2> QED
    BY <2>5, <2>6, CaptureIsNotList DEF PickInv
<1>2. CASE PickBackspace
  <2> DEFINE q == SubSeq(form.picker.query, 1, Pred(Len(form.picker.query)))
  <2>1. OnPicker /\ Filtered(q) /\ UNCHANGED modelVars
    BY <1>2 DEF PickBackspace
  <2>2. form.picker.query \in Seq(Letters)
    BY <1>0, <2>1
  <2>3. q \in Seq(Letters)
    BY <2>2 DEF Pred
  <2> HIDE DEF q
  <2> QED
    BY <2>1, <2>3, FilteredPick
<1>3. ASSUME NEW c \in Letters, PickType(c) PROVE PickInv'
  <2> DEFINE q == Append(form.picker.query, c)
  <2>1. OnPicker /\ Filtered(q) /\ UNCHANGED modelVars
    BY <1>3 DEF PickType
  <2>2. form.picker.query \in Seq(Letters)
    BY <1>0, <2>1
  <2>3. q \in Seq(Letters)
    BY <2>2, AppendProperties
  <2> HIDE DEF q
  <2> QED
    BY <2>1, <2>3, FilteredPick
<1>4. ASSUME NEW d \in {-1, 1}, PickMove(d) PROVE PickInv'
  <2> DEFINE n == Len(form.picker.matches)
             h == IF n = 0 THEN form.picker.highlight ELSE wrap_index(form.picker.highlight, d, n)
             g == [form EXCEPT !.picker.highlight = h]
  <2>1. OnPicker /\ Viewing(g) /\ UNCHANGED modelVars
    BY <1>4 DEF PickMove
  <2>2. /\ form.picker.query \in Seq(Letters) /\ Listed(form) /\ form.picker.highlight \in Nat
        /\ form.picker.matches # <<>> => form.picker.highlight \in DOMAIN form.picker.matches
        /\ form.picker.matches \in Seq(DOMAIN form.panes)
    BY <1>0, <2>1
  <2>3. /\ n \in Nat /\ DOMAIN form.picker.matches = 1 .. n
        /\ n = 0 <=> form.picker.matches = <<>>
    <3>1. PICK D : D = DOMAIN form.panes
      OBVIOUS
    <3>2. form.picker.matches \in Seq(D)
      BY <2>2, <3>1
    <3> QED
      BY <3>2
  <2> HIDE DEF n
  <2>4. h \in Nat /\ (form.picker.matches # <<>> => h \in 1 .. n)
    <3>1. CASE n = 0
      BY <2>2, <2>3, <3>1
    <3>2. CASE n # 0
      <4>1. form.picker.highlight \in 1 .. n
        BY <2>2, <2>3, <3>2
      <4>2. wrap_index(form.picker.highlight, d, n) \in 1 .. n
        BY <2>3, <4>1, Wrapped, Zenon
      <4> QED
        BY <2>3, <3>2, <4>2
    <3> QED
      BY <3>1, <3>2
  <2> HIDE DEF h
  <2>5. /\ g.panes = form.panes /\ g.pane_idx = form.pane_idx
        /\ g.picker.query = form.picker.query /\ g.picker.matches = form.picker.matches
        /\ g.picker.highlight = h /\ FormTyped(g)
    BY FormHere DEF FormTyped
  <2> HIDE DEF g
  <2>6. Held(g)
    BY <2>5 DEF PickInv, Held
  <2>7. Listed(g)
    BY <2>2, <2>5, Zenon DEF Listed
  <2>8. Picking(g)
    BY <2>2, <2>3, <2>4, <2>5, <2>7, Zenon DEF Picking
  <2> QED
    BY <2>1, <2>5, <2>6, <2>8, ViewingPick
<1>5. CASE PickMode
  <2> DEFINE g == [form EXCEPT !.picker.nav = IF @ = "Insert" THEN "Normal" ELSE "Insert"]
  <2>1. OnPicker /\ form' = g /\ todo' = todo /\ tab' = tab
    BY <1>5 DEF PickMode, Becomes, modelVars
  <2>2. /\ g.panes = form.panes /\ g.pane_idx = form.pane_idx
        /\ g.picker.query = form.picker.query /\ g.picker.matches = form.picker.matches
        /\ g.picker.highlight = form.picker.highlight
    BY FormHere DEF FormTyped
  <2> HIDE DEF g
  <2>3. Listed(g)
    BY <1>0, <2>1, <2>2, Zenon DEF Listed
  <2>4. Picking(g)
    BY <1>0, <2>1, <2>2, <2>3, Zenon DEF Picking
  <2>5. Held(g)
    BY <2>2 DEF PickInv, Held
  <2>6. tab' = "NewNudge" /\ todo' \notin {<<List>>, Primed}
    BY <2>1, PollIsNotList DEF OnPicker, Key, Idle
  <2> QED
    BY <2>1, <2>4, <2>5, <2>6 DEF PickInv
<1>6. CASE PickCancel
  <2> DEFINE g == [form EXCEPT !.picker = closed]
  <2>1. form' = Uncaptured(g)
    BY <1>6 DEF PickCancel, Recapture
  <2>2. g.panes = form.panes /\ g.pane_idx = form.pane_idx /\ g.picker.nav = None /\ FormTyped(g)
    BY FormHere DEF FormTyped, closed, Option
  <2> HIDE DEF g
  <2>3. Held(form') /\ form'.picker.nav = None
    BY <2>1, <2>2, UncapturedSame DEF PickInv, Held, Same
  <2> QED
    BY <2>3, ClosedStep
<1>7. CASE PickEnter
  <2> DEFINE hit == At(form.picker.matches, form.picker.highlight)
             i == IF hit = None THEN form.pane_idx ELSE hit
             g == [form EXCEPT !.picker = closed, !.pane_idx = i]
  <2>1. form' = Uncaptured(g) /\ OnPicker
    BY <1>7 DEF PickEnter, Recapture
  <2>2. form.picker.matches \in Seq(DOMAIN form.panes)
    BY <1>0, <2>1
  <2>3. form.panes # <<>> => i \in DOMAIN form.panes
    <3>1. PICK D : D = DOMAIN form.panes
      OBVIOUS
    <3>2. hit = None \/ hit \in D
      BY <2>2, <3>1 DEF At
    <3> QED
      BY <3>1, <3>2 DEF PickInv, Held
  <2> HIDE DEF i
  <2>4. g.panes = form.panes /\ g.pane_idx = i /\ g.picker.nav = None /\ FormTyped(g)
    BY FormHere DEF FormTyped, closed, Option
  <2> HIDE DEF g
  <2>5. Held(form') /\ form'.picker.nav = None
    BY <2>1, <2>3, <2>4, UncapturedSame DEF Held, Same
  <2> QED
    BY <2>5, ClosedStep
<1> QED
  BY <1>1, <1>2, <1>3, <1>4, <1>5, <1>6, <1>7

\* A pane looked up, or the first, is one of them.
LEMMA FirstOf ==
  ASSUME NEW S, NEW panes \in Seq(S), panes # <<>>, NEW at, at \subseteq DOMAIN panes
  PROVE  (IF at = {} THEN 1 ELSE Min(at)) \in DOMAIN panes
<1>1. Len(panes) \in Nat /\ Len(panes) # 0 /\ DOMAIN panes = 1 .. Len(panes)
  OBVIOUS
<1>2. 1 \in DOMAIN panes
  BY <1>1
<1>3. ASSUME at # {} PROVE Min(at) \in DOMAIN panes
  <2>1. at \in SUBSET Nat
    BY <1>1
  <2> QED
    BY <1>3, <2>1, MinOf
<1> QED
  BY <1>2, <1>3

LEMMA EditPick ==
  ASSUME IInv, PickInv, Edit
  PROVE  PickInv'
<1> DEFINE j == jobs[selected]
           g == enter_edit(form, j)
<1>1. form' = g
  BY DEF Edit
<1>2. j \in Job
  BY DEF Edit, At, IInv, ModelInv
<1> HIDE DEF j
<1>3. g.panes = form.panes /\ g.picker = closed
  BY <1>2, FormHere, JobsAreEditable, EnterEditOK
<1>4. g.pane_idx = PaneOf(form.panes, j.target)
  BY DEF enter_edit, fresh
<1>5. form.panes # <<>> => PaneOf(form.panes, j.target) \in DOMAIN form.panes
  <2> DEFINE at == {i \in DOMAIN form.panes :
                      form.panes[i].id = j.target.pane \/ form.panes[i].target = j.target.pane}
  <2>1. at \subseteq DOMAIN form.panes /\ form.panes \in Seq(Pane)
    BY FormHere DEF FormTyped
  <2>2. PaneOf(form.panes, j.target) = IF at = {} THEN 1 ELSE Min(at)
    BY Zenon DEF PaneOf
  <2> HIDE DEF at
  <2> QED
    BY <2>1, <2>2, FirstOf
<1> HIDE DEF g
<1>6. Held(form') /\ form'.picker.nav = None
  BY <1>1, <1>3, <1>4, <1>5 DEF Held, closed
<1> QED
  BY <1>6, ClosedStep

LEMMA KeysPick ==
  ASSUME IInv, PickInv, Keys
  PROVE  PickInv'
BY QuietPick, EditingPick, ChangePick, BesidePick, PickerPick, EditPick DEF Keys

\* What is left to do asks for no list that was not to be read already.
LEMMA RestIsNotList ==
  ASSUME IInv, PickInv, todo # <<>>, form.picker.nav # None
  PROVE  Tail(todo) \notin {<<List>>, Primed}
BY HeadTail DEF IInv, ScreenInv, PickInv

LEMMA DonePick ==
  ASSUME IInv, PickInv, todo # <<>>, Done \/ todo' = <<Poll>>, UNCHANGED <<form, tab>>
  PROVE  PickInv'
<1>1. Same(form, form')
  BY DEF Same
<1>2. form.picker.nav # None => tab' = "NewNudge" /\ todo' \notin {<<List>>, Primed}
  BY RestIsNotList, PollIsNotList DEF Done, PickInv
<1> QED
  BY <1>1, <1>2, SameStep

LEMMA ListPick ==
  ASSUME IInv, PickInv, RunList
  PROVE  PickInv'
<1>1. todo = <<List>> /\ todo # <<>> /\ tab = "NewNudge"
  BY HeadTail DEF RunList, Running, IInv, ScreenInv
<1>2. form.picker.nav = None
  BY <1>1 DEF PickInv
<1>3. CASE Failed
  BY <1>1, <1>3, DonePick DEF Failed, modelVars
<1>4. CASE ~Failed
  <2>1. PICK last : form' = Uncaptured(list(last))
    BY <1>1, <1>4 DEF RunList, PanesLoaded
  <2> DEFINE f == list(last)
  <2>2. /\ FormTyped(f) /\ f.panes = Listing /\ f.picker = form.picker
        /\ f.pane_idx = default_idx(Listing, last)
    BY FormHere, ListingTyped DEF list, FormTyped, IInv
  <2> HIDE DEF f
  <2>3. Listing # <<>> => default_idx(Listing, last) \in DOMAIN Listing
    <3> DEFINE at == {i \in DOMAIN Listing : Listing[i].id = last /\ last # Me}
    <3>1. at \subseteq DOMAIN Listing /\ Listing \in Seq(Pane)
      BY ListingTyped DEF IInv
    <3>2. default_idx(Listing, last) = IF at = {} THEN 1 ELSE Min(at)
      BY Zenon DEF default_idx
    <3> HIDE DEF at
    <3> QED
      BY <3>1, <3>2, FirstOf
  <2>4. Same(f, form')
    BY <2>1, <2>2, UncapturedSame DEF f
  <2>5. Held(form') /\ form'.picker.nav = None
    BY <1>2, <2>2, <2>3, <2>4 DEF Held, Same
  <2> QED
    BY <2>5, ClosedStep
<1> QED
  BY <1>3, <1>4

LEMMA FinishPick ==
  ASSUME IInv, PickInv, todo # <<>>, finish_submit
  PROVE  PickInv'
<1>1. CASE Done /\ UNCHANGED <<tab, form>>
  BY <1>1, DonePick
<1>2. CASE form' = fresh
  <2>1. Held(form') /\ form'.picker.nav = None
    BY <1>2, FreshOK DEF Held, closed
  <2> QED
    BY <2>1, ClosedStep
<1> QED
  BY <1>1, <1>2 DEF finish_submit

LEMMA EffectsPick ==
  ASSUME IInv, PickInv, Effects
  PROVE  PickInv'
<1>1. CASE RunPoll
  BY <1>1, DonePick DEF RunPoll, Running, JobsLoaded, Failed, modelVars
<1>2. CASE RunCapture
  <2>1. todo # <<>> /\ Done /\ tab' = tab
    BY <1>2 DEF RunCapture, Running, modelVars
  <2>2. PICK r : form' = [form EXCEPT !.detected = r]
    BY <1>2 DEF RunCapture
  <2>3. Same(form, form')
    BY <2>2, FormHere DEF Same, FormTyped
  <2> QED
    BY <2>1, <2>3, RestIsNotList, SameStep DEF Done, PickInv
<1>3. CASE RunSchedule \/ RunReplace \/ RunCancel
  <2>1. todo # <<>> /\ Head(todo).do # "PollJobs"
    BY <1>3 DEF RunSchedule, RunReplace, RunCancel, Running
  <2>2. Then(<<Poll>>) => todo' = <<Poll>>
    BY <2>1, Alone DEF Then
  <2>3. finish_submit \/ (UNCHANGED <<form, tab>> /\ (Done \/ Then(<<Poll>>)))
    BY <1>3 DEF RunSchedule, RunReplace, RunCancel, ReplyLost, AlreadyGone, Cancelled, Failed,
                modelVars
  <2> QED
    BY <2>1, <2>2, <2>3, FinishPick, DonePick
<1> QED
  BY <1>1, <1>2, <1>3, ListPick DEF Effects

LEMMA PickSteps ==
  ASSUME IInv, PickInv, [Next]_vars
  PROVE  PickInv'
<1>1. CASE \/ Fire \/ ClosePane \/ RestartTmux \/ UNCHANGED vars
  <2>1. UNCHANGED <<form, tab, todo>>
    BY <1>1 DEF Fire, ClosePane, RestartTmux, vars, modelVars
  <2>2. Same(form, form')
    BY <2>1 DEF Same
  <2> QED
    BY <2>1, <2>2, SameStep DEF PickInv
<1>2. CASE Tick
  BY <1>2, BesidePick
<1> QED
  BY <1>1, <1>2, KeysPick, EffectsPick DEF Next

LEMMA OffersShown ==
  ASSUME IInv, PickInv
  PROVE  PickerOffersMatches
<1>1. form.panes # <<>> => form.pane_idx \in DOMAIN form.panes
  BY DEF PickInv, Held
<1>2. ASSUME form.picker.nav # None
      PROVE LET p == form.picker  labels == pane_labels(form.panes)
            IN /\ {p.matches[r] : r \in DOMAIN p.matches}
                    = {i \in DOMAIN labels : IsSubsequence(p.query, labels[i])}
               /\ \A r, q \in DOMAIN p.matches : r < q =>
                    score(p.query, labels[p.matches[r]]).total >= score(p.query, labels[p.matches[q]]).total
               /\ p.matches # <<>> =>
                    \A h \in 1 .. Len(p.matches) :
                      /\ p.highlight \in MatchesShown(Len(p.matches), h, p.highlight)
                      /\ MatchesShown(Len(p.matches), h, p.highlight) \subseteq DOMAIN p.matches
  <2> DEFINE p == form.picker
             labels == pane_labels(form.panes)
  <2>1. /\ p.query \in Seq(Letters) /\ Listed(form) /\ p.highlight \in Nat
        /\ p.matches # <<>> => p.highlight \in DOMAIN p.matches
    BY <1>2, Zenon DEF PickInv, Picking
  <2>2. p.matches = filter(p.query, labels)
    BY <2>1, Zenon DEF Listed
  <2>3. p.matches \in Seq(DOMAIN form.panes) /\ Offers(p.matches, p.query, labels)
    BY <2>1, <2>2, Filters, Zenon
  <2> HIDE DEF labels, p
  <2>4. {p.matches[r] : r \in DOMAIN p.matches}
          = {i \in DOMAIN labels : IsSubsequence(p.query, labels[i])}
    BY <2>3 DEF Offers
  <2>5. \A r, q \in DOMAIN p.matches : r < q =>
          score(p.query, labels[p.matches[r]]).total >= score(p.query, labels[p.matches[q]]).total
    BY <2>3, Zenon DEF Offers
  <2>6. ASSUME p.matches # <<>>, NEW h \in 1 .. Len(p.matches)
        PROVE  /\ p.highlight \in MatchesShown(Len(p.matches), h, p.highlight)
               /\ MatchesShown(Len(p.matches), h, p.highlight) \subseteq DOMAIN p.matches
    <3>1. PICK D : D = DOMAIN form.panes
      OBVIOUS
    <3>2. Len(p.matches) \in Nat /\ DOMAIN p.matches = 1 .. Len(p.matches)
      BY <2>3, <3>1
    <3>3. p.highlight \in 1 .. Len(p.matches)
      BY <2>1, <2>6, <3>2
    <3> QED
      BY <2>6, <3>2, <3>3 DEF MatchesShown, Least
  <2> QED
    BY <2>4, <2>5, <2>6, Zenon DEF p, labels
<1> QED
  BY <1>1, <1>2, Zenon DEF PickerOffersMatches

\* However long the list, the query and the labels, an open picker offers exactly
\* the panes its query is a subsequence of, best score first, and shows the one
\* it highlights; the pane it leaves selected is one listed (picker_filter,
\* picker_view).
THEOREM PickerOffers == Spec => []PickerOffersMatches
<1>1. Init => PickInv
  <2> SUFFICES ASSUME Init PROVE PickInv
    OBVIOUS
  <2>1. form = fresh
    BY DEF Init
  <2>2. Held(form) /\ form.picker.nav = None
    BY <2>1, FreshOK DEF Held, closed
  <2> QED
    BY <2>2 DEF PickInv, Picking
<1>2. IInv /\ PickInv /\ [Next]_vars => PickInv'
  BY PickSteps
<1>3. IInv /\ PickInv => PickerOffersMatches
  BY OffersShown
<1> QED
  BY <1>1, <1>2, <1>3, DashboardInvariant, PTL DEF Spec
=============================================================================
