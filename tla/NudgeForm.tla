------------------------------- MODULE NudgeForm -------------------------------
(***************************************************************************)
(* The form of the dashboard's New-nudge tab (tui/model.rs, tui/update.rs) *)
(* as operators on its record: the modal line editor, the fields and what  *)
(* a submit reads off them.  The module has no state; NudgeTui's actions   *)
(* are built from it.                                                      *)
(*                                                                         *)
(* A pane is known by an id, a positive number, and by the position it was *)
(* listed at, a negative one, so that neither is ever taken for the other. *)
(* The fields that pass through unread, the delays, are one value.         *)
(***************************************************************************)
EXTENDS NudgeText

CONSTANTS
  None,            \* Option::None
  DefaultText,     \* "please continue"
  DefaultRetries,  \* NUDGE_RETRIES, or 2
  Delays,          \* what a job's send_delay_secs and settle_secs may be
  DefaultDelays    \* what they are in a new job

Flags == {"verify", "notify", "auto_retry"}

Option(S) == S \cup {None}

Target == [pane : Int, server : Option(Nat)]

Texts == Seq(Seq(char_class)) \ {<<>>}

JobSpec == [target : Target, messages : Texts, delays : Delays, fire_at : Nat,
            flags : SUBSET Flags, retries_left : Int]

CarriedEdit == [fire_at : Nat, messages : Texts, delays : Delays, retries_left : Int,
                target : Target]

Pane == [id : Nat \ {0}, target : Int]

Detection == [kind : {"Reset", "None", "Unreadable", "Elapsed"}, of : Int,
              at : Option(Nat), id : Option(Nat)]

ASSUME FormConstants ==
  /\ None \notin Int \cup {"Insert", "Normal"} \cup CarriedEdit \cup Pane \cup Detection
  /\ DefaultText \in Seq(char_class) /\ DefaultRetries \in Int /\ DefaultDelays \in Delays

FORM_ORDER == <<"pane", "when", "message", "verify", "notify", "auto_retry", "submit">>

\* The picker that is not open; an open one is in a mode.
closed == [query |-> <<>>, highlight |-> 1, nav |-> None, matches |-> <<>>]

fresh ==
  [panes    |-> <<>>,
   pane_idx |-> 1,
   when     |-> "Auto",
   manual   |-> <<>>,      \* the time being typed
   detected |-> None,      \* what the last capture's screen said
   message  |-> DefaultText,
   kept     |-> 0,         \* how many messages are carried unshown; 0: `message` is it
   flags    |-> {},
   focus    |-> "submit",
   editing  |-> 0,         \* the job being edited; 0: a new one
   nav      |-> "Insert",
   cursor   |-> 0,
   op       |-> None,      \* d or c, awaiting its motion
   carried  |-> None,
   captured |-> FALSE,     \* whether last_capture is set
   picker   |-> closed]

\* Each field holds a value of its kind.  What the picker's list may hold, and
\* so which pane it leaves selected, is a matter of the matcher.
FormTyped(f) ==
  f \in [panes : Seq(Pane), pane_idx : {f.pane_idx}, when : {"Keep", "Auto", "Manual"},
         manual : Seq(char_class), detected : Option(Detection), message : Seq(char_class),
         kept : Nat, flags : SUBSET Flags, focus : {FORM_ORDER[i] : i \in DOMAIN FORM_ORDER},
         editing : Nat, nav : {"Insert", "Normal"}, cursor : Nat, op : Option({"d", "c"}),
         carried : Option(CarriedEdit), captured : BOOLEAN,
         picker : [query : {f.picker.query}, highlight : {f.picker.highlight},
                   nav : Option({"Insert", "Normal"}), matches : {f.picker.matches}]]

At(seq, i) == IF i \in DOMAIN seq THEN seq[i] ELSE None

active_pane(f) ==
  At(f.panes, IF f.picker.nav = None THEN f.pane_idx ELSE At(f.picker.matches, f.picker.highlight))

selected_pane(f) == At(f.panes, f.pane_idx)

HasReset(f) == IF f.detected = None THEN FALSE ELSE f.detected.kind = "Reset"

-----------------------------------------------------------------------------
(***************************************************************************)
(* The line editor.                                                        *)
(***************************************************************************)
IsManual(f) == f.focus = "when" /\ f.when = "Manual"

IsText(f) == IsManual(f) \/ (f.focus = "message" /\ f.kept = 0)

TextOf(f) == IF IsManual(f) THEN f.manual ELSE IF IsText(f) THEN f.message ELSE <<>>

text_len(f) == Len(TextOf(f))

cursor_left(f) == [f EXCEPT !.cursor = Pred(@)]

cursor_right_insert(f) == [f EXCEPT !.cursor = Least(@ + 1, text_len(f))]

cursor_right_normal(f) == [f EXCEPT !.cursor = Least(@ + 1, Pred(text_len(f)))]

clamp_cursor_normal(f) == [f EXCEPT !.cursor = Least(@, Pred(text_len(f)))]

\* A plausible slip: a job's kept time is treated as any other.
BugSyncWhenEditing(f) ==
  IF f.focus # "when" THEN f
  ELSE [f EXCEPT !.when = IF f.nav = "Insert" \/ f.manual # <<>> THEN "Manual" ELSE "Auto"]

sync_when_editing(f) ==
  IF f.focus # "when" \/ f.when = "Keep" THEN f
  ELSE [f EXCEPT !.when = IF f.nav = "Insert" \/ f.manual # <<>> THEN "Manual" ELSE "Auto"]

\* The focused buffer becomes t and the cursor c.
edit_focused(f, t, c) ==
  IF IsManual(f) THEN sync_when_editing([f EXCEPT !.manual = t, !.cursor = c])
  ELSE [f EXCEPT !.message = t, !.cursor = c]

insert_char(f, ch) ==
  edit_focused(f, Inserted(TextOf(f), Least(f.cursor, text_len(f)), ch), f.cursor + 1)

backspace(f) ==
  IF f.cursor = 0 THEN edit_focused(f, TextOf(f), 0)
  ELSE edit_focused(f, Cut(TextOf(f), f.cursor - 1, f.cursor), f.cursor - 1)

delete_char_range(f, a, b) ==
  LET n == text_len(f)
  IN edit_focused(f, Cut(TextOf(f), Least(a, n), Least(b, n)), Least(a, n))

enter_insert(f, at) ==
  LET g   == sync_when_editing([f EXCEPT !.nav = "Insert"])
      len == text_len(g)
  IN IF ~IsText(g) THEN g
     ELSE [g EXCEPT !.cursor = CASE at = "Here"  -> Least(@, len)
                                 [] at = "After" -> Least(@ + 1, len)
                                 [] at = "End"   -> len
                                 [] at = "Start" -> 0]

EscInsert(f) == clamp_cursor_normal(sync_when_editing([f EXCEPT !.nav = "Normal"]))

\* Where a Normal-mode motion takes the cursor.
Motions == {"h", "l", "0", "$", "w", "b"}

MotionTo(f, m) ==
  LET t == TextOf(f)  n == Len(t)  cur == Least(f.cursor, n)
  IN CASE m = "h" -> cursor_left(f).cursor
       [] m = "l" -> cursor_right_normal(f).cursor
       [] m = "0" -> 0
       [] m = "$" -> Pred(n)
       [] m = "w" -> Least(next_word(t, cur), Pred(n))
       [] m = "b" -> prev_word(t, cur)

\* The range an operator takes with its motion; "line" repeats the operator.
OpRange(f, m) ==
  LET t == TextOf(f)  n == Len(t)  cur == Least(f.cursor, n)
  IN CASE m = "line" -> <<0, n>>
       [] m = "w" -> <<cur, next_word(t, cur)>>
       [] m = "b" -> <<prev_word(t, cur), cur>>
       [] m = "0" -> <<0, cur>>
       [] m = "$" -> <<cur, n>>
       [] m = "h" -> <<Pred(cur), cur>>
       [] m = "l" -> <<cur, Least(cur + 1, n)>>

apply_operator(f, m) ==
  LET r == OpRange(f, m)
  IN IF f.op = "c"
     THEN delete_char_range([f EXCEPT !.op = None, !.nav = "Insert"], r[1], r[2])
     ELSE clamp_cursor_normal(delete_char_range([f EXCEPT !.op = None], r[1], r[2]))

\* x, D and C.
DeleteKey(f, k) ==
  LET n == text_len(f)  cur == Least(f.cursor, n)
  IN CASE k = "x" -> clamp_cursor_normal(delete_char_range(f, cur, cur + 1))
       [] k = "D" -> clamp_cursor_normal(delete_char_range(f, cur, n))
       [] k = "C" -> delete_char_range([f EXCEPT !.nav = "Insert"], cur, n)

-----------------------------------------------------------------------------
(***************************************************************************)
(* The fields.                                                             *)
(***************************************************************************)
\* One step round a list of n, from 1.
wrap_index(i, d, n) == ((i - 1 + d) % n) + 1

\* A plausible slip: in Normal the cursor is left on the append slot.
BugMoveFocus(f, d) ==
  LET i == CHOOSE k \in DOMAIN FORM_ORDER : FORM_ORDER[k] = f.focus
      left == IF IsManual(f) /\ f.manual = <<>> THEN [f EXCEPT !.when = "Auto"] ELSE f
      land == sync_when_editing([left EXCEPT !.focus = FORM_ORDER[wrap_index(i, d, 7)]])
  IN [land EXCEPT !.cursor = text_len(land), !.op = None]

\* A plausible slip: a blank time stays behind as it is.
BugStrandBlank(f, d) ==
  LET i == CHOOSE k \in DOMAIN FORM_ORDER : FORM_ORDER[k] = f.focus
      land == sync_when_editing([f EXCEPT !.focus = FORM_ORDER[wrap_index(i, d, 7)]])
      put  == [land EXCEPT !.cursor = text_len(land), !.op = None]
  IN IF f.nav = "Normal" THEN clamp_cursor_normal(put) ELSE put

\* A blank time left behind goes back to Auto; the field landed on is
\* reconciled, and the cursor put at the end of its text.
move_focus(f, d) ==
  LET i == CHOOSE k \in DOMAIN FORM_ORDER : FORM_ORDER[k] = f.focus
      left == IF IsManual(f) /\ f.manual = <<>> THEN [f EXCEPT !.when = "Auto"] ELSE f
      land == sync_when_editing([left EXCEPT !.focus = FORM_ORDER[wrap_index(i, d, 7)]])
      put  == [land EXCEPT !.cursor = text_len(land), !.op = None]
  IN IF f.nav = "Normal" THEN clamp_cursor_normal(put) ELSE put

\* A ring of Keep and Auto for a job being edited, of Auto alone otherwise.
cycle_when(f) == IF f.editing # 0 /\ f.when = "Keep" THEN "Auto"
                 ELSE IF f.editing # 0 THEN "Keep" ELSE "Auto"

\* Typing on the When field starts a time, at a fresh cursor.
TypeChar(f, ch) ==
  insert_char(IF f.focus = "when" /\ f.when # "Manual"
                THEN [f EXCEPT !.when = "Manual", !.cursor = 0] ELSE f, ch)

toggle_flag(f) ==
  [f EXCEPT !.flags = IF f.focus \in @ THEN @ \ {f.focus} ELSE @ \cup {f.focus}]

\* What is shown of the old pane goes before the new one's screen comes.
Uncaptured(f) == [f EXCEPT !.detected = None, !.captured = TRUE]

-----------------------------------------------------------------------------
(***************************************************************************)
(* What a submit makes of the form, and an edit makes a form of.           *)
(***************************************************************************)
retry_base(f) ==
  IF f.carried # None /\ f.carried.retries_left # 0 THEN f.carried.retries_left
  ELSE DefaultRetries

\* A pane kept from the job keeps the job's stamp.
build_spec(f, server, at) ==
  LET pane == selected_pane(f).id
  IN [target |-> IF f.carried # None /\ f.carried.target.pane = pane
                   THEN f.carried.target ELSE [pane |-> pane, server |-> server],
      messages |-> IF f.kept # 0 THEN f.carried.messages
                   ELSE IF IsBlank(f.message) THEN <<DefaultText>> ELSE <<f.message>>,
      delays   |-> IF f.carried = None THEN DefaultDelays ELSE f.carried.delays,
      fire_at  |-> at,
      flags    |-> f.flags,
      retries_left |-> IF "auto_retry" \in f.flags THEN retry_base(f) ELSE 0]

\* By id, or by position for a job that stored one; otherwise the first.
PaneOf(panes, target) ==
  LET at == {i \in DOMAIN panes : panes[i].id = target.pane \/ panes[i].target = target.pane}
  IN IF at = {} THEN 1 ELSE Min(at)

enter_edit(f, j) ==
  [fresh EXCEPT
     !.panes    = f.panes,
     !.pane_idx = PaneOf(f.panes, j.target),
     !.when     = "Keep",
     !.message  = IF Len(j.messages) = 1 THEN j.messages[1] ELSE DefaultText,
     !.kept     = IF Len(j.messages) > 1 THEN Len(j.messages) ELSE 0,
     !.flags    = j.flags,
     !.focus    = "pane",
     !.editing  = j.id,
     !.carried  = [fire_at |-> j.fire_at, messages |-> j.messages, delays |-> j.delays,
                   retries_left |-> j.retries_left, target |-> j.target]]
=============================================================================
