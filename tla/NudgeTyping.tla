----------------------------- MODULE NudgeTyping -----------------------------
(***************************************************************************)
(* Typing a job's messages into the input box of Claude Code or Codex      *)
(* (inject.rs, run_injection past its gates; composer.rs).                 *)
(*                                                                         *)
(* A box may have Vim keys.  What is typed while it waits in Normal mode   *)
(* is read as commands, so nudge reads the screen before each message and  *)
(* presses the keys that lead to Insert mode; and it reads the screen      *)
(* after each Enter to tell a message that went from one that is stuck.    *)
(*                                                                         *)
(* The program in the pane draws in its own time: what nudge reads is the  *)
(* last frame, up to MaxLag pauses behind.  Beside nudge, the user may     *)
(* type, press Escape or Enter, or open something over the box.  Any tmux  *)
(* call may fail.                                                          *)
(***************************************************************************)
EXTENDS Naturals, FiniteSets, Sequences

CONSTANTS
  Messages,   \* the messages of the job, in order; none is a key's name
  REREADS,    \* how often a box is read again (inject.rs: 4)
  MaxLag,     \* bound: the pauses a redraw may take
  MaxEvents   \* bound: what the user does meanwhile

ASSUME TypingConstants ==
  /\ Messages \in Seq(STRING \ {"A", "i", "Escape", "BSpace"}) /\ Messages # <<>>
  /\ REREADS \in Nat /\ MaxLag \in Nat /\ MaxEvents \in Nat

VARIABLES
  \* The program in the pane.
  cli,      \* which it is, and how its box is set up
  box,      \* what its box holds, and its Vim mode (Insert without Vim keys)
  sent,     \* what was submitted from it, and during which message
  covered,  \* something else is drawn over the box and takes its keys
  frame,    \* the last frame it drew
  lag,      \* pauses since that frame went out of date
  \* nudge.
  pc,
  i,        \* the message in hand
  reads,    \* rereads made so far
  before,   \* the box's text before the A was typed
  held,     \* a read showed the message in the box
  outcome,
  \* History, read by the properties only.
  old,      \* the frame is older than the typing of the message in hand
  garbled,  \* messages read as commands
  touched,  \* messages during which the user acted, or had the box covered
  missed,   \* messages during which a read failed, or the look showed a box that was not so
  unseen,   \* messages taken to have gone on a frame older than they, or on no box at all
  events

boxVars   == <<cli, box, sent, covered>>
drawVars  == <<frame, lag, old>>
nudgeVars == <<pc, i, reads, before, held, outcome>>
seenVars  == <<garbled, touched, missed, unseen, events>>
vars == <<boxVars, drawVars, nudgeVars, seenVars>>

Indices == DOMAIN Messages
Message == Messages[i]
MessageSet == {Messages[k] : k \in Indices}

\* The user's draft and what the user types since, keys meant as commands, what
\* is left of a message read as commands; and the messages.
Stray == {"A", "i"}
Tokens == {"draft", "u", "junk"} \cup Stray \cup MessageSet

CountOf(x, t) == Cardinality({k \in DOMAIN t : t[k] = x})
Has(t, S) == \E k \in DOMAIN t : t[k] \in S

-----------------------------------------------------------------------------
(***************************************************************************)
(* The screen, and what nudge reads off it.                                *)
(***************************************************************************)

\* Claude labels Insert and Visual mode, unless told to hide the label, and
\* never Normal; Codex names its mode on its status line if it has Vim keys.
Label ==
  IF ~cli.vim \/ (cli.kind = "claude" /\ (box.mode = "Normal" \/ ~cli.labels))
    THEN "none" ELSE box.mode

Unreadable == [box |-> FALSE, label |-> "none", text |-> <<>>]

Screen == IF covered THEN Unreadable ELSE [box |-> TRUE, label |-> Label, text |-> box.text]

\* KEYPRESS_PAUSE.  The program draws what it shows by then, or is still behind.
Pause(o) ==
  \/ frame' = Screen' /\ lag' = 0 /\ old' = FALSE
  \/ /\ frame # Screen' /\ lag < MaxLag
     /\ lag' = lag + 1 /\ old' = o
     /\ UNCHANGED frame

\* What a read may show: the last frame, or, when the call fails, nothing.
Reading == {frame, Unreadable}
Missed(screen) == missed' = IF screen = frame THEN missed ELSE missed \cup {i}

\* InputBox::holds: the box's text ends with the message.
Holds(screen) == screen.box /\ screen.text # <<>> /\ screen.text[Len(screen.text)] = Message

Mode == {"Insert", "Normal", "Visual"}
Frame == [box : BOOLEAN, label : Mode \cup {"none"}, text : Seq(Tokens)]

Pcs == {"look", "codex A", "codex read", "codex i", "claude Escape", "claude A", "claude read",
        "claude BSpace", "type", "enter", "evidence", "done"}

TypeOK ==
  /\ cli \in [kind : {"claude", "codex"}, vim : BOOLEAN, labels : BOOLEAN, bindsA : BOOLEAN]
  /\ box \in [mode : Mode, text : Seq(Tokens)]
  /\ ~cli.vim => box.mode = "Insert"
  /\ sent \subseteq [at : Indices, text : Seq(Tokens)]
  /\ covered \in BOOLEAN
  /\ frame \in Frame /\ lag \in 0 .. MaxLag
  /\ pc \in Pcs /\ i \in Indices /\ reads \in 0 .. REREADS
  /\ before \in Seq(Tokens) /\ held \in BOOLEAN
  /\ outcome \in {"none", "Sent", "Unsubmitted", "Err"}
  /\ old \in BOOLEAN /\ events \in Nat
  /\ \A S \in {garbled, touched, missed, unseen} : S \subseteq Indices

\* Only Codex's key A can be unbound, only Claude's label hidden.
Init ==
  /\ cli \in [kind : {"claude"}, vim : BOOLEAN, labels : BOOLEAN, bindsA : {TRUE}]
       \cup [kind : {"codex"}, vim : BOOLEAN, labels : {TRUE}, bindsA : BOOLEAN]
  /\ box \in [mode : IF ~cli.vim THEN {"Insert"}
                     ELSE IF cli.kind = "codex" THEN {"Insert", "Normal"} ELSE Mode,
              text : {<<>>, <<"draft">>}]
  /\ sent = {} /\ covered = FALSE
  /\ frame = Screen /\ lag = 0 /\ old = FALSE
  /\ pc = "look" /\ i = 1 /\ reads = 0 /\ before = <<>> /\ held = FALSE
  /\ outcome = "none"
  /\ garbled = {} /\ touched = {} /\ missed = {} /\ unseen = {}
  /\ events = 0

-----------------------------------------------------------------------------
(***************************************************************************)
(* What the program does with a key.                                       *)
(***************************************************************************)

Escaped == [box EXCEPT !.mode = IF cli.vim THEN "Normal" ELSE @]

Backspaced ==
  IF box.mode = "Insert" /\ box.text # <<>>
    THEN [box EXCEPT !.text = SubSeq(@, 1, Len(@) - 1)] ELSE box

\* Text goes in at the end; in Normal mode i and, where it is bound, A lead to
\* Insert mode, and the first command in a message that does leaves the rest.
Typed(k) ==
  IF box.mode = "Insert" THEN [box EXCEPT !.text = Append(@, k)]
  ELSE IF k \in MessageSet THEN [mode |-> "Insert", text |-> Append(box.text, "junk")]
  ELSE IF box.mode = "Normal" /\ (k = "i" \/ (k = "A" /\ cli.bindsA))
    THEN [box EXCEPT !.mode = "Insert"]
  ELSE box

Pressed(k) ==
  IF covered THEN box
  ELSE IF k = "Escape" THEN Escaped
  ELSE IF k = "BSpace" THEN Backspaced
  ELSE Typed(k)

\* What the box holds goes; the box comes back empty.
Submitted ==
  /\ sent' = sent \cup {[at |-> i, text |-> box.text]}
  /\ \E m \in IF cli.vim THEN {"Insert", "Normal"} ELSE {"Insert"} :
       box' = [mode |-> m, text |-> <<>>]

-----------------------------------------------------------------------------
(***************************************************************************)
(* Into Insert mode.                                                       *)
(***************************************************************************)

\* A tmux call that types fails, and the injection with it.
Fail(at) ==
  /\ pc = at
  /\ pc' = "done" /\ outcome' = "Err"
  /\ UNCHANGED <<boxVars, drawVars, i, reads, before, held, seenVars>>

\* send_key.
Key(at, k, next) ==
  /\ pc = at
  /\ box' = Pressed(k)
  /\ pc' = next
  /\ UNCHANGED <<cli, sent, covered, i, reads, before, held, outcome, seenVars>>
  /\ Pause(old)

\* A plausible slip: Visual mode is left like Normal mode, without the Escape.
BugWayIn(screen) ==
  IF cli.kind = "codex" THEN IF screen.label = "Normal" THEN "codex A" ELSE "type"
  ELSE IF ~screen.box \/ screen.label = "Insert" THEN "type"
  ELSE "claude A"

\* What the screen calls for before the message is typed.  A screen that shows
\* nothing calls for nothing, and the message is typed all the same.
WayIn(screen) ==
  IF cli.kind = "codex" THEN IF screen.label = "Normal" THEN "codex A" ELSE "type"
  ELSE IF ~screen.box \/ screen.label = "Insert" THEN "type"
  ELSE IF screen.label = "Visual" THEN "claude Escape"
  ELSE "claude A"

\* The frame is not the box, or Visual mode does not show.
Misleading == frame # Screen \/ (box.mode = "Visual" /\ Label = "none")

Look ==
  /\ pc = "look"
  /\ \E screen \in Reading :
       /\ pc' = WayIn(screen)
       /\ before' = screen.text
       /\ missed' = IF screen # frame \/ Misleading THEN missed \cup {i} ELSE missed
  /\ touched' = IF covered THEN touched \cup {i} ELSE touched
  /\ UNCHANGED <<boxVars, drawVars, i, reads, held, outcome, garbled, unseen, events>>

\* A plausible slip: one reread too many.
BugOneMore == reads > REREADS

\* A plausible slip: REREADS reads in all.
BugLastRead == reads + 1 >= REREADS

LastRead == reads = REREADS

\* reread: settle, and read again.
Again ==
  /\ ~LastRead
  /\ reads' = reads + 1
  /\ Pause(old)
  /\ UNCHANGED <<pc, outcome>>

Decided(next) ==
  /\ pc' = next
  /\ reads' = 0
  /\ UNCHANGED <<drawVars, outcome>>

\* codex_insert_mode: any other mode ends it, and only Normal mode at the last
\* read earns the i.
CodexRead ==
  /\ pc = "codex read"
  /\ UNCHANGED <<boxVars, i, before, held, garbled, touched, unseen, events>>
  /\ \E screen \in Reading :
       /\ Missed(screen)
       /\ \/ screen.label \notin {"Normal", "none"} /\ Decided("type")
          \/ screen.label \in {"Normal", "none"} /\ Again
          \/ screen.label = "Normal" /\ LastRead /\ Decided("codex i")
          \/ screen.label = "none" /\ LastRead /\ Decided("type")

\* The box has one A more than it had: it has no Vim keys.
TypedA(screen) ==
  screen.box /\ screen.label = "none" /\ CountOf("A", screen.text) = CountOf("A", before) + 1

\* claude_insert_mode: the label ends it, a typed A is taken back, and a box that
\* does not change at all is taken to hide its label.
ClaudeRead ==
  /\ pc = "claude read"
  /\ UNCHANGED <<boxVars, i, before, held, garbled, touched, unseen, events>>
  /\ \E screen \in Reading :
       LET labelled == screen.box /\ screen.label = "Insert" IN
       /\ Missed(screen)
       /\ \/ labelled /\ Decided("type")
          \/ TypedA(screen) /\ Decided("claude BSpace")
          \/ ~labelled /\ ~TypedA(screen) /\ Again
          \/ ~labelled /\ ~TypedA(screen) /\ LastRead /\ Decided("type")

-----------------------------------------------------------------------------
(***************************************************************************)
(* The message, its Enter, and what came of it.                            *)
(***************************************************************************)

\* send_line, up to its first pause.
Type ==
  /\ pc = "type"
  /\ box' = Pressed(Message)
  /\ garbled' = IF ~covered /\ box.mode # "Insert" THEN garbled \cup {i} ELSE garbled
  /\ pc' = "enter"
  /\ UNCHANGED <<cli, sent, covered, i, reads, before, held, outcome, touched, missed, unseen,
                 events>>
  /\ Pause(TRUE)

\* Its Enter, which may be taken for part of a paste, and the pause after it.
Enter ==
  /\ pc = "enter"
  /\ \/ ~covered /\ Submitted
     \/ UNCHANGED <<box, sent>>
  /\ pc' = "evidence"
  /\ UNCHANGED <<cli, covered, i, reads, before, held, outcome, seenVars>>
  /\ Pause(old)

\* A plausible slip: a screen without a box says that the message went.
BugCleared(screen) == ~Holds(screen)

Cleared(screen) == screen.box /\ ~Holds(screen)

\* The next message, after the job's delay if it has one, or the end; `seen` says
\* the screen was proof.
Onward(seen) ==
  /\ reads' = 0 /\ held' = FALSE
  /\ unseen' = IF seen THEN unseen ELSE unseen \cup {i}
  /\ \/ /\ i < Len(Messages)
        /\ i' = i + 1 /\ pc' = "look"
        /\ UNCHANGED outcome
        /\ UNCHANGED drawVars \/ Pause(old)
     \/ /\ i = Len(Messages)
        /\ pc' = "done" /\ outcome' = "Sent"
        /\ UNCHANGED <<drawVars, i>>

\* Cleared once is gone; held, and never cleared, is stuck; nothing seen is gone.
Evidence ==
  /\ pc = "evidence"
  /\ UNCHANGED <<boxVars, before, garbled, touched, events>>
  /\ \E screen \in Reading :
       LET heldNow == held \/ Holds(screen) IN
       /\ Missed(screen)
       /\ \/ Cleared(screen) /\ Onward(~old)
          \/ /\ ~Cleared(screen) /\ Again
             /\ held' = heldNow
             /\ UNCHANGED <<i, unseen>>
          \/ /\ ~Cleared(screen) /\ LastRead /\ heldNow
             /\ pc' = "done" /\ outcome' = "Unsubmitted"
             /\ held' = heldNow
             /\ UNCHANGED <<i, reads, drawVars, unseen>>
          \/ ~Cleared(screen) /\ LastRead /\ ~heldNow /\ Onward(FALSE)

-----------------------------------------------------------------------------
(***************************************************************************)
(* The user, while nudge types.                                            *)
(***************************************************************************)
User ==
  /\ pc # "done" /\ events < MaxEvents
  /\ events' = events + 1
  /\ touched' = touched \cup {i}
  /\ UNCHANGED <<cli, drawVars, nudgeVars, garbled, missed, unseen>>

UserKey ==
  /\ User
  /\ \E k \in {"u", "Escape"} : box' = Pressed(k)
  /\ UNCHANGED <<sent, covered>>

UserEnter ==
  /\ User
  /\ ~covered /\ box.text # <<>> /\ Submitted
  /\ UNCHANGED covered

\* A dialog, a menu or a pager, and its end.
Cover ==
  /\ User
  /\ covered' = ~covered
  /\ UNCHANGED <<box, sent>>

-----------------------------------------------------------------------------
Press ==
  \/ Key("codex A", "A", "codex read")
  \/ Key("codex i", "i", "type")
  \/ Key("claude Escape", "Escape", "claude A")
  \/ Key("claude A", "A", "claude read")
  \/ Key("claude BSpace", "BSpace", "type")

Fails == \E at \in {"codex A", "codex i", "claude Escape", "claude A", "claude BSpace", "type",
                    "enter"} : Fail(at)

Nudge == Look \/ Press \/ CodexRead \/ ClaudeRead \/ Type \/ Enter \/ Evidence \/ Fails

Next == Nudge \/ UserKey \/ UserEnter \/ Cover

Spec == Init /\ [][Next]_vars

-----------------------------------------------------------------------------
(***************************************************************************)
(* Properties.                                                             *)
(***************************************************************************)
Disturbed(k) == k \in touched \cup missed

\* A message is read as commands only if the user acted on the box meanwhile, a
\* read failed, or the look before it was misled: whichever CLI, Vim keys or
\* not, labels shown or hidden, A bound or not (codex_insert_mode,
\* claude_insert_mode).
AsText == \A k \in garbled : Disturbed(k)

\* A key pressed to enter Insert mode is never left in what is submitted, if
\* the program draws within the rereads and nothing disturbed a message so far
\* (claude_insert_mode, the BSpace; codex_insert_mode, the i).
NoStrayKeys ==
  \A s \in sent : Has(s.text, Stray) => \E k \in 1 .. s.at : Disturbed(k)

Passed == IF outcome = "Sent" THEN Indices ELSE 1 .. i - 1

\* A message nudge has moved on from was submitted: unless it was garbled or the
\* user was at it, or the only evidence was a frame older than the message, or
\* no box in any of the reads (run_injection: "a pane no read shows a box in
\* counts as sent").  So no message is typed behind one that is stuck.
SentIsGone ==
  \A k \in Passed \ (unseen \cup touched \cup garbled) :
    \E s \in sent : Has(s.text, {Messages[k]})

\* A message reported stuck is in the box, and nothing was submitted since it was
\* its turn, if the program draws within the rereads (run_injection: "seen held
\* and never seen clear").
UnsubmittedIsStuck ==
  outcome = "Unsubmitted" /\ ~Disturbed(i) =>
    /\ Has(box.text, {Message})
    /\ \A s \in sent : s.at # i
=============================================================================
