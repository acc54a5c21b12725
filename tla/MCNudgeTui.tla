------------------------------ MODULE MCNudgeTui ------------------------------
(* Values for the instances of NudgeTui that TLC checks. *)
EXTENDS NudgeTui

Words == <<"word", "space", "word">>

PanesOf == <<<<1, 2>>, <<1>>>>

Titles == <<<<"a", "b">>, <<"b", "-", "a">>>>

Queued(id, pane, server, messages, flags, retries) ==
  [id |-> id, origin |-> id, target |-> [pane |-> pane, server |-> server],
   messages |-> messages, delays |-> "kept", fire_at |-> 1, flags |-> flags,
   retries_left |-> retries]

\* A job of the running server; one stored by position, with two messages.
OneMessage  == Queued(1, 2, 1, <<<<"punct", "word">>>>, {"auto_retry"}, 1)
TwoMessages == Queued(2, -2, None, <<<<"word">>, <<"punct">>>>, {"verify"}, 0)

\* One the command line was given a blank message for.
Blank == Queued(1, 1, 1, <<<<"space">>>>, {"notify"}, -1)

Lists == {<<OneMessage, TwoMessages>>, <<Blank>>}
=============================================================================
