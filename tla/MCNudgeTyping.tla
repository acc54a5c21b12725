---------------------------- MODULE MCNudgeTyping ----------------------------
(***************************************************************************)
(* An instance of NudgeTyping for TLC: a job of two messages.              *)
(***************************************************************************)
EXTENDS NudgeTyping

TwoMessages == <<"m1", "m2">>
=============================================================================
