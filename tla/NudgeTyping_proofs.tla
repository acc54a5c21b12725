-------------------------- MODULE NudgeTyping_proofs --------------------------
(***************************************************************************)
(* Proofs about NudgeTyping, for any messages, rereads, lag and number of  *)
(* events.                                                                 *)
(***************************************************************************)
EXTENDS NudgeTyping, FiniteSetTheorems, TLAPS

-----------------------------------------------------------------------------
(***************************************************************************)
(* Types.                                                                  *)
(***************************************************************************)

\* The part of the type invariant the box and the screen need.
Box == [mode : Mode, text : Seq(Tokens)]

LEMMA BoxTyped ==
  ASSUME TypeOK
  PROVE  /\ box \in Box /\ box.text \in Seq(Tokens) /\ Screen \in Frame
         /\ \A s \in Reading : s \in Frame
<1>1. box \in Box /\ box.text \in Seq(Tokens) /\ box.mode \in Mode
  BY DEF TypeOK, Box
<1>2. Screen \in Frame
  BY <1>1 DEF Screen, Unreadable, Label, Frame
<1>3. Unreadable \in Frame
  BY DEF Unreadable, Frame
<1> QED
  BY <1>1, <1>2, <1>3 DEF Reading, TypeOK

LEMMA MessageTyped ==
  ASSUME TypeOK
  PROVE  /\ Message \in Tokens /\ Message \in MessageSet
         /\ Message \notin {"A", "i", "Escape", "BSpace"}
BY TypingConstants DEF TypeOK, Indices, Message, MessageSet, Tokens

LEMMA PressedTyped ==
  ASSUME TypeOK, NEW k \in Tokens \cup {"Escape", "BSpace"}
  PROVE  Pressed(k) \in Box /\ (~cli.vim => Pressed(k).mode = "Insert")
<1>1. box \in Box /\ box.text \in Seq(Tokens) /\ box.mode \in Mode
  BY BoxTyped DEF Box
<1>2. ~cli.vim => box.mode = "Insert"
  BY DEF TypeOK
<1>3. box.text # <<>> => SubSeq(box.text, 1, Len(box.text) - 1) \in Seq(Tokens)
  BY <1>1
<1>4. Append(box.text, "junk") \in Seq(Tokens)
  BY <1>1 DEF Tokens
<1>5. k \notin {"Escape", "BSpace"} => Append(box.text, k) \in Seq(Tokens)
  BY <1>1
<1> QED
  BY <1>1, <1>2, <1>3, <1>4, <1>5 DEF Pressed, Escaped, Backspaced, Typed, Box, Mode

LEMMA SubmittedTyped ==
  ASSUME TypeOK, Submitted
  PROVE  /\ box' \in Box /\ (~cli.vim => box'.mode = "Insert")
         /\ sent' \subseteq [at : Indices, text : Seq(Tokens)]
BY BoxTyped DEF Submitted, TypeOK, Box, Mode

\* A redraw shows the box as it is after the step.
LEMMA PauseTyped ==
  ASSUME TypeOK, NEW o \in BOOLEAN, Pause(o), box' \in Box
  PROVE  frame' \in Frame /\ lag' \in 0 .. MaxLag /\ old' \in BOOLEAN
<1>1. Screen' \in Frame
  BY DEF Screen, Unreadable, Label, Frame, Box
<1>2. frame \in Frame /\ lag \in 0 .. MaxLag /\ MaxLag \in Nat
  BY TypingConstants DEF TypeOK
<1>3. frame' \in Frame
  BY <1>1, <1>2 DEF Pause
<1>4. lag' \in 0 .. MaxLag
  BY <1>2 DEF Pause
<1>5. old' \in BOOLEAN
  BY DEF Pause
<1> QED
  BY <1>3, <1>4, <1>5

LEMMA KeyType ==
  ASSUME TypeOK, NEW at, NEW k \in {"A", "i", "Escape", "BSpace"}, NEW next \in Pcs,
         Key(at, k, next)
  PROVE  TypeOK'
<1>1. box' \in Box /\ (~cli.vim => box'.mode = "Insert")
  BY PressedTyped DEF Key, Tokens, Stray
<1>2. frame' \in Frame /\ lag' \in 0 .. MaxLag /\ old' \in BOOLEAN
  BY <1>1, PauseTyped DEF Key, TypeOK
<1> QED
  BY <1>1, <1>2 DEF Key, TypeOK, Box, seenVars

LEMMA NudgeType ==
  ASSUME TypeOK, Nudge
  PROVE  TypeOK'
<1>a. /\ box \in Box /\ \A s \in Reading : s \in Frame /\ s.text \in Seq(Tokens)
  BY BoxTyped DEF Frame
<1>b. \A s : Missed(s) => missed' \subseteq Indices
  BY DEF Missed, TypeOK
<1>c. Again /\ UNCHANGED boxVars =>
        /\ pc' = pc /\ outcome' = outcome /\ reads' \in 0 .. REREADS
        /\ frame' \in Frame /\ lag' \in 0 .. MaxLag /\ old' \in BOOLEAN
  <2> SUFFICES ASSUME Again, UNCHANGED boxVars
               PROVE  /\ pc' = pc /\ outcome' = outcome /\ reads' \in 0 .. REREADS
                      /\ frame' \in Frame /\ lag' \in 0 .. MaxLag /\ old' \in BOOLEAN
    OBVIOUS
  <2>1. frame' \in Frame /\ lag' \in 0 .. MaxLag /\ old' \in BOOLEAN
    BY <1>a, PauseTyped DEF Again, boxVars, TypeOK
  <2> QED
    BY <2>1, TypingConstants DEF Again, LastRead, TypeOK
<1>d. \A next : Decided(next) =>
        /\ pc' = next /\ outcome' = outcome /\ reads' \in 0 .. REREADS
        /\ frame' \in Frame /\ lag' \in 0 .. MaxLag /\ old' \in BOOLEAN
  BY TypingConstants DEF Decided, drawVars, TypeOK
<1>1. CASE Look
  <2>1. before' \in Seq(Tokens)
    BY <1>1, <1>a DEF Look
  <2>2. pc' \in Pcs
    BY <1>1 DEF Look, WayIn, Pcs
  <2>3. missed' \subseteq Indices /\ touched' \subseteq Indices
    BY <1>1 DEF Look, TypeOK
  <2> QED
    BY <1>1, <2>1, <2>2, <2>3 DEF Look, TypeOK, boxVars, drawVars
<1>2. CASE Press
  BY <1>2, KeyType DEF Press, Pcs
<1>3. CASE CodexRead
  <2>1. missed' \subseteq Indices
    BY <1>3, <1>b DEF CodexRead
  <2>2. /\ pc' \in Pcs /\ outcome' = outcome /\ reads' \in 0 .. REREADS
        /\ frame' \in Frame /\ lag' \in 0 .. MaxLag /\ old' \in BOOLEAN
    BY <1>3, <1>c, <1>d DEF CodexRead, Pcs
  <2> QED
    BY <1>3, <2>1, <2>2 DEF CodexRead, TypeOK, boxVars
<1>4. CASE ClaudeRead
  <2>1. missed' \subseteq Indices
    BY <1>4, <1>b DEF ClaudeRead
  <2>2. /\ pc' \in Pcs /\ outcome' = outcome /\ reads' \in 0 .. REREADS
        /\ frame' \in Frame /\ lag' \in 0 .. MaxLag /\ old' \in BOOLEAN
    BY <1>4, <1>c, <1>d DEF ClaudeRead, Pcs
  <2> QED
    BY <1>4, <2>1, <2>2 DEF ClaudeRead, TypeOK, boxVars
<1>5. CASE Type
  <2>1. box' \in Box /\ (~cli.vim => box'.mode = "Insert")
    BY <1>5, PressedTyped, MessageTyped DEF Type
  <2>2. frame' \in Frame /\ lag' \in 0 .. MaxLag /\ old' \in BOOLEAN
    BY <1>5, <2>1, PauseTyped DEF Type
  <2>3. garbled' \subseteq Indices
    BY <1>5 DEF Type, TypeOK
  <2> QED
    BY <1>5, <2>1, <2>2, <2>3 DEF Type, TypeOK, Box, Pcs
<1>6. CASE Enter
  <2>1. /\ box' \in Box /\ (~cli.vim => box'.mode = "Insert")
        /\ sent' \subseteq [at : Indices, text : Seq(Tokens)]
    BY <1>6, <1>a, SubmittedTyped DEF Enter, TypeOK
  <2>2. frame' \in Frame /\ lag' \in 0 .. MaxLag /\ old' \in BOOLEAN
    BY <1>6, <2>1, PauseTyped DEF Enter, TypeOK
  <2> QED
    BY <1>6, <2>1, <2>2 DEF Enter, TypeOK, Box, Pcs, seenVars
<1>7. CASE Evidence
  <2>0. \A s \in Reading : Holds(s) \in BOOLEAN
    BY DEF Holds, Reading, Unreadable, TypeOK, Frame
  <2>1. PICK screen \in Reading : Evidence!3!(screen)
    BY <1>7 DEF Evidence
  <2>2. missed' \subseteq Indices
    BY <2>1, <1>b
  <2>3. ASSUME NEW seen, Onward(seen)
        PROVE  /\ pc' \in Pcs /\ outcome' \in {"none", "Sent", "Unsubmitted", "Err"}
               /\ reads' \in 0 .. REREADS /\ held' \in BOOLEAN /\ i' \in Indices
               /\ unseen' \subseteq Indices
               /\ frame' \in Frame /\ lag' \in 0 .. MaxLag /\ old' \in BOOLEAN
    <3>1. frame' \in Frame /\ lag' \in 0 .. MaxLag /\ old' \in BOOLEAN
      BY <1>7, <2>3, <1>a, PauseTyped DEF Onward, Evidence, boxVars, drawVars, TypeOK
    <3>2. i' \in Indices
      BY <2>3, TypingConstants DEF Onward, TypeOK, Indices
    <3> QED
      <4>1. i \in Indices /\ unseen \subseteq Indices
            /\ outcome \in {"none", "Sent", "Unsubmitted", "Err"} /\ 0 \in 0 .. REREADS
        BY TypingConstants DEF TypeOK
      <4>2. unseen' \subseteq Indices
        BY <2>3, <4>1 DEF Onward
      <4> QED
        BY <2>3, <3>1, <3>2, <4>1, <4>2 DEF Onward, Pcs
  <2>4. /\ pc' \in Pcs /\ outcome' \in {"none", "Sent", "Unsubmitted", "Err"}
        /\ reads' \in 0 .. REREADS /\ held' \in BOOLEAN /\ i' \in Indices
        /\ unseen' \subseteq Indices
        /\ frame' \in Frame /\ lag' \in 0 .. MaxLag /\ old' \in BOOLEAN
    BY <1>7, <2>0, <2>1, <2>3, <1>c DEF Evidence, TypeOK, Pcs, drawVars
  <2> QED
    BY <1>7, <2>2, <2>4 DEF Evidence, TypeOK, boxVars
<1>8. CASE Fails
  BY <1>8 DEF Fails, Fail, TypeOK, boxVars, drawVars, seenVars, Pcs
<1> QED
  BY <1>1, <1>2, <1>3, <1>4, <1>5, <1>6, <1>7, <1>8 DEF Nudge

LEMMA UserType ==
  ASSUME TypeOK, UserKey \/ UserEnter \/ Cover
  PROVE  TypeOK'
<1>0. User
  BY DEF UserKey, UserEnter, Cover
<1>1. /\ box' \in Box /\ (~cli.vim => box'.mode = "Insert")
      /\ sent' \subseteq [at : Indices, text : Seq(Tokens)] /\ covered' \in BOOLEAN
  <2>1. CASE UserKey
    BY <2>1, PressedTyped DEF UserKey, Tokens, TypeOK
  <2>2. CASE UserEnter
    BY <2>2, SubmittedTyped DEF UserEnter, TypeOK
  <2>3. CASE Cover
    BY <2>3, BoxTyped DEF Cover, TypeOK
  <2> QED
    BY <2>1, <2>2, <2>3
<1>2. touched' \subseteq Indices /\ events' \in Nat
  BY <1>0 DEF User, TypeOK
<1> QED
  BY <1>0, <1>1, <1>2 DEF User, TypeOK, Box, drawVars, nudgeVars

LEMMA InitType ==
  ASSUME Init
  PROVE  TypeOK
<1>1. 1 \in Indices
  BY TypingConstants DEF Indices
<1>2. box \in Box /\ box.text \in Seq(Tokens) /\ box.mode \in Mode
  <2>1. <<>> \in Seq(Tokens) /\ <<"draft">> \in Seq(Tokens)
    BY DEF Tokens
  <2> QED
    BY <2>1 DEF Init, Box, Mode
<1>3. Screen \in Frame
  BY <1>2 DEF Screen, Unreadable, Label, Frame
<1>4. /\ cli \in [kind : {"claude", "codex"}, vim : BOOLEAN, labels : BOOLEAN, bindsA : BOOLEAN]
      /\ ~cli.vim => box.mode = "Insert"
  BY DEF Init
<1>5. 0 \in 0 .. REREADS /\ 0 \in 0 .. MaxLag /\ <<>> \in Seq(Tokens)
  BY TypingConstants
<1> QED
  BY <1>1, <1>2, <1>3, <1>4, <1>5 DEF Init, TypeOK, Box, Pcs

\* Every variable keeps its type.
THEOREM TypingTyped == Spec => []TypeOK
<1>1. Init => TypeOK
  BY InitType
<1>2. TypeOK /\ [Next]_vars => TypeOK'
  <2>1. CASE UNCHANGED vars
    BY <2>1 DEF TypeOK, vars, boxVars, drawVars, nudgeVars, seenVars, Indices
  <2> QED
    BY <2>1, NudgeType, UserType DEF Next
<1> QED
  BY <1>1, <1>2, PTL DEF Spec

-----------------------------------------------------------------------------
(***************************************************************************)
(* A message nudge moves on from was submitted.                            *)
(*                                                                         *)
(* The invariant follows one message from its typing to the evidence: it   *)
(* ends the box's text or was submitted, and a frame drawn since it was    *)
(* typed shows as much.  A box that is covered loses what is typed, but    *)
(* then the user was at it.                                                *)
(***************************************************************************)
Went(k) == \E s \in sent : Has(s.text, {Messages[k]})
Ends(t) == t # <<>> /\ t[Len(t)] = Message
Clean == pc \in {"enter", "evidence"} /\ i \notin touched \cup garbled

CoverSeen == covered /\ pc # "look" => i \in touched
InBox == Clean => Went(i) \/ Ends(box.text)
Drawn == Clean /\ ~old /\ frame.box => Went(i) \/ Ends(frame.text)
EndsLast == outcome = "Sent" => pc = "done"

GoneInv == CoverSeen /\ InBox /\ Drawn /\ EndsLast /\ SentIsGone

LEMMA EndsHas ==
  ASSUME NEW t \in Seq(Tokens), Ends(t)
  PROVE  Has(t, {Message})
BY DEF Ends, Has

\* What is submitted stays submitted.
LEMMA WentStays ==
  ASSUME sent \subseteq sent', NEW k, Went(k)
  PROVE  Went(k)'
BY DEF Went

\* While the message in hand stays, what was passed stays passed.
LEMMA PassedStays ==
  ASSUME SentIsGone, EndsLast, pc # "done", sent \subseteq sent', i' = i, outcome' # "Sent",
         unseen' = unseen, touched \subseteq touched', garbled \subseteq garbled'
  PROVE  SentIsGone' /\ EndsLast'
<1>1. Passed' = Passed
  BY DEF Passed, EndsLast
<1> QED
  BY <1>1 DEF SentIsGone, EndsLast

LEMMA TypeGone ==
  ASSUME TypeOK, GoneInv, Type
  PROVE  GoneInv'
<1>1. box' \in Box /\ box.text \in Seq(Tokens)
  BY PressedTyped, MessageTyped, BoxTyped DEF Type
<1>2. SentIsGone' /\ EndsLast'
  BY PassedStays DEF Type, GoneInv, TypeOK, EndsLast
<1>3. CoverSeen'
  BY DEF Type, GoneInv, CoverSeen
<1>4. Clean' => Ends(box.text)' /\ Ends(box'.text)
  <2> SUFFICES ASSUME Clean'
               PROVE  Ends(box.text)' /\ Ends(box'.text)
    OBVIOUS
  <2>1. ~covered /\ box.mode = "Insert"
    BY DEF Clean, Type, GoneInv, CoverSeen
  <2>2. box' = [box EXCEPT !.text = Append(box.text, Message)]
    BY <2>1, MessageTyped DEF Type, Pressed, Typed
  <2>3. box'.text = Append(box.text, Message)
    BY <2>2 DEF TypeOK
  <2>4. /\ Append(box.text, Message) # <<>>
        /\ Append(box.text, Message)[Len(Append(box.text, Message))] = Message
    BY <1>1, MessageTyped
  <2> QED
    BY <2>3, <2>4 DEF Ends, Type, Message
<1>5. Drawn'
  <2> SUFFICES ASSUME Clean', ~old', frame'.box
               PROVE  Ends(frame.text)'
    BY DEF Drawn
  <2>1. frame'.text = box'.text
    BY DEF Type, Pause, Screen, Unreadable
  <2> QED
    BY <1>4, <2>1 DEF Ends
<1> QED
  BY <1>2, <1>3, <1>4, <1>5 DEF GoneInv, InBox

LEMMA EnterGone ==
  ASSUME TypeOK, GoneInv, Enter
  PROVE  GoneInv'
<1>0. /\ i' = i /\ Message' = Message /\ touched' = touched /\ garbled' = garbled
      /\ sent \subseteq sent' /\ (Clean' => Clean)
  BY DEF Enter, seenVars, Submitted, Message, Clean
<1>1. box' \in Box /\ box.text \in Seq(Tokens)
  BY SubmittedTyped, BoxTyped DEF Enter
<1>2. SentIsGone' /\ EndsLast'
  BY <1>0, PassedStays DEF Enter, GoneInv, seenVars, EndsLast
<1>3. CoverSeen'
  BY <1>0 DEF Enter, GoneInv, CoverSeen
<1>4. InBox'
  <2> SUFFICES ASSUME Clean'
               PROVE  Went(i)' \/ Ends(box.text)'
    BY DEF InBox
  <2>1. CASE Went(i)
    BY <1>0, <2>1, WentStays DEF Went
  <2>2. CASE ~Went(i) /\ Submitted
    <3>1. Has(box.text, {Message})
      BY <1>0, <1>1, <2>2, EndsHas DEF GoneInv, InBox
    <3>2. [at |-> i, text |-> box.text] \in sent'
      BY <2>2 DEF Submitted
    <3> QED
      BY <1>0, <3>1, <3>2 DEF Went, Message
  <2>3. CASE ~Went(i) /\ UNCHANGED <<box, sent>>
    BY <1>0, <2>3 DEF GoneInv, InBox, Ends
  <2> QED
    BY <2>1, <2>2, <2>3 DEF Enter
<1>5. Drawn'
  <2> SUFFICES ASSUME Clean', ~old', frame'.box, ~Went(i)'
               PROVE  Ends(frame.text)'
    BY DEF Drawn
  <2>1. CASE frame' = Screen'
    <3>1. frame'.text = box'.text
      BY <2>1 DEF Screen, Unreadable
    <3> QED
      BY <1>4, <3>1 DEF InBox, Ends
  <2>2. CASE frame' = frame /\ old' = old
    <3>1. ~Went(i)
      BY <1>0, WentStays DEF Went
    <3> QED
      BY <1>0, <2>2, <3>1 DEF GoneInv, Drawn, Ends
  <2> QED
    BY <2>1, <2>2 DEF Enter, Pause
<1> QED
  BY <1>2, <1>3, <1>4, <1>5 DEF GoneInv

\* Looking again.
LEMMA AgainGone ==
  ASSUME TypeOK, GoneInv, pc = "evidence", Again, UNCHANGED boxVars, i' = i,
         UNCHANGED <<touched, garbled, unseen>>
  PROVE  GoneInv'
<1>0. Message' = Message /\ (Clean' => Clean) /\ (Went(i)' <=> Went(i)) /\ pc' = pc
  BY DEF Again, boxVars, Message, Clean, Went
<1>1. SentIsGone' /\ EndsLast'
  BY PassedStays DEF Again, GoneInv, boxVars, EndsLast
<1>2. CoverSeen' /\ InBox'
  BY <1>0 DEF GoneInv, CoverSeen, InBox, boxVars, Ends
<1>3. Drawn'
  <2> SUFFICES ASSUME Clean', ~old', frame'.box, ~Went(i)'
               PROVE  Ends(frame.text)'
    BY DEF Drawn
  <2>1. CASE frame' = Screen'
    <3>1. frame'.text = box'.text
      BY <2>1 DEF Screen, Unreadable
    <3> QED
      BY <1>2, <3>1 DEF InBox, Ends
  <2>2. CASE frame' = frame /\ old' = old
    BY <1>0, <2>2 DEF GoneInv, Drawn, Ends
  <2> QED
    BY <2>1, <2>2 DEF Again, Pause
<1> QED
  BY <1>1, <1>2, <1>3 DEF GoneInv

\* Moving on.
LEMMA OnwardGone ==
  ASSUME TypeOK, GoneInv, pc = "evidence", NEW seen \in BOOLEAN, Onward(seen),
         UNCHANGED boxVars, UNCHANGED <<touched, garbled>>,
         seen /\ i \notin touched \cup garbled => Went(i)
  PROVE  GoneInv'
<1>1. CoverSeen' /\ InBox' /\ Drawn' /\ EndsLast'
  BY DEF Onward, GoneInv, CoverSeen, InBox, Drawn, EndsLast, Clean, boxVars
<1>2. Passed' \subseteq Passed \cup {i}
  BY TypingConstants DEF Onward, Passed, EndsLast, GoneInv, TypeOK, Indices
<1>3. SentIsGone'
  <2> SUFFICES ASSUME NEW k \in Passed', k \notin unseen' \cup touched \cup garbled
               PROVE  Went(k)'
    BY DEF SentIsGone, Went
  <2>1. CASE k = i
    BY <2>1, WentStays DEF Onward, boxVars
  <2>2. CASE k # i
    <3>1. k \in Passed \ (unseen \cup touched \cup garbled)
      BY <1>2, <2>2 DEF Onward
    <3>2. Went(k)
      BY <3>1 DEF GoneInv, SentIsGone, Went
    <3> QED
      BY <3>2, WentStays DEF boxVars
  <2> QED
    BY <2>1, <2>2
<1> QED
  BY <1>1, <1>3 DEF GoneInv

LEMMA EvidenceGone ==
  ASSUME TypeOK, GoneInv, Evidence
  PROVE  GoneInv'
<1>1. PICK screen \in Reading : Evidence!3!(screen)
  BY DEF Evidence
<1>0. /\ pc = "evidence" /\ UNCHANGED boxVars /\ UNCHANGED <<touched, garbled>>
  BY DEF Evidence
<1>2. CASE Cleared(screen) /\ Onward(~old)
  <2>1. screen = frame
    BY <1>2 DEF Cleared, Reading, Unreadable
  <2>2. ~old /\ i \notin touched \cup garbled => Went(i)
    BY <1>0, <1>2, <2>1 DEF Cleared, Holds, GoneInv, Drawn, Clean, Ends
  <2> QED
    BY <1>0, <1>2, <2>2, OnwardGone DEF TypeOK
<1>3. CASE Again /\ UNCHANGED <<i, unseen>>
  BY <1>0, <1>3, AgainGone
<1>4. CASE pc' = "done" /\ outcome' = "Unsubmitted" /\ UNCHANGED <<i, reads, drawVars, unseen>>
  <2>1. SentIsGone' /\ EndsLast'
    BY <1>0, <1>4, PassedStays DEF GoneInv, boxVars
  <2> QED
    BY <1>0, <1>4, <2>1 DEF GoneInv, CoverSeen, InBox, Drawn, Clean, boxVars
<1>5. CASE Onward(FALSE)
  BY <1>0, <1>5, OnwardGone
<1> QED
  BY <1>1, <1>2, <1>3, <1>4, <1>5

\* On the way to a message, nothing is typed, submitted or passed.
LEMMA WayGone ==
  ASSUME TypeOK, GoneInv, Look \/ Press \/ CodexRead \/ ClaudeRead \/ Fails
  PROVE  GoneInv'
<1>1. /\ pc # "done" /\ pc' \notin {"look", "enter", "evidence"} /\ outcome' # "Sent"
      /\ sent' = sent /\ i' = i /\ covered' = covered
      /\ unseen' = unseen /\ garbled' = garbled /\ touched \subseteq touched'
      /\ (pc = "look" /\ covered => i \in touched')
  <2>1. outcome # "Sent" \/ pc = "done"
    BY DEF GoneInv, EndsLast
  <2>2. CASE Look
    BY <2>1, <2>2 DEF Look, WayIn, boxVars
  <2>3. CASE Press
    BY <2>1, <2>3 DEF Press, Key, seenVars
  <2>4. CASE CodexRead
    BY <2>1, <2>4 DEF CodexRead, Decided, Again, boxVars
  <2>5. CASE ClaudeRead
    BY <2>1, <2>5 DEF ClaudeRead, Decided, Again, boxVars
  <2>6. CASE Fails
    BY <2>6 DEF Fails, Fail, boxVars, seenVars
  <2> QED
    BY <2>2, <2>3, <2>4, <2>5, <2>6
<1>2. SentIsGone' /\ EndsLast'
  BY <1>1, PassedStays DEF GoneInv
<1>3. CoverSeen' /\ InBox' /\ Drawn'
  BY <1>1 DEF GoneInv, CoverSeen, InBox, Drawn, Clean
<1> QED
  BY <1>2, <1>3 DEF GoneInv

LEMMA UserGone ==
  ASSUME TypeOK, GoneInv, UserKey \/ UserEnter \/ Cover
  PROVE  GoneInv'
<1>1. /\ User /\ sent \subseteq sent'
  BY DEF UserKey, UserEnter, Cover, Submitted
<1>2. /\ pc # "done" /\ pc' = pc /\ i' = i /\ outcome' # "Sent" /\ i \in touched'
      /\ unseen' = unseen /\ garbled' = garbled /\ touched \subseteq touched'
  BY <1>1 DEF User, nudgeVars, GoneInv, EndsLast
<1>3. SentIsGone' /\ EndsLast'
  BY <1>1, <1>2, PassedStays DEF GoneInv
<1>4. CoverSeen' /\ InBox' /\ Drawn'
  BY <1>2 DEF CoverSeen, InBox, Drawn, Clean
<1> QED
  BY <1>3, <1>4 DEF GoneInv

\* A message nudge moved on from was submitted, with no excuse but the frames it
\* was judged by and the user.
THEOREM SentMeansGone == Spec => []SentIsGone
<1>1. Init => TypeOK /\ GoneInv
  <2> SUFFICES ASSUME Init PROVE GoneInv
    BY InitType
  <2>1. Passed = {}
    BY DEF Init, Passed
  <2> QED
    BY <2>1 DEF Init, GoneInv, CoverSeen, InBox, Drawn, EndsLast, Clean, SentIsGone
<1>2. TypeOK /\ GoneInv /\ [Next]_vars => GoneInv'
  <2>1. ASSUME TypeOK, GoneInv, UNCHANGED vars
        PROVE  GoneInv'
    BY <2>1 DEF GoneInv, CoverSeen, InBox, Drawn, EndsLast, Clean, SentIsGone, Passed, Went, Ends,
                Message, Indices, vars, boxVars, drawVars, nudgeVars, seenVars
  <2> QED
    BY <2>1, TypeGone, EnterGone, EvidenceGone, WayGone, UserGone DEF Next, Nudge
<1>3. GoneInv => SentIsGone
  BY DEF GoneInv
<1> QED
  BY <1>1, <1>2, <1>3, TypingTyped, PTL DEF Spec

-----------------------------------------------------------------------------
(***************************************************************************)
(* A message is typed in Insert mode.                                      *)
(*                                                                         *)
(* What nudge knows of the box at each point of its way to the message,    *)
(* while nothing disturbed it.  Codex's status line may lag, but only from *)
(* Normal to Insert mode, and an i that was not needed does no harm to the *)
(* mode.                                                                   *)
(***************************************************************************)
Calm == i \notin touched \cup missed

CliFixed == (cli.kind = "claude" => cli.bindsA) /\ (cli.kind = "codex" => box.mode # "Visual")

OnTheWay ==
  Calm =>
    /\ pc \in {"codex A", "codex read"} => cli.kind = "codex"
    /\ pc = "codex A" => box.mode = "Normal" /\ frame.label = "Normal"
    /\ pc = "codex read" => box.mode = "Insert" \/ (box.mode = "Normal" /\ frame.label = "Normal")
    /\ pc = "codex i" => box.mode \in {"Insert", "Normal"}
    /\ pc = "claude Escape" => cli.vim /\ cli.kind = "claude"
    /\ pc = "claude A" => box.mode \in {"Insert", "Normal"} /\ cli.bindsA
    /\ pc \in {"claude read", "claude BSpace", "type"} => box.mode = "Insert"

TextInv == CliFixed /\ CoverSeen /\ OnTheWay /\ AsText

LEMMA LookText ==
  ASSUME TypeOK, TextInv, Look
  PROVE  TextInv'
<1>1. CliFixed' /\ CoverSeen' /\ AsText'
  BY DEF Look, TextInv, CliFixed, CoverSeen, AsText, Disturbed, boxVars
<1>2. OnTheWay'
  <2> SUFFICES ASSUME Calm'
               PROVE  /\ pc' = "codex A" =>
                           cli.kind = "codex" /\ box.mode = "Normal" /\ frame.label = "Normal"
                      /\ pc' \notin {"codex read", "codex i", "claude read", "claude BSpace"}
                      /\ pc' = "claude Escape" => cli.vim /\ cli.kind = "claude"
                      /\ pc' = "claude A" => box.mode \in {"Insert", "Normal"} /\ cli.bindsA
                      /\ pc' = "type" => box.mode = "Insert"
    BY DEF OnTheWay, Look, boxVars, drawVars
  <2>1. ~covered /\ ~Misleading /\ pc' = WayIn(frame)
    BY DEF Calm, Look
  <2>2. frame.box /\ frame.label = Label
    BY <2>1 DEF Misleading, Screen
  <2>3. /\ cli.kind \in {"claude", "codex"} /\ cli.vim \in BOOLEAN /\ box.mode \in Mode
        /\ ~cli.vim => box.mode = "Insert"
    BY DEF TypeOK
  <2> QED
    BY <2>1, <2>2, <2>3 DEF WayIn, Label, Misleading, Mode, TextInv, CliFixed
<1> QED
  BY <1>1, <1>2 DEF TextInv

\* A pause with Codex in Normal mode leaves a status line that says so.
LEMMA NormalShows ==
  ASSUME NEW o, Pause(o), cli' = cli, cli.kind = "codex", cli.vim, ~covered', box' = box,
         box.mode = "Normal", frame.label = "Normal"
  PROVE  frame'.label = "Normal"
<1>1. Screen'.label = "Normal"
  BY DEF Screen, Label
<1> QED
  BY <1>1 DEF Pause

LEMMA PressText ==
  ASSUME TypeOK, TextInv, Press
  PROVE  TextInv'
<1>1. /\ i' = i /\ touched' = touched /\ missed' = missed /\ garbled' = garbled
      /\ cli' = cli /\ covered' = covered /\ pc # "look"
  BY DEF Press, Key, seenVars
<1>2. /\ cli.vim \in BOOLEAN /\ box.mode \in Mode
      /\ ~cli.vim => box.mode = "Insert"
  BY DEF TypeOK
<1>3. \A k \in {"A", "i", "BSpace"} : Pressed(k).mode = box.mode \/ Pressed(k).mode = "Insert"
  BY DEF Pressed, Escaped, Backspaced, Typed, TypeOK
<1>4. Pressed("Escape").mode \in {box.mode, "Normal"}
  BY DEF Pressed, Escaped, Backspaced, Typed, TypeOK
<1>5. CliFixed' /\ CoverSeen' /\ AsText'
  <2>1. box'.mode \in {box.mode, "Insert", "Normal"}
    BY <1>3, <1>4 DEF Press, Key
  <2> QED
    BY <1>1, <2>1 DEF TextInv, CliFixed, CoverSeen, AsText, Disturbed
<1>6. OnTheWay'
  <2> SUFFICES ASSUME Calm
               PROVE  OnTheWay'
    BY <1>1 DEF OnTheWay, Calm
  <2>0. ~covered
    BY <1>1 DEF Calm, TextInv, CoverSeen
  <2>1. CASE Key("codex A", "A", "codex read")
    <3>1. box.mode = "Normal" /\ frame.label = "Normal" /\ cli.kind = "codex"
      BY <2>1 DEF Key, TextInv, OnTheWay
    <3>2. box'.mode = "Insert" \/ box' = box
      BY <2>0, <2>1, <3>1 DEF Key, Pressed, Typed, TypeOK
    <3>3. box'.mode = "Insert" \/ (box'.mode = "Normal" /\ frame'.label = "Normal")
      <4>1. CASE box' = box
        <5>1. cli.vim /\ ~covered' /\ cli' = cli
          BY <1>1, <1>2, <2>0, <3>1
        <5>2. Pause(old)
          BY <2>1 DEF Key
        <5> QED
          BY <3>1, <4>1, <5>1, <5>2, NormalShows
      <4> QED
        BY <3>2, <4>1
    <3> QED
      BY <1>1, <2>1, <3>1, <3>3 DEF Key, OnTheWay
  <2>2. CASE Key("codex i", "i", "type")
    <3>1. box.mode \in {"Insert", "Normal"}
      BY <2>2 DEF Key, TextInv, OnTheWay
    <3>2. Pressed("i").mode = "Insert"
      BY <2>0, <3>1 DEF Pressed, Escaped, Backspaced, Typed, TypeOK
    <3> QED
      BY <1>1, <2>2, <3>2 DEF Key, OnTheWay
  <2>3. CASE Key("claude Escape", "Escape", "claude A")
    <3>1. cli.vim
      BY <2>3 DEF Key, TextInv, OnTheWay
    <3>2. Pressed("Escape").mode = "Normal"
      BY <2>0, <3>1 DEF Pressed, Escaped, Backspaced, Typed, TypeOK
    <3>3. cli.bindsA
      BY <2>3 DEF Key, TextInv, OnTheWay, CliFixed
    <3> QED
      BY <1>1, <2>3, <3>2, <3>3 DEF Key, OnTheWay
  <2>4. CASE Key("claude A", "A", "claude read")
    <3>1. box.mode \in {"Insert", "Normal"} /\ cli.bindsA
      BY <2>4 DEF Key, TextInv, OnTheWay
    <3>2. Pressed("A").mode = "Insert"
      BY <2>0, <3>1 DEF Pressed, Escaped, Backspaced, Typed, TypeOK
    <3> QED
      BY <1>1, <2>4, <3>2 DEF Key, OnTheWay
  <2>5. CASE Key("claude BSpace", "BSpace", "type")
    <3>1. box.mode = "Insert"
      BY <2>5 DEF Key, TextInv, OnTheWay
    <3>2. Pressed("BSpace").mode = "Insert"
      BY <3>1, <1>3
    <3> QED
      BY <1>1, <2>5, <3>2 DEF Key, OnTheWay
  <2> QED
    BY <2>1, <2>2, <2>3, <2>4, <2>5 DEF Press
<1> QED
  BY <1>5, <1>6 DEF TextInv

\* Reading, and settling in between.
LEMMA ReadText ==
  ASSUME TypeOK, TextInv, CodexRead \/ ClaudeRead
  PROVE  TextInv'
<1>1. /\ UNCHANGED boxVars /\ i' = i /\ touched' = touched /\ garbled' = garbled
      /\ missed \subseteq missed' /\ pc # "look"
  BY DEF CodexRead, ClaudeRead, Missed
<1>2. CliFixed' /\ CoverSeen' /\ AsText'
  BY <1>1 DEF TextInv, CliFixed, CoverSeen, AsText, Disturbed, boxVars
<1>3. OnTheWay'
  <2> SUFFICES ASSUME Calm', Calm
               PROVE  OnTheWay'
    BY <1>1 DEF OnTheWay, Calm
  <2>0. ~covered /\ box.mode \in Mode /\ (~cli.vim => box.mode = "Insert") /\ cli.vim \in BOOLEAN
    BY <1>1 DEF Calm, TextInv, CoverSeen, TypeOK
  <2>1. CASE ClaudeRead
    <3>1. pc = "claude read" /\ box.mode = "Insert"
      BY <2>1 DEF ClaudeRead, TextInv, OnTheWay
    <3>2. pc' \in {"claude read", "claude BSpace", "type"}
      BY <2>1, <3>1 DEF ClaudeRead, Again, Decided
    <3> QED
      BY <1>1, <3>1, <3>2 DEF OnTheWay, boxVars
  <2>2. CASE CodexRead
    <3>1. /\ pc = "codex read" /\ cli.kind = "codex"
          /\ box.mode = "Insert" \/ (box.mode = "Normal" /\ frame.label = "Normal")
      BY <2>2 DEF CodexRead, TextInv, OnTheWay
    <3>2. CASE Again
      <4>1. box'.mode = "Insert" \/ (box'.mode = "Normal" /\ frame'.label = "Normal")
        BY <1>1, <2>0, <3>1, <3>2, NormalShows DEF Again, boxVars
      <4> QED
        BY <1>1, <3>1, <3>2, <4>1 DEF Again, OnTheWay, boxVars
    <3>3. CASE Decided("codex i")
      BY <1>1, <3>1, <3>3 DEF Decided, OnTheWay, boxVars
    <3>4. CASE Decided("type") /\ ~Again
      <4>1. PICK screen \in Reading :
              Missed(screen) /\ (screen.label \notin {"Normal", "none"} \/ screen.label = "none")
        BY <2>2, <3>4 DEF CodexRead, Decided
      <4>2. screen = frame
        BY <1>1, <4>1 DEF Missed, Calm
      <4>3. box.mode = "Insert"
        BY <3>1, <4>1, <4>2
      <4> QED
        BY <1>1, <3>4, <4>3 DEF Decided, OnTheWay, boxVars
    <3> QED
      BY <2>2, <3>2, <3>3, <3>4 DEF CodexRead
  <2> QED
    BY <2>1, <2>2
<1> QED
  BY <1>2, <1>3 DEF TextInv

LEMMA TypeText ==
  ASSUME TypeOK, TextInv, Type
  PROVE  TextInv'
<1>1. Calm => box.mode = "Insert"
  BY DEF Type, TextInv, OnTheWay
<1>2. AsText'
  BY <1>1 DEF Type, TextInv, AsText, Disturbed, Calm
<1>3. Pressed(Message).mode \in {box.mode, "Insert"}
  BY MessageTyped DEF Pressed, Escaped, Backspaced, Typed, TypeOK
<1>4. CliFixed' /\ CoverSeen' /\ OnTheWay'
  BY <1>3 DEF Type, TextInv, CliFixed, CoverSeen, OnTheWay
<1> QED
  BY <1>2, <1>4 DEF TextInv

LEMMA EnterText ==
  ASSUME TypeOK, TextInv, Enter
  PROVE  TextInv'
<1>1. box'.mode \in {box.mode, "Insert", "Normal"}
  BY DEF Enter, Submitted
<1> QED
  BY <1>1 DEF Enter, seenVars, TextInv, CliFixed, CoverSeen, OnTheWay, AsText, Disturbed

LEMMA OtherText ==
  ASSUME TypeOK, TextInv, Evidence \/ Fails
  PROVE  TextInv'
<1>1. /\ UNCHANGED boxVars /\ touched' = touched /\ garbled' = garbled /\ missed \subseteq missed'
      /\ (pc' = "look" \/ (i' = i /\ pc # "look"))
      /\ pc' \in {"look", "evidence", "done"}
  <2>1. CASE Evidence
    BY <2>1 DEF Evidence, Onward, Again, Missed
  <2>2. CASE Fails
    BY <2>2 DEF Fails, Fail, boxVars, seenVars
  <2> QED
    BY <2>1, <2>2
<1> QED
  BY <1>1 DEF TextInv, CliFixed, CoverSeen, OnTheWay, AsText, Disturbed, boxVars

LEMMA UserText ==
  ASSUME TypeOK, TextInv, UserKey \/ UserEnter \/ Cover
  PROVE  TextInv'
<1>1. User
  BY DEF UserKey, UserEnter, Cover
<1>2. box'.mode \in {box.mode, "Insert", "Normal"}
  <2>1. \A k \in {"u", "Escape"} : Pressed(k).mode \in {box.mode, "Insert", "Normal"}
    BY DEF Pressed, Escaped, Backspaced, Typed, TypeOK
  <2> QED
    BY <2>1 DEF UserKey, UserEnter, Cover, Submitted
<1> QED
  BY <1>1, <1>2 DEF User, nudgeVars, TextInv, CliFixed, CoverSeen, OnTheWay, AsText, Disturbed,
                    Calm

LEMMA InitText ==
  ASSUME Init
  PROVE  TextInv
BY DEF Init, TextInv, CliFixed, CoverSeen, OnTheWay, AsText

LEMMA StepText ==
  ASSUME TypeOK, TextInv, [Next]_vars
  PROVE  TextInv'
<1>1. CASE UNCHANGED vars
  BY <1>1 DEF TextInv, CliFixed, CoverSeen, OnTheWay, AsText, Disturbed, Calm, vars, boxVars,
              drawVars, nudgeVars, seenVars
<1> QED
  BY <1>1, LookText, PressText, ReadText, TypeText, EnterText, OtherText, UserText
     DEF Next, Nudge

\* Whichever CLI it is and however its Vim keys are set up, a message is read as
\* commands only if the user, a failed read or a misleading frame came between.
THEOREM TypedAsText == Spec => []AsText
<1>1. Init => TextInv
  BY InitText
<1>2. TypeOK /\ TextInv /\ [Next]_vars => TextInv'
  BY StepText
<1>3. TextInv => AsText
  BY DEF TextInv
<1> QED
  BY <1>1, <1>2, <1>3, TypingTyped, PTL DEF Spec

-----------------------------------------------------------------------------
(***************************************************************************)
(* What nudge reads last is the box as it is.                              *)
(*                                                                         *)
(* A pause that leaves the frame behind adds to the lag what a reread adds *)
(* to the reads, and nobody else changes the box or what covers it, unless *)
(* the user is at it: a frame still behind at the last reread would be     *)
(* behind by more than the redraws may take.                               *)
(***************************************************************************)
Rereading == {"codex read", "claude read", "evidence"}

Rested == pc \notin Rereading \cup {"done"} => reads = 0
Caught == pc \in Rereading /\ i \notin touched /\ frame # Screen => lag > reads

\* Nothing is submitted before its turn, nor, by nudge, but for its Enter.
InTurn ==
  /\ \A s \in sent : s.at <= i
  /\ pc \notin {"evidence", "done"} /\ i \notin touched => \A s \in sent : s.at # i
  /\ pc = "evidence" /\ i \notin touched /\ (\E s \in sent : s.at = i) => box.text = <<>>

StuckEnds == outcome = "Unsubmitted" => pc = "done"

StuckInv == CoverSeen /\ Rested /\ Caught /\ InTurn /\ StuckEnds /\ UnsubmittedIsStuck

LEMMA TurnTyped ==
  ASSUME TypeOK
  PROVE  i \in Nat /\ \A s \in sent : s.at \in Nat
<1>1. Indices \subseteq Nat
  BY TypingConstants DEF Indices
<1> QED
  BY <1>1 DEF TypeOK

\* A pause after a key, or between two reads, leaves the frame that much behind.
LEMMA PauseCounts ==
  ASSUME TypeOK, NEW o, Pause(o)
  PROVE  \/ frame' = Screen'
         \/ frame' = frame /\ lag' = lag + 1 /\ lag' > 0 /\ frame # Screen'
BY DEF Pause, TypeOK

LEMMA AgainCatches ==
  ASSUME TypeOK, Caught, Again, pc \in Rereading, UNCHANGED boxVars, i' = i, touched' = touched
  PROVE  Caught'
<1> SUFFICES ASSUME i \notin touched, frame' # Screen'
             PROVE  lag' > reads'
  BY DEF Caught
<1>1. Screen' = Screen /\ Pause(old) /\ reads' = reads + 1
  BY DEF Again, Screen, Label, boxVars
<1>2. frame # Screen /\ lag' = lag + 1
  BY <1>1, PauseCounts
<1> QED
  BY <1>1, <1>2 DEF Caught, TypeOK

LEMMA LastIsTrue ==
  ASSUME MaxLag <= REREADS, TypeOK, CoverSeen, Caught, pc \in Rereading, i \notin touched, LastRead
  PROVE  frame = Screen /\ ~covered
<1>1. ~covered
  BY DEF CoverSeen, Rereading
<1>2. lag <= reads
  BY TypingConstants DEF LastRead, TypeOK
<1> QED
  BY <1>1, <1>2 DEF Caught, TypeOK

LEMMA LookStuck ==
  ASSUME TypeOK, StuckInv, Look
  PROVE  StuckInv'
<1>1. /\ pc = "look" /\ pc' \notin Rereading \cup {"look", "done"}
      /\ outcome' = outcome /\ i' = i /\ UNCHANGED boxVars /\ reads' = reads
      /\ touched \subseteq touched' /\ (covered => i \in touched')
  BY DEF Look, WayIn, Rereading
<1> QED
  BY <1>1 DEF StuckInv, CoverSeen, Rested, Caught, InTurn, StuckEnds, UnsubmittedIsStuck, Rereading,
              boxVars

\* A key: nothing is submitted, and the count of the rereads begins.
LEMMA PressStuck ==
  ASSUME TypeOK, StuckInv, Press \/ Type
  PROVE  StuckInv'
<1>1. /\ pc \notin Rereading \cup {"look", "done"} /\ pc' \notin {"evidence", "done"}
      /\ i' = i /\ sent' = sent /\ covered' = covered /\ reads' = reads /\ outcome' = outcome
      /\ touched' = touched /\ \E o : Pause(o)
  BY DEF Press, Key, Type, seenVars, Rereading
<1>2. CoverSeen' /\ Rested' /\ InTurn' /\ StuckEnds' /\ UnsubmittedIsStuck'
  BY <1>1 DEF StuckInv, CoverSeen, Rested, InTurn, StuckEnds, UnsubmittedIsStuck, Rereading
<1>3. Caught'
  <2>1. reads' = 0
    BY <1>1 DEF StuckInv, Rested
  <2> QED
    BY <1>1, <2>1, PauseCounts DEF Caught
<1> QED
  BY <1>2, <1>3 DEF StuckInv

LEMMA EnterStuck ==
  ASSUME TypeOK, StuckInv, Enter
  PROVE  StuckInv'
<1>1. /\ pc = "enter" /\ pc' = "evidence" /\ i' = i /\ covered' = covered /\ reads' = reads
      /\ outcome' = outcome /\ touched' = touched /\ Pause(old)
      /\ (sent' = sent \/ (sent' = sent \cup {[at |-> i, text |-> box.text]} /\ box'.text = <<>>))
  BY DEF Enter, Submitted, seenVars
<1>2. CoverSeen' /\ Rested' /\ StuckEnds' /\ UnsubmittedIsStuck'
  BY <1>1 DEF StuckInv, CoverSeen, Rested, StuckEnds, UnsubmittedIsStuck, Rereading
<1>3. Caught'
  <2>1. reads' = 0
    BY <1>1 DEF StuckInv, Rested, Rereading
  <2> QED
    BY <1>1, <2>1, PauseCounts DEF Caught
<1>4. InTurn'
  <2>0. i \in Nat
    BY TurnTyped
  <2>1. \A s \in sent : s.at <= i
    BY DEF StuckInv, InTurn
  <2>2. i \notin touched => \A s \in sent : s.at # i
    BY <1>1 DEF StuckInv, InTurn
  <2>3. \A s \in sent' : s.at <= i'
    BY <1>1, <2>0, <2>1
  <2>4. i' \notin touched' /\ (\E s \in sent' : s.at = i') => box'.text = <<>>
    BY <1>1, <2>2
  <2> QED
    BY <1>1, <2>3, <2>4 DEF InTurn
<1> QED
  BY <1>2, <1>3, <1>4 DEF StuckInv

LEMMA ReadStuck ==
  ASSUME TypeOK, StuckInv, CodexRead \/ ClaudeRead
  PROVE  StuckInv'
<1>1. /\ pc \in {"codex read", "claude read"} /\ UNCHANGED boxVars /\ i' = i /\ touched' = touched
      /\ outcome' = outcome
      /\ \/ pc' = pc /\ Again
         \/ pc' \notin Rereading \cup {"look", "done"} /\ reads' = 0
  BY DEF CodexRead, ClaudeRead, Again, Decided, Rereading
<1>2. CoverSeen' /\ Rested' /\ InTurn' /\ StuckEnds' /\ UnsubmittedIsStuck'
  BY <1>1 DEF StuckInv, CoverSeen, Rested, InTurn, StuckEnds, UnsubmittedIsStuck, Rereading, boxVars
<1>3. Caught'
  BY <1>1, AgainCatches DEF StuckInv, Caught, Rereading
<1> QED
  BY <1>2, <1>3 DEF StuckInv

LEMMA EvidenceStuck ==
  ASSUME MaxLag <= REREADS, TypeOK, StuckInv, Evidence
  PROVE  StuckInv'
<1>0. pc = "evidence" /\ UNCHANGED boxVars /\ touched' = touched /\ outcome # "Unsubmitted"
  BY DEF Evidence, StuckInv, StuckEnds
<1>1. PICK screen \in Reading : Evidence!3!(screen)
  BY DEF Evidence
<1>2. ASSUME NEW seen, Onward(seen)
      PROVE  StuckInv'
  <2>1. /\ reads' = 0 /\ outcome' # "Unsubmitted"
        /\ \/ pc' = "look" /\ i' = i + 1
           \/ pc' = "done" /\ i' = i
    BY <1>0, <1>2 DEF Onward
  <2>2. \A s \in sent : s.at \in Nat /\ s.at <= i /\ i \in Nat
    BY TurnTyped DEF StuckInv, InTurn
  <2>3. \A s \in sent : s.at <= i' /\ (pc' = "look" => s.at # i')
    BY <2>1, <2>2
  <2>4. InTurn'
    BY <1>0, <2>1, <2>3 DEF InTurn, boxVars
  <2> QED
    BY <1>0, <2>1, <2>4 DEF StuckInv, CoverSeen, Rested, Caught, StuckEnds,
       UnsubmittedIsStuck, Rereading, boxVars
<1>3. CASE Again /\ i' = i
  <2>1. Caught'
    BY <1>0, <1>3, AgainCatches DEF StuckInv, Rereading
  <2> QED
    BY <1>0, <1>3, <2>1 DEF StuckInv, CoverSeen, Rested, InTurn, StuckEnds,
       UnsubmittedIsStuck, Rereading, boxVars, Again
<1>4. CASE /\ ~Cleared(screen) /\ LastRead /\ (held \/ Holds(screen)) /\ Missed(screen)
           /\ pc' = "done" /\ outcome' = "Unsubmitted" /\ i' = i
  <2>1. ASSUME ~Disturbed(i)'
        PROVE  Has(box.text, {Message}) /\ \A s \in sent : s.at # i
    <3>1. i \notin touched /\ screen = frame
      BY <1>0, <1>4, <2>1 DEF Disturbed, Missed
    <3>2. frame = Screen /\ ~covered
      BY <1>0, <1>4, <3>1, LastIsTrue DEF StuckInv, Rereading
    <3>3. screen.box /\ screen.text = box.text
      BY <3>1, <3>2 DEF Screen
    <3>4. Holds(screen)
      BY <1>4, <3>3 DEF Cleared
    <3>5. Ends(box.text)
      BY <3>3, <3>4 DEF Holds, Ends
    <3>6. Has(box.text, {Message})
      BY <3>5, BoxTyped, EndsHas
    <3> QED
      BY <1>0, <3>1, <3>5, <3>6 DEF StuckInv, InTurn, Ends
  <2>2. UnsubmittedIsStuck'
    BY <1>0, <1>4, <2>1 DEF UnsubmittedIsStuck, boxVars, Message, Has
  <2> QED
    BY <1>0, <1>4, <2>2 DEF StuckInv, CoverSeen, Rested, Caught, InTurn, StuckEnds, Rereading,
       boxVars
<1> QED
  BY <1>1, <1>2, <1>3, <1>4

LEMMA FailsStuck ==
  ASSUME TypeOK, StuckInv, Fails
  PROVE  StuckInv'
<1>1. /\ pc # "look" /\ pc' = "done" /\ outcome' = "Err" /\ i' = i /\ UNCHANGED boxVars /\ touched' = touched
  BY DEF Fails, Fail, seenVars
<1> QED
  BY <1>1 DEF boxVars, StuckInv, CoverSeen, Rested, Caught, InTurn, StuckEnds, UnsubmittedIsStuck,
              Rereading

LEMMA UserStuck ==
  ASSUME TypeOK, StuckInv, UserKey \/ UserEnter \/ Cover
  PROVE  StuckInv'
<1>1. User
  BY DEF UserKey, UserEnter, Cover
<1>2. \A s \in sent' : s \in sent \/ s.at = i
  BY DEF UserKey, UserEnter, Cover, Submitted
<1>3. /\ pc # "done" /\ i \in touched' /\ pc' = pc /\ i' = i /\ reads' = reads
      /\ outcome' = outcome /\ i \in Nat
  BY <1>1, TurnTyped DEF User, nudgeVars
<1>4. \A s \in sent' : s.at <= i
  BY <1>2, <1>3 DEF StuckInv, InTurn
<1> QED
  BY <1>3, <1>4 DEF StuckInv, CoverSeen, Rested, Caught, InTurn, StuckEnds, UnsubmittedIsStuck,
                    Rereading

LEMMA StepStuck ==
  ASSUME MaxLag <= REREADS, TypeOK, StuckInv, [Next]_vars
  PROVE  StuckInv'
<1>1. CASE UNCHANGED vars
  BY <1>1 DEF StuckInv, CoverSeen, Rested, Caught, InTurn, StuckEnds, UnsubmittedIsStuck, Disturbed,
              Message, Has, Screen, Label, Rereading, vars, boxVars, drawVars, nudgeVars, seenVars
<1> QED
  BY <1>1, LookStuck, PressStuck, EnterStuck, ReadStuck, EvidenceStuck, FailsStuck, UserStuck
     DEF Next, Nudge

LEMMA InitStuck ==
  ASSUME Init
  PROVE  StuckInv
BY TypingConstants DEF Init, StuckInv, CoverSeen, Rested, Caught, InTurn, StuckEnds,
                       UnsubmittedIsStuck, Rereading

\* A message reported stuck is in the box, and nothing was submitted since it was its
\* turn, if the program draws within the rereads: for any messages, equal ones
\* too, and any number of rereads and events.
THEOREM UnsubmittedMeansStuck ==
  ASSUME MaxLag <= REREADS
  PROVE  Spec => []UnsubmittedIsStuck
<1>1. Init => StuckInv
  BY InitStuck
<1>2. TypeOK /\ StuckInv /\ [Next]_vars => StuckInv'
  BY StepStuck
<1>3. StuckInv => UnsubmittedIsStuck
  BY DEF StuckInv
<1> QED
  BY <1>1, <1>2, <1>3, TypingTyped, PTL DEF Spec

-----------------------------------------------------------------------------
(***************************************************************************)
(* No key of nudge's own is left in what is submitted.                     *)
(*                                                                         *)
(* An A that Claude typed sits at the end of the box until a read shows    *)
(* it, and the last read shows the box as it is: so it is taken back, and  *)
(* no other.  The count of the letters is what tells it from one the box   *)
(* had before.                                                             *)
(***************************************************************************)
Quiet == \A k \in 1 .. i : ~Disturbed(k)
Plain(t) == ~Has(t, Stray)

\* A box of Claude Code that never names its mode.
Hidden == cli.kind = "claude" /\ (~cli.vim \/ ~cli.labels)
HidesLabel == Hidden => frame.label = "none"

HasA == box.mode = "Insert" /\ Hidden /\ Plain(before) /\ box.text = Append(before, "A")

KeysGone ==
  Quiet =>
    /\ pc \notin {"claude read", "claude BSpace", "done"} => Plain(box.text)
    /\ pc \in {"claude Escape", "claude A"} => before = box.text /\ Plain(frame.text)
    /\ pc = "claude A" => box.mode = "Normal" \/ Hidden
    /\ pc = "claude read" => HasA \/ (Plain(box.text) /\ Plain(frame.text) /\ Plain(before))
    /\ pc = "claude BSpace" => HasA
    /\ pc = "codex i" => box.mode = "Normal"

StrayInv == HidesLabel /\ KeysGone /\ NoStrayKeys

LEMMA CountPlain ==
  ASSUME NEW t, Plain(t)
  PROVE  CountOf("A", t) = 0
<1>1. {k \in DOMAIN t : t[k] = "A"} = {}
  BY DEF Plain, Has, Stray
<1> QED
  BY <1>1, FS_EmptySet DEF CountOf

LEMMA CountMore ==
  ASSUME NEW t \in Seq(Tokens)
  PROVE  CountOf("A", Append(t, "A")) = CountOf("A", t) + 1
<1> DEFINE S == {k \in DOMAIN t : t[k] = "A"}
           n == Len(t) + 1
<1>1. {k \in DOMAIN Append(t, "A") : Append(t, "A")[k] = "A"} = S \cup {n}
  OBVIOUS
<1>2. IsFiniteSet(S) /\ n \notin S
  <2>1. IsFiniteSet(1 .. Len(t)) /\ S \subseteq 1 .. Len(t)
    BY FS_Interval
  <2> QED
    BY <2>1, FS_Subset
<1>3. Cardinality(S \cup {n}) = Cardinality(S) + 1
  BY <1>2, FS_AddElement
<1> QED
  BY <1>1, <1>3 DEF CountOf

LEMMA PlainMore ==
  ASSUME NEW t \in Seq(Tokens), Plain(t), NEW x, x \notin Stray
  PROVE  Plain(Append(t, x))
BY DEF Plain, Has

\* A quiet step leaves the messages so far quiet, and the box in the open.
LEMMA QuietBefore ==
  ASSUME TypeOK, TextInv, i' = i, touched \subseteq touched', missed \subseteq missed', Quiet'
  PROVE  Quiet /\ Calm /\ Calm' /\ (pc # "look" => ~covered)
<1>1. i \in 1 .. i
  BY TypingConstants DEF TypeOK, Indices
<1> QED
  BY <1>1 DEF Quiet, Disturbed, Calm, TextInv, CoverSeen

\* A redraw names no mode a box hides.
LEMMA PauseHides ==
  ASSUME HidesLabel, cli' = cli, NEW o, Pause(o)
  PROVE  HidesLabel'
BY DEF HidesLabel, Hidden, Pause, Screen, Unreadable, Label

\* And it shows nothing the box does not hold.
LEMMA PausePlain ==
  ASSUME NEW o, Pause(o), Plain(frame.text), Plain(box'.text)
  PROVE  Plain(frame'.text)
<1>1. frame' = frame \/ frame'.text = box'.text \/ frame'.text = <<>>
  BY DEF Pause, Screen, Unreadable
<1>2. Plain(<<>>)
  BY DEF Plain, Has
<1> QED
  BY <1>1, <1>2

\* What was submitted was so before.
LEMMA SentStays ==
  ASSUME NoStrayKeys, sent' = sent, touched \subseteq touched', missed \subseteq missed'
  PROVE  NoStrayKeys'
BY DEF NoStrayKeys, Disturbed

LEMMA KeyIsNoMessage == "A" \notin MessageSet /\ "i" \notin MessageSet
BY TypingConstants DEF MessageSet, Indices

LEMMA LookStray ==
  ASSUME TypeOK, TextInv, StrayInv, Look
  PROVE  StrayInv'
<1>1. /\ UNCHANGED boxVars /\ i' = i /\ frame' = frame /\ touched \subseteq touched'
      /\ missed \subseteq missed' /\ pc = "look"
  BY DEF Look, drawVars
<1>2. NoStrayKeys' /\ HidesLabel'
  BY <1>1, SentStays DEF StrayInv, HidesLabel, Hidden, boxVars
<1>3. KeysGone'
  <2> SUFFICES ASSUME Quiet'
               PROVE  /\ pc' \notin {"claude read", "claude BSpace", "codex i"}
                      /\ Plain(box.text)
                      /\ pc' \in {"claude Escape", "claude A"} =>
                           before' = box.text /\ Plain(frame.text)
                      /\ pc' = "claude A" => box.mode = "Normal" \/ Hidden
    BY <1>1 DEF KeysGone, boxVars, Hidden
  <2>1. Quiet /\ Calm'
    BY <1>1, QuietBefore
  <2>2. Plain(box.text)
    BY <1>1, <2>1 DEF StrayInv, KeysGone
  <2>3. frame = Screen /\ ~Misleading /\ ~covered /\ before' = frame.text /\ pc' = WayIn(frame)
    BY <2>1 DEF Look, Calm, Misleading
  <2>4. frame.text = box.text /\ frame.box /\ frame.label = Label
    BY <2>3 DEF Screen
  <2>5. pc' = "claude A" => box.mode = "Normal" \/ Hidden
    <3>1. pc' = "claude A" => cli.kind = "claude" /\ Label \notin {"Insert", "Visual"}
      BY <2>3, <2>4 DEF WayIn, TypeOK
    <3> QED
      BY <3>1 DEF Label, Hidden, TypeOK, Mode
  <2> QED
    BY <2>2, <2>3, <2>4, <2>5 DEF WayIn
<1> QED
  BY <1>2, <1>3 DEF StrayInv

LEMMA PressStray ==
  ASSUME TypeOK, TextInv, StrayInv, Press
  PROVE  StrayInv'
<1>1. /\ i' = i /\ touched' = touched /\ missed' = missed /\ before' = before /\ sent' = sent
      /\ cli' = cli /\ covered' = covered /\ pc # "look" /\ \E o : Pause(o)
  BY DEF Press, Key, seenVars
<1>2. NoStrayKeys' /\ HidesLabel'
  BY <1>1, SentStays, PauseHides DEF StrayInv
<1>3. KeysGone'
  <2> SUFFICES ASSUME Quiet'
               PROVE  KeysGone'
    BY DEF KeysGone
  <2>0. Quiet /\ Calm /\ ~covered
    BY <1>1, QuietBefore
  <2>b. box.text \in Seq(Tokens) /\ box = [mode |-> box.mode, text |-> box.text]
    BY DEF TypeOK
  <2>1. CASE Key("codex A", "A", "codex read")
    <3>1. box.mode = "Normal" /\ Plain(box.text)
      BY <2>0, <2>1 DEF Key, TextInv, OnTheWay, StrayInv, KeysGone
    <3>2. box'.text = box.text
      BY <2>0, <2>1, <2>b, <3>1, KeyIsNoMessage DEF Key, Pressed, Typed
    <3> QED
      BY <2>1, <3>1, <3>2 DEF Key, KeysGone
  <2>2. CASE Key("codex i", "i", "type")
    <3>1. box.mode = "Normal" /\ Plain(box.text)
      BY <2>0, <2>2 DEF Key, StrayInv, KeysGone
    <3>2. box'.text = box.text
      BY <2>0, <2>2, <2>b, <3>1, KeyIsNoMessage DEF Key, Pressed, Typed
    <3> QED
      BY <2>2, <3>1, <3>2 DEF Key, KeysGone
  <2>3. CASE Key("claude Escape", "Escape", "claude A")
    <3>1. before = box.text /\ Plain(box.text) /\ Plain(frame.text) /\ cli.vim
      BY <2>0, <2>3 DEF Key, TextInv, OnTheWay, StrayInv, KeysGone
    <3>2. box'.text = box.text /\ box'.mode = "Normal"
      BY <2>0, <2>3, <2>b, <3>1 DEF Key, Pressed, Escaped
    <3>3. Plain(frame'.text)
      BY <1>1, <3>1, <3>2, PausePlain
    <3> QED
      BY <1>1, <2>3, <3>1, <3>2, <3>3 DEF Key, KeysGone
  <2>4. CASE Key("claude A", "A", "claude read")
    <3>1. /\ before = box.text /\ Plain(box.text) /\ Plain(frame.text)
          /\ box.mode \in {"Insert", "Normal"} /\ cli.bindsA
          /\ box.mode = "Normal" \/ Hidden
      BY <2>0, <2>4 DEF Key, TextInv, OnTheWay, StrayInv, KeysGone
    <3>2. CASE box.mode = "Insert"
      <4>1. box' = [box EXCEPT !.text = Append(box.text, "A")]
        BY <2>0, <2>4, <3>2 DEF Key, Pressed, Typed
      <4>2. box'.text = Append(before, "A") /\ box'.mode = "Insert"
        BY <2>b, <3>1, <3>2, <4>1
      <4>3. HasA'
        BY <1>1, <3>1, <3>2, <4>2 DEF HasA, Hidden
      <4> QED
        BY <2>4, <4>3 DEF Key, KeysGone
    <3>3. CASE box.mode = "Normal"
      <4>1. box'.text = box.text
        BY <2>0, <2>4, <2>b, <3>1, <3>3, KeyIsNoMessage DEF Key, Pressed, Typed
      <4>2. Plain(frame'.text)
        BY <1>1, <3>1, <4>1, PausePlain
      <4> QED
        BY <1>1, <2>4, <3>1, <4>1, <4>2 DEF Key, KeysGone
    <3> QED
      BY <3>1, <3>2, <3>3
  <2>5. CASE Key("claude BSpace", "BSpace", "type")
    <3>1. HasA
      BY <2>0, <2>5 DEF Key, StrayInv, KeysGone
    <3>2. before \in Seq(Tokens)
      BY DEF TypeOK
    <3>3. SubSeq(Append(before, "A"), 1, Len(Append(before, "A")) - 1) = before
      BY <3>2
    <3>4. box.text # <<>> /\ box' = [box EXCEPT !.text = SubSeq(box.text, 1, Len(box.text) - 1)]
      <4>1. box.text # <<>> /\ box.mode = "Insert"
        BY <3>1, <3>2 DEF HasA
      <4>2. box' = Pressed("BSpace")
        BY <2>5 DEF Key
      <4> QED
        BY <2>0, <4>1, <4>2 DEF Pressed, Backspaced
    <3>5. box'.text = before
      BY <2>b, <3>1, <3>3, <3>4 DEF HasA
    <3> QED
      BY <2>5, <3>1, <3>5 DEF Key, KeysGone, HasA
  <2> QED
    BY <2>1, <2>2, <2>3, <2>4, <2>5 DEF Press
<1> QED
  BY <1>2, <1>3 DEF StrayInv

LEMMA CodexStray ==
  ASSUME MaxLag <= REREADS, TypeOK, TextInv, StuckInv, StrayInv, CodexRead
  PROVE  StrayInv'
<1>1. /\ UNCHANGED boxVars /\ i' = i /\ touched' = touched /\ missed \subseteq missed'
      /\ pc = "codex read" /\ before' = before
  BY DEF CodexRead, Missed
<1>2. NoStrayKeys' /\ HidesLabel'
  <2>1. frame' = frame \/ \E o : Pause(o)
    BY DEF CodexRead, Again, Decided, drawVars
  <2> QED
    BY <1>1, <2>1, SentStays, PauseHides DEF StrayInv, boxVars, HidesLabel, Hidden
<1>3. KeysGone'
  <2> SUFFICES ASSUME Quiet'
               PROVE  KeysGone'
    BY DEF KeysGone
  <2>1. Quiet /\ Calm /\ Calm'
    BY <1>1, QuietBefore
  <2>2. Plain(box'.text)
    BY <1>1, <2>1 DEF StrayInv, KeysGone, boxVars
  <2>3. pc' \in {"codex read", "codex i", "type"}
    BY <1>1 DEF CodexRead, Again, Decided
  <2>4. ASSUME pc' = "codex i"
        PROVE  box'.mode = "Normal"
    <3>1. PICK screen \in Reading : Missed(screen) /\ screen.label = "Normal" /\ LastRead
      BY <1>1, <2>4 DEF CodexRead, Again, Decided
    <3>2. screen = frame
      BY <1>1, <2>1, <3>1 DEF Missed, Calm
    <3>3. frame = Screen
      BY <1>1, <2>1, <3>1, LastIsTrue DEF StuckInv, Rereading, Calm
    <3> QED
      BY <1>1, <3>1, <3>2, <3>3 DEF Screen, Unreadable, Label, boxVars
  <2> QED
    BY <2>2, <2>3, <2>4 DEF KeysGone
<1> QED
  BY <1>2, <1>3 DEF StrayInv

\* What the screen shows of a typed A, once it shows the box: one more of them.
LEMMA ShowsA ==
  ASSUME TypeOK, HasA, frame = Screen, ~covered
  PROVE  TypedA(frame)
<1>1. frame.box /\ frame.text = Append(before, "A") /\ frame.label = "none"
  BY DEF HasA, Hidden, Screen, Label
<1>2. before \in Seq(Tokens)
  BY DEF TypeOK
<1> QED
  BY <1>1, <1>2, CountMore DEF TypedA

LEMMA ClaudeStray ==
  ASSUME MaxLag <= REREADS, TypeOK, TextInv, StuckInv, StrayInv, ClaudeRead
  PROVE  StrayInv'
<1>1. /\ UNCHANGED boxVars /\ i' = i /\ touched' = touched /\ missed \subseteq missed'
      /\ pc = "claude read" /\ before' = before
  BY DEF ClaudeRead, Missed
<1>2. NoStrayKeys' /\ HidesLabel'
  <2>1. frame' = frame \/ \E o : Pause(o)
    BY DEF ClaudeRead, Again, Decided, drawVars
  <2> QED
    BY <1>1, <2>1, SentStays, PauseHides DEF StrayInv, boxVars, HidesLabel, Hidden
<1>3. KeysGone'
  <2> SUFFICES ASSUME Quiet'
               PROVE  KeysGone'
    BY DEF KeysGone
  <2>1. Quiet /\ Calm /\ Calm' /\ ~covered
    BY <1>1, QuietBefore
  <2>2. HasA \/ (Plain(box.text) /\ Plain(frame.text) /\ Plain(before))
    BY <1>1, <2>1 DEF StrayInv, KeysGone
  <2>3. PICK screen \in Reading : ClaudeRead!3!(screen)
    BY DEF ClaudeRead
  <2>4. screen = frame
    BY <1>1, <2>1, <2>3 DEF Missed, Calm
  <2>5. CASE Again
    <3>1. pc' = "claude read" /\ \E o : Pause(o)
      BY <1>1, <2>5 DEF Again
    <3>2. CASE HasA
      <4>1. HasA'
        BY <1>1, <3>2 DEF HasA, Hidden, boxVars
      <4> QED
        BY <3>1, <4>1 DEF KeysGone
    <3>3. CASE Plain(box.text) /\ Plain(frame.text) /\ Plain(before)
      <4>1. Plain(box'.text) /\ Plain(before')
        BY <1>1, <3>3 DEF boxVars
      <4>2. Plain(frame'.text)
        BY <3>1, <3>3, <4>1, PausePlain
      <4> QED
        BY <3>1, <4>1, <4>2 DEF KeysGone
    <3> QED
      BY <2>2, <3>2, <3>3
  <2>6. CASE TypedA(screen) /\ Decided("claude BSpace")
    <3>1. ~(Plain(frame.text) /\ Plain(before))
      <4>1. CountOf("A", frame.text) = CountOf("A", before) + 1
        BY <2>4, <2>6 DEF TypedA
      <4>2. Plain(frame.text) => CountOf("A", frame.text) = 0
        BY CountPlain
      <4>3. Plain(before) => CountOf("A", before) = 0
        BY CountPlain
      <4> QED
        BY <4>1, <4>2, <4>3
    <3>2. HasA'
      BY <1>1, <2>2, <3>1 DEF HasA, Hidden, boxVars
    <3> QED
      BY <2>6, <3>2 DEF Decided, KeysGone
  <2>7. CASE /\ Decided("type")
             /\ \/ screen.box /\ screen.label = "Insert"
                \/ ~TypedA(screen) /\ LastRead
    <3>1. ~HasA
      <4>1. CASE screen.label = "Insert"
        BY <2>4, <4>1 DEF HasA, StrayInv, HidesLabel
      <4>2. CASE ~TypedA(screen) /\ LastRead
        <5>1. frame = Screen
          BY <1>1, <2>1, <4>2, LastIsTrue DEF StuckInv, Rereading, Calm
        <5> QED
          BY <2>1, <2>4, <4>2, <5>1, ShowsA
      <4> QED
        BY <2>7, <4>1, <4>2
    <3>2. Plain(box'.text)
      BY <1>1, <2>2, <3>1 DEF boxVars
    <3> QED
      BY <2>7, <3>2 DEF Decided, KeysGone
  <2> QED
    BY <2>3, <2>5, <2>6, <2>7
<1> QED
  BY <1>2, <1>3 DEF StrayInv

LEMMA TypeStray ==
  ASSUME TypeOK, TextInv, StrayInv, Type
  PROVE  StrayInv'
<1>1. /\ pc = "type" /\ pc' = "enter" /\ i' = i /\ touched' = touched /\ missed' = missed
      /\ sent' = sent /\ cli' = cli /\ box' = Pressed(Message) /\ Pause(TRUE)
  BY DEF Type
<1>2. NoStrayKeys' /\ HidesLabel'
  BY <1>1, SentStays, PauseHides DEF StrayInv
<1>3. Quiet' => Plain(box'.text)
  <2> SUFFICES ASSUME Quiet'
               PROVE  Plain(box'.text)
    OBVIOUS
  <2>1. ~covered /\ Plain(box.text) /\ box.mode = "Insert"
    BY <1>1, QuietBefore DEF StrayInv, KeysGone, TextInv, OnTheWay
  <2>2. box' = [box EXCEPT !.text = Append(box.text, Message)]
    BY <1>1, <2>1, MessageTyped DEF Pressed, Typed
  <2>3. box'.text = Append(box.text, Message) /\ box.text \in Seq(Tokens)
    BY <2>2 DEF TypeOK
  <2>4. Message \notin Stray
    BY MessageTyped DEF Stray
  <2> QED
    BY <2>1, <2>3, <2>4, PlainMore
<1> QED
  BY <1>1, <1>2, <1>3 DEF StrayInv, KeysGone

LEMMA EnterStray ==
  ASSUME TypeOK, TextInv, StrayInv, Enter
  PROVE  StrayInv'
<1>1. /\ pc = "enter" /\ pc' = "evidence" /\ i' = i /\ touched' = touched /\ missed' = missed
      /\ cli' = cli /\ Pause(old)
      /\ \/ box' = box /\ sent' = sent
         \/ box'.text = <<>> /\ sent' = sent \cup {[at |-> i, text |-> box.text]}
  BY DEF Enter, Submitted, seenVars
<1>2. HidesLabel'
  BY <1>1, PauseHides DEF StrayInv
<1>3. Quiet => Plain(box.text)
  BY <1>1 DEF StrayInv, KeysGone
<1>4. NoStrayKeys'
  BY <1>1, <1>3 DEF StrayInv, NoStrayKeys, Disturbed, Quiet, Plain
<1>5. Quiet' => Plain(box'.text)
  BY <1>1, <1>3 DEF Quiet, Disturbed, Plain, Has
<1> QED
  BY <1>1, <1>2, <1>4, <1>5 DEF StrayInv, KeysGone

LEMMA OtherStray ==
  ASSUME TypeOK, TextInv, StrayInv, Evidence \/ Fails
  PROVE  StrayInv'
<1>1. /\ UNCHANGED boxVars /\ touched' = touched /\ missed \subseteq missed'
      /\ \/ pc' = "done"
         \/ pc = "evidence" /\ pc' = "evidence" /\ i' = i
         \/ pc = "evidence" /\ pc' = "look" /\ i' = i + 1
      /\ frame' = frame \/ \E o : Pause(o)
  <2>1. CASE Evidence
    BY <2>1 DEF Evidence, Onward, Again, Missed, drawVars
  <2>2. CASE Fails
    BY <2>2 DEF Fails, Fail, drawVars, seenVars
  <2> QED
    BY <2>1, <2>2
<1>2. NoStrayKeys' /\ HidesLabel'
  BY <1>1, SentStays, PauseHides DEF StrayInv, boxVars, HidesLabel, Hidden
<1>3. pc = "evidence" /\ Quiet' /\ i' \in {i, i + 1} => Plain(box.text)
  <2> SUFFICES ASSUME pc = "evidence", Quiet', i' \in {i, i + 1}
               PROVE  Plain(box.text)
    OBVIOUS
  <2>1. \A k \in 1 .. i : k \in 1 .. i'
    BY TurnTyped
  <2>2. Quiet
    BY <1>1, <2>1 DEF Quiet, Disturbed
  <2> QED
    BY <2>2 DEF StrayInv, KeysGone
<1> QED
  BY <1>1, <1>2, <1>3 DEF StrayInv, KeysGone, boxVars

LEMMA UserStray ==
  ASSUME TypeOK, StrayInv, UserKey \/ UserEnter \/ Cover
  PROVE  StrayInv'
<1>1. /\ i' = i /\ i \in touched' /\ i \in 1 .. i /\ touched \subseteq touched' /\ missed' = missed
      /\ cli' = cli /\ frame' = frame
  <2>1. User
    BY DEF UserKey, UserEnter, Cover
  <2>2. i \in 1 .. i
    BY TypingConstants DEF TypeOK, Indices
  <2> QED
    BY <2>1, <2>2 DEF User, nudgeVars, drawVars
<1>2. \A s \in sent' : s \in sent \/ s.at = i
  BY DEF UserKey, UserEnter, Cover, Submitted
<1>3. NoStrayKeys'
  BY <1>1, <1>2 DEF StrayInv, NoStrayKeys, Disturbed
<1> QED
  BY <1>1, <1>3 DEF StrayInv, HidesLabel, Hidden, KeysGone, Quiet, Disturbed

LEMMA InitStray ==
  ASSUME Init
  PROVE  StrayInv
<1>1. Plain(box.text)
  BY DEF Init, Plain, Has, Stray
<1> QED
  BY <1>1 DEF Init, StrayInv, HidesLabel, Hidden, KeysGone, NoStrayKeys, Screen, Label

\* No key nudge pressed to enter Insert mode is in what is submitted, if the program
\* draws within the rereads and nothing disturbed a message so far.
THEOREM NoKeysLeft ==
  ASSUME MaxLag <= REREADS
  PROVE  Spec => []NoStrayKeys
<1> DEFINE Inv == TextInv /\ StuckInv /\ StrayInv
<1>1. Init => Inv
  BY InitText, InitStuck, InitStray
<1>2. TypeOK /\ Inv /\ [Next]_vars => Inv'
  <2>1. ASSUME StrayInv, UNCHANGED vars
        PROVE  StrayInv'
    BY <2>1 DEF StrayInv, HidesLabel, Hidden, KeysGone, HasA, Quiet, Disturbed, NoStrayKeys,
                vars, boxVars, drawVars, nudgeVars, seenVars
  <2> QED
    BY <2>1, StepText, StepStuck, LookStray, PressStray, CodexStray, ClaudeStray, TypeStray,
       EnterStray, OtherStray, UserStray DEF Next, Nudge
<1>3. Inv => NoStrayKeys
  BY DEF StrayInv
<1> QED
  BY <1>1, <1>2, <1>3, TypingTyped, PTL DEF Spec
=============================================================================
