------------------------------- MODULE NudgeText -------------------------------
(***************************************************************************)
(* The pure text algorithms of the dashboard: the word motions and edits   *)
(* of its line editor (tui/update.rs) and the fuzzy matcher of its pane    *)
(* picker (tui/fuzzy.rs).                                                  *)
(*                                                                         *)
(* A text is a sequence of character classes: nothing the editor does      *)
(* tells two characters of a class apart.  A cursor is an index from 0, as *)
(* in the code: it stands on t[cursor + 1], or past the end.               *)
(***************************************************************************)
EXTENDS Integers, Sequences, FiniteSets, FiniteSetsExt

char_class == {"space", "word", "punct"}

Least(a, b) == IF a < b THEN a ELSE b

Pred(n) == IF n = 0 THEN 0 ELSE n - 1   \* saturating_sub(1)

\* Where a run of characters of the classes C, entered at i, ends.
RunEnd(t, i, C) == Min({j \in i .. Len(t) : j = Len(t) \/ t[j + 1] \notin C})

\* A plausible slip: from a space, the word that follows is skipped too.
BugNextWord(t, i) ==
  IF i >= Len(t) THEN Len(t) ELSE RunEnd(t, RunEnd(t, i, {t[i + 1], "space"}), {"space"})

\* vim's `w`: past the run the cursor is in, then past spaces.
next_word(t, i) ==
  IF i >= Len(t) THEN Len(t)
  ELSE RunEnd(t, IF t[i + 1] = "space" THEN i ELSE RunEnd(t, i, {t[i + 1]}), {"space"})

\* vim's `b`: back over spaces, then to the start of the run.
prev_word(t, i) ==
  IF i = 0 THEN 0
  ELSE LET j == Max({k \in 0 .. i - 1 : k = 0 \/ t[k + 1] # "space"})
       IN IF t[j + 1] = "space" THEN 0
          ELSE Max({k \in 0 .. j : k = 0 \/ t[k] # t[j + 1]})

\* What `w` and `b` mean: the next and the last place where a word begins.
WordStarts(t) == {k \in 0 .. Len(t) - 1 : t[k + 1] # "space" /\ (k = 0 \/ t[k] # t[k + 1])}

VimNextWord(t, i) == Min({k \in WordStarts(t) : k > i} \cup {Len(t)})
VimPrevWord(t, i) == Max({k \in WordStarts(t) : k < i} \cup {0})

Inserted(t, at, c) == SubSeq(t, 1, at) \o <<c>> \o SubSeq(t, at + 1, Len(t))

Cut(t, a, b) == IF a < b THEN SubSeq(t, 1, a) \o SubSeq(t, b + 1, Len(t)) ELSE t

\* A plausible slip: a last row that fills the field is not broken.
BugRowFull(t, start, width) == Len(t) - start > width

RowFull(t, start, width) == Len(t) - start >= width

\* Where the rows of a text wrapped to a width begin: a full row ends after
\* its last space, or at its width if it has none.  Row[k] is the k-th, -1
\* past the last.
wrap_starts(t, width) ==
  LET NextRow(start) ==
        LET spaces == {k \in 1 .. width : t[start + k] = "space"}
        IN start + (IF spaces = {} THEN width ELSE Max(spaces))
      Row[k \in 0 .. Len(t)] ==
        IF k = 0 THEN 0
        ELSE IF Row[k - 1] = -1 \/ ~RowFull(t, Row[k - 1], width) THEN -1
        ELSE NextRow(Row[k - 1])
  IN {Row[k] : k \in 0 .. Len(t)} \ {-1}

\* The row a character falls on, from 0, and its column there.
Row(starts, at)    == Cardinality({s \in starts : s <= at}) - 1
Column(starts, at) == at - Max({s \in starts : s <= at})

\* How many rows of a message are shown on a screen that can spare `spare` for
\* it, and which they are: the first ones, or those that end with the cursor's.
msg_rows(starts, spare) == Least(Cardinality(starts), IF spare < 1 THEN 1 ELSE spare)

RowsShown(starts, spare, at) ==
  LET n   == msg_rows(starts, spare)
      top == IF Row(starts, at) + 1 < n THEN 0 ELSE Row(starts, at) + 1 - n
  IN top .. top + n - 1

IsBlank(t) == \A k \in DOMAIN t : t[k] = "space"

-----------------------------------------------------------------------------
(***************************************************************************)
(* The fuzzy matcher, over sequences of letters.                           *)
(***************************************************************************)
Separators == {" ", ":", ".", "-", "_", "/"}

AtWordStart(label, i) == i = 1 \/ label[i - 1] \in Separators

\* One pass over the label, taking each letter of the query at its first
\* chance: a point for a letter, two if it follows the last one taken, three
\* if it begins a word.
score(query, label) ==
  LET scan[i \in 0 .. Len(label)] ==
        IF i = 0 THEN [taken |-> 0, total |-> 0, run |-> FALSE]
        ELSE LET was == scan[i - 1]
             IN IF was.taken < Len(query) /\ label[i] = query[was.taken + 1]
                THEN [taken |-> was.taken + 1,
                      total |-> was.total + 1 + (IF was.run THEN 2 ELSE 0)
                                          + (IF AtWordStart(label, i) THEN 3 ELSE 0),
                      run   |-> TRUE]
                ELSE [was EXCEPT !.run = FALSE]
  IN scan[Len(label)]

Matches(query, label) == score(query, label).taken = Len(query)

\* The indices of the labels that match, best first, equal ones in order.
filter(query, labels) ==
  LET hits == {i \in DOMAIN labels : Matches(query, labels[i])}
      points(i) == score(query, labels[i]).total
      Before(k, i) == points(k) > points(i) \/ (points(k) = points(i) /\ k < i)
  IN [r \in 1 .. Cardinality(hits) |->
        CHOOSE i \in hits : Cardinality({k \in hits : Before(k, i)}) = r - 1]

\* Which of m matches a list of h rows shows, the highlighted one on its last
\* row once there are more of them than rows.
MatchesShown(m, h, highlight) ==
  IF m <= h THEN 1 .. m
  ELSE LET end == IF highlight < h THEN h ELSE Least(highlight, m)
       IN end - h + 1 .. end

\* What a match is: the query's letters stand in the label, in order.
IsSubsequence(query, label) ==
  \E at \in [DOMAIN query -> DOMAIN label] :
    /\ \A k \in DOMAIN query : label[at[k]] = query[k]
    /\ \A j, k \in DOMAIN query : j < k => at[j] < at[k]
=============================================================================
