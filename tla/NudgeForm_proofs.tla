----------------------------- MODULE NudgeForm_proofs -----------------------------
(***************************************************************************)
(* Proofs about the form of the dashboard, for every text, pane list and   *)
(* job: what its operators are given well formed they leave well formed.   *)
(* NudgeTui_proofs builds on it.                                           *)
(***************************************************************************)
EXTENDS NudgeForm, TLAPS, WellFoundedInduction, SequenceTheorems, FiniteSetTheorems

-----------------------------------------------------------------------------
(***************************************************************************)
(* The text.                                                               *)
(***************************************************************************)
Below == {p \in Nat \X Nat : p[1] < p[2]}

LEMMA BelowWellFounded == IsWellFoundedOn(Below, Nat)
BY NatLessThanWellFounded, Zenon DEF OpToRel, Below

LEMMA MinOf ==
  ASSUME NEW S \in SUBSET Nat, S # {}
  PROVE  Min(S) \in S /\ \A y \in S : Min(S) <= y
<1>1. PICK x \in S : \A y \in S : ~ (<<y, x>> \in Below)
  BY BelowWellFounded, WFMin
<1>2. ASSUME NEW y \in S PROVE x <= y
  <2>1. x \in Nat /\ y \in Nat
    OBVIOUS
  <2>2. y < x => <<y, x>> \in Below
    BY <2>1 DEF Below
  <2> QED
    BY <1>1, <2>1, <2>2
<1> QED
  BY <1>2 DEF Min

LEMMA MaxOf ==
  ASSUME NEW n \in Nat, NEW S \in SUBSET (0 .. n), S # {}
  PROVE  Max(S) \in S /\ \A y \in S : y <= Max(S)
<1> DEFINE T == {k \in Nat : n - k \in S}
<1>1. T \in SUBSET Nat
  OBVIOUS
<1>2. PICK x \in S : TRUE
  OBVIOUS
<1>3. n - x \in T
  <2>1. x \in 0 .. n
    OBVIOUS
  <2>2. n - x \in Nat /\ n - (n - x) = x
    BY <2>1
  <2> QED
    BY <2>2
<1>4. Min(T) \in T /\ \A k \in T : Min(T) <= k
  BY <1>1, <1>3, MinOf
<1> DEFINE m == Min(T)
<1> HIDE DEF m
<1>5. m \in Nat /\ n - m \in S
  BY <1>4 DEF m
<1>6. ASSUME NEW y \in S PROVE n - m >= y
  <2>1. y \in 0 .. n
    OBVIOUS
  <2>2. n - y \in Nat /\ n - (n - y) = y
    BY <2>1
  <2>3. n - y \in T
    BY <2>2
  <2>4. m <= n - y
    BY <1>4, <2>3 DEF m
  <2> QED
    BY <1>5, <2>1, <2>4
<1> QED
  BY <1>5, <1>6 DEF Max

\* Where a motion may take the cursor.
LEMMA NextWordIn ==
  ASSUME NEW S, NEW t \in Seq(S), NEW i \in Nat
  PROVE  next_word(t, i) \in 0 .. Len(t) /\ (i <= Len(t) => next_word(t, i) >= i)
<1>1. \A j \in 0 .. Len(t) : \A C : RunEnd(t, j, C) \in j .. Len(t)
  <2> SUFFICES ASSUME NEW j \in 0 .. Len(t), NEW C PROVE RunEnd(t, j, C) \in j .. Len(t)
    OBVIOUS
  <2> DEFINE ends == {k \in j .. Len(t) : k = Len(t) \/ t[k + 1] \notin C}
  <2>1. ends \in SUBSET Nat /\ Len(t) \in ends
    OBVIOUS
  <2>2. Min(ends) \in ends
    BY <2>1, MinOf
  <2> QED
    BY <2>2 DEF RunEnd
<1>2. CASE i >= Len(t)
  BY <1>2 DEF next_word
<1>3. CASE i < Len(t)
  <2> DEFINE past == IF t[i + 1] = "space" THEN i ELSE RunEnd(t, i, {t[i + 1]})
  <2>1. past \in i .. Len(t)
    BY <1>1, <1>3
  <2>2. RunEnd(t, past, {"space"}) \in past .. Len(t)
    BY <1>1, <2>1
  <2> QED
    BY <1>3, <2>1, <2>2 DEF next_word
<1> QED
  BY <1>2, <1>3

LEMMA PrevWordIn ==
  ASSUME NEW S, NEW t \in Seq(S), NEW i \in 0 .. Len(t)
  PROVE  prev_word(t, i) \in 0 .. Pred(i)
<1>1. CASE i = 0
  BY <1>1 DEF prev_word, Pred
<1>2. CASE i # 0
  <2> DEFINE K == {k \in 0 .. i - 1 : k = 0 \/ t[k + 1] # "space"}
             j == Max(K)
             L == {k \in 0 .. j : k = 0 \/ t[k] # t[j + 1]}
  <2>1. K \in SUBSET (0 .. i - 1) /\ 0 \in K /\ i - 1 \in Nat
    BY <1>2
  <2>2. j \in 0 .. i - 1
    BY <2>1, MaxOf
  <2> HIDE DEF j
  <2>3. L \in SUBSET (0 .. j) /\ 0 \in L
    BY <2>2
  <2> HIDE DEF K, L
  <2>4. Max(L) \in 0 .. j
    <3>1. j \in Nat
      BY <2>2
    <3>2. Max(L) \in L
      BY <2>3, <3>1, MaxOf
    <3> QED
      BY <2>3, <3>2
  <2>5. prev_word(t, i) = IF t[j + 1] = "space" THEN 0 ELSE Max(L)
    BY <1>2 DEF prev_word, j, K, L
  <2> QED
    BY <1>2, <2>2, <2>4, <2>5 DEF Pred
<1> QED
  BY <1>1, <1>2

LEMMA InsertedIn ==
  ASSUME NEW S, NEW t \in Seq(S), NEW at \in 0 .. Len(t), NEW c \in S
  PROVE  Inserted(t, at, c) \in Seq(S) /\ Len(Inserted(t, at, c)) = Len(t) + 1
<1>1. SubSeq(t, 1, at) \in Seq(S) /\ Len(SubSeq(t, 1, at)) = at
  BY SubSeqProperties, ElementOfSeq
<1>2. SubSeq(t, at + 1, Len(t)) \in Seq(S) /\ Len(SubSeq(t, at + 1, Len(t))) = Len(t) - at
  BY SubSeqProperties, ElementOfSeq
<1>3. <<c>> \in Seq(S) /\ Len(<<c>>) = 1
  OBVIOUS
<1>4. /\ SubSeq(t, 1, at) \o <<c>> \in Seq(S)
      /\ Len(SubSeq(t, 1, at) \o <<c>>) = at + 1
  BY <1>1, <1>3, ConcatProperties
<1> DEFINE l == SubSeq(t, 1, at) \o <<c>>
           r == SubSeq(t, at + 1, Len(t))
<1> HIDE DEF l, r
<1>5. l \in Seq(S) /\ r \in Seq(S) /\ Len(l) = at + 1 /\ Len(r) = Len(t) - at
  BY <1>2, <1>4 DEF l, r
<1>6. l \o r \in Seq(S) /\ Len(l \o r) = Len(l) + Len(r)
  BY <1>5, ConcatProperties
<1>7. Inserted(t, at, c) = l \o r
  BY DEF Inserted, l, r
<1>8. Len(t) \in Nat /\ Len(l) + Len(r) = Len(t) + 1
  BY <1>5
<1> QED
  BY <1>6, <1>7, <1>8

LEMMA CutIn ==
  ASSUME NEW S, NEW t \in Seq(S), NEW a \in 0 .. Len(t), NEW b \in 0 .. Len(t)
  PROVE  /\ Cut(t, a, b) \in Seq(S)
         /\ Len(Cut(t, a, b)) = Len(t) - (IF a < b THEN b - a ELSE 0)
         /\ \A i \in DOMAIN Cut(t, a, b) :
              Cut(t, a, b)[i] = t[IF i <= a \/ b <= a THEN i ELSE i + (b - a)]
<1>1. CASE ~(a < b)
  BY <1>1 DEF Cut
<1>2. CASE a < b
  <2> DEFINE l == SubSeq(t, 1, a)
             r == SubSeq(t, b + 1, Len(t))
  <2>1. l \in Seq(S) /\ Len(l) = a /\ \A i \in 1 .. a : l[i] = t[i]
    BY SubSeqProperties, ElementOfSeq
  <2>2. /\ r \in Seq(S) /\ Len(r) = Len(t) - b
        /\ \A i \in 1 .. Len(t) - b : r[i] = t[b + i]
    BY SubSeqProperties, ElementOfSeq
  <2> HIDE DEF l, r
  <2>3. /\ l \o r \in Seq(S) /\ Len(l \o r) = a + (Len(t) - b)
        /\ \A i \in 1 .. a + (Len(t) - b) : (l \o r)[i] = IF i <= a THEN l[i] ELSE r[i - a]
    <3>1. l \in Seq(S) /\ r \in Seq(S) /\ Len(l) = a /\ Len(r) = Len(t) - b
      BY <2>1, <2>2
    <3>2. /\ l \o r \in Seq(S) /\ Len(l \o r) = Len(l) + Len(r)
          /\ \A i \in 1 .. Len(l) + Len(r) :
               (l \o r)[i] = IF i <= Len(l) THEN l[i] ELSE r[i - Len(l)]
      BY <3>1, ConcatProperties
    <3> QED
      BY <3>1, <3>2
  <2>4. DOMAIN (l \o r) = 1 .. a + (Len(t) - b)
    BY <2>3
  <2>5. Cut(t, a, b) = l \o r
    BY <1>2 DEF Cut, l, r
  <2>6. ASSUME NEW i \in 1 .. a + (Len(t) - b)
        PROVE  (l \o r)[i] = t[IF i <= a \/ b <= a THEN i ELSE i + (b - a)]
    <3>1. CASE i <= a
      BY <2>1, <2>3, <3>1
    <3>2. CASE ~(i <= a)
      <4>1. (l \o r)[i] = r[i - a] /\ i - a \in 1 .. Len(t) - b /\ b + (i - a) = i + (b - a)
        BY <2>3, <3>2
      <4> QED
        BY <1>2, <2>2, <3>2, <4>1
    <3> QED
      BY <3>1, <3>2
  <2> QED
    BY <1>2, <2>3, <2>4, <2>5, <2>6
<1> QED
  BY <1>1, <1>2

\* Where a run ends: no sooner than it was entered, at the first character of
\* another class.
LEMMA RunEndIs ==
  ASSUME NEW S, NEW t \in Seq(S), NEW i \in 0 .. Len(t), NEW C
  PROVE  /\ RunEnd(t, i, C) \in i .. Len(t)
         /\ RunEnd(t, i, C) # Len(t) => t[RunEnd(t, i, C) + 1] \notin C
         /\ \A k \in i .. RunEnd(t, i, C) - 1 : t[k + 1] \in C
<1> DEFINE ends == {k \in i .. Len(t) : k = Len(t) \/ t[k + 1] \notin C}
           e == Min(ends)
<1>1. ends \in SUBSET Nat /\ Len(t) \in ends
  OBVIOUS
<1>2. e \in ends /\ \A k \in ends : e <= k
  BY <1>1, MinOf
<1>3. RunEnd(t, i, C) = e
  BY DEF RunEnd
<1> HIDE DEF e
<1>4. \A k \in i .. e - 1 : t[k + 1] \in C
  <2> SUFFICES ASSUME NEW k \in i .. e - 1 PROVE t[k + 1] \in C
    OBVIOUS
  <2>1. k \in i .. Len(t) /\ k < e /\ k # Len(t) /\ k \in Nat /\ e \in Nat
    BY <1>2
  <2>2. k \notin ends
    BY <1>2, <2>1
  <2> QED
    BY <2>1, <2>2
<1> QED
  BY <1>2, <1>3, <1>4

LEMMA MinIs ==
  ASSUME NEW S \in SUBSET Nat, NEW x \in S, \A y \in S : x <= y
  PROVE  Min(S) = x
<1>1. Min(S) \in S /\ Min(S) <= x /\ x <= Min(S)
  BY MinOf
<1>2. Min(S) \in Nat /\ x \in Nat
  BY <1>1
<1> QED
  BY <1>1, <1>2

LEMMA MaxIs ==
  ASSUME NEW n \in Nat, NEW S \in SUBSET (0 .. n), NEW x \in S, \A y \in S : y <= x
  PROVE  Max(S) = x
<1>1. Max(S) \in S /\ Max(S) <= x /\ x <= Max(S)
  BY MaxOf
<1>2. Max(S) \in 0 .. n /\ x \in 0 .. n
  BY <1>1
<1>3. Max(S) \in Nat /\ x \in Nat
  BY <1>2
<1> QED
  BY <1>1, <1>3

\* `w` goes where vim's does, from every place of every text.
LEMMA NextWordIsVims ==
  ASSUME NEW S, NEW t \in Seq(S), NEW i \in 0 .. Len(t)
  PROVE  next_word(t, i) = VimNextWord(t, i)
<1> DEFINE n == Len(t)
           after == {k \in WordStarts(t) : k > i} \cup {n}
<1>1. n \in Nat /\ i \in Nat /\ after \in SUBSET Nat /\ n \in after
  BY DEF WordStarts
<1>2. CASE i >= n
  <2>1. \A k \in after : n <= k
    BY <1>1, <1>2 DEF WordStarts
  <2>2. Min(after) = n
    BY <1>1, <2>1, MinIs
  <2> QED
    BY <1>2, <2>2 DEF next_word, VimNextWord
<1>3. CASE i < n
  <2> DEFINE p == IF t[i + 1] = "space" THEN i ELSE RunEnd(t, i, {t[i + 1]})
             e == RunEnd(t, p, {"space"})
  <2>1. /\ p \in i .. n
        /\ \A k \in i .. p - 1 : t[k + 1] = t[i + 1]
        /\ t[i + 1] = "space" => p = i
        /\ t[i + 1] # "space" => p > i /\ (p # n => t[p + 1] # t[i + 1])
    <3>1. CASE t[i + 1] = "space"
      BY <1>1, <1>3, <3>1
    <3>2. CASE t[i + 1] # "space"
      <4> DEFINE r == RunEnd(t, i, {t[i + 1]})
      <4>1. /\ r \in i .. n /\ (r # n => t[r + 1] \notin {t[i + 1]})
            /\ \A k \in i .. r - 1 : t[k + 1] \in {t[i + 1]}
        BY RunEndIs
      <4>2. p = r
        BY <3>2
      <4> HIDE DEF r, p
      <4>3. r # i
        BY <1>1, <1>3, <4>1
      <4> QED
        BY <1>1, <3>2, <4>1, <4>2, <4>3
    <3> QED
      BY <3>1, <3>2
  <2> HIDE DEF p
  <2>2. /\ e \in p .. n /\ (e # n => t[e + 1] # "space")
        /\ \A k \in p .. e - 1 : t[k + 1] = "space"
    <3>1. p \in 0 .. Len(t)
      BY <1>1, <2>1
    <3> QED
      BY <3>1, RunEndIs
  <2> HIDE DEF e
  <2>3. e \in Nat /\ p \in Nat /\ e >= p /\ p >= i /\ e <= n
    BY <1>1, <2>1, <2>2
  <2>4. e \in after
    <3>1. SUFFICES ASSUME e # n PROVE e > i /\ e \in WordStarts(t)
      BY <1>1
    <3>2. e > i
      BY <1>1, <2>1, <2>2, <2>3, <3>1
    <3>3. t[e] # t[e + 1]
      <4>1. CASE e > p
        <5>1. e - 1 \in p .. e - 1 /\ e - 1 + 1 = e
          BY <2>3, <4>1
        <5> QED
          BY <2>2, <3>1, <5>1
      <4>2. CASE e = p
        <5>1. t[i + 1] # "space"
          BY <1>1, <2>1, <3>2, <4>2
        <5>2. e - 1 \in i .. p - 1 /\ e - 1 + 1 = e
          BY <1>1, <2>3, <3>2, <4>2
        <5> QED
          BY <2>1, <3>1, <4>2, <5>1, <5>2
      <4> QED
        BY <2>3, <4>1, <4>2
    <3> QED
      BY <1>1, <2>2, <2>3, <3>1, <3>2, <3>3 DEF WordStarts
  <2>5. ASSUME NEW k \in after PROVE e <= k
    <3>1. SUFFICES ASSUME k \in WordStarts(t), k > i, k < e PROVE FALSE
      BY <1>1, <2>3, <2>5
    <3>2. k \in Nat /\ t[k + 1] # "space" /\ t[k] # t[k + 1]
      BY <1>1, <3>1 DEF WordStarts
    <3>3. CASE k >= p
      BY <2>2, <2>3, <3>1, <3>2, <3>3
    <3>4. CASE k < p
      <4>1. k \in i .. p - 1 /\ k - 1 \in i .. p - 1 /\ k - 1 + 1 = k
        BY <1>1, <2>3, <3>1, <3>2, <3>4
      <4>2. t[k + 1] = t[i + 1] /\ t[k] = t[i + 1]
        BY <2>1, <4>1
      <4> QED
        BY <3>2, <4>2
    <3> QED
      BY <2>3, <3>2, <3>3, <3>4
  <2>6. Min(after) = e
    BY <1>1, <2>4, <2>5, MinIs
  <2> QED
    BY <1>1, <1>3, <2>6 DEF next_word, VimNextWord, e, p
<1> QED
  BY <1>1, <1>2, <1>3

\* And `b` where vim's does.
LEMMA PrevWordIsVims ==
  ASSUME NEW S, NEW t \in Seq(S), NEW i \in 0 .. Len(t)
  PROVE  prev_word(t, i) = VimPrevWord(t, i)
<1> DEFINE n == Len(t)
           before == {k \in WordStarts(t) : k < i} \cup {0}
<1>1. n \in Nat /\ i \in Nat /\ i <= n /\ before \in SUBSET (0 .. n) /\ 0 \in before
  BY DEF WordStarts
<1>2. CASE i = 0
  <2>1. \A k \in before : k <= 0
    BY <1>1, <1>2
  <2>2. Max(before) = 0
    BY <1>1, <2>1, MaxIs
  <2> QED
    BY <1>2, <2>2 DEF prev_word, VimPrevWord
<1>3. CASE i # 0
  <2> DEFINE K == {k \in 0 .. i - 1 : k = 0 \/ t[k + 1] # "space"}
             j == Max(K)
             L == {k \in 0 .. j : k = 0 \/ t[k] # t[j + 1]}
             m == Max(L)
  <2>0. prev_word(t, i) = IF t[j + 1] = "space" THEN 0 ELSE m
    BY <1>3 DEF prev_word
  <2>1. j \in K /\ \A k \in K : k <= j
    <3>1. K \in SUBSET (0 .. i - 1) /\ 0 \in K /\ i - 1 \in Nat
      BY <1>1, <1>3
    <3> HIDE DEF K
    <3> QED
      BY <3>1, MaxOf
  <2> HIDE DEF j
  <2>2. j \in Nat /\ j < i /\ \A k \in 0 .. i - 1 : k > j => t[k + 1] = "space"
    <3>1. j \in 0 .. i - 1
      BY <2>1
    <3>2. \A k \in 0 .. i - 1 : k > j => k \notin K /\ k # 0
      BY <2>1, <3>1
    <3> QED
      BY <1>1, <3>1, <3>2
  <2>3. CASE t[j + 1] = "space"
    <3>1. j = 0
      BY <2>1, <2>3
    <3>2. \A k \in 0 .. i - 1 : t[k + 1] = "space"
      BY <2>2, <2>3, <3>1
    <3>3. \A k \in before : k <= 0
      BY <1>1, <3>2 DEF WordStarts
    <3>4. Max(before) = 0
      BY <1>1, <3>3, MaxIs
    <3> QED
      BY <2>0, <2>3, <3>4 DEF VimPrevWord
  <2>4. CASE t[j + 1] # "space"
    <3>1. m \in L /\ \A k \in L : k <= m
      <4>1. L \in SUBSET (0 .. j) /\ 0 \in L
        BY <2>2
      <4> HIDE DEF L
      <4> QED
        BY <2>2, <4>1, MaxOf
    <3> HIDE DEF m
    <3>2. /\ m \in Nat /\ m <= j /\ (m = 0 \/ t[m] # t[j + 1])
          /\ \A k \in 0 .. j : k > m => t[k] = t[j + 1]
      <4>1. m \in 0 .. j /\ (m = 0 \/ t[m] # t[j + 1])
        BY <3>1
      <4>2. \A k \in 0 .. j : k > m => k \notin L
        BY <2>2, <3>1, <4>1
      <4> QED
        BY <2>2, <4>1, <4>2
    <3>3. \A k \in 0 .. j : k >= m => t[k + 1] = t[j + 1]
      <4> SUFFICES ASSUME NEW k \in 0 .. j, k >= m, k # j PROVE t[k + 1] = t[j + 1]
        OBVIOUS
      <4>1. k + 1 \in 0 .. j /\ k + 1 > m
        BY <2>2, <3>2
      <4> QED
        BY <3>2, <4>1
    <3>4. m \in before
      <4>1. t[m + 1] = t[j + 1]
        BY <2>2, <3>2, <3>3
      <4>2. m \in 0 .. n - 1 /\ m < i
        BY <1>1, <2>2, <3>2
      <4> QED
        BY <2>4, <3>2, <4>1, <4>2 DEF WordStarts
    <3>5. ASSUME NEW k \in before PROVE k <= m
      <4>1. SUFFICES ASSUME k \in WordStarts(t), k < i, k > m PROVE FALSE
        BY <1>1, <3>2, <3>5
      <4>2. k \in 0 .. i - 1 /\ t[k + 1] # "space" /\ (k = 0 \/ t[k] # t[k + 1])
        BY <1>1, <4>1 DEF WordStarts
      <4>3. k \in 0 .. j /\ k # 0
        BY <2>2, <3>2, <4>1, <4>2
      <4>4. t[k] = t[j + 1] /\ t[k + 1] = t[j + 1]
        BY <3>2, <3>3, <4>1, <4>3
      <4> QED
        BY <4>2, <4>3, <4>4
    <3>6. Max(before) = m
      BY <1>1, <3>4, <3>5, MaxIs
    <3> QED
      BY <2>0, <2>4, <3>6 DEF VimPrevWord
  <2> QED
    BY <2>3, <2>4
<1> QED
  BY <1>2, <1>3

-----------------------------------------------------------------------------
(***************************************************************************)
(* The line editor and the fields.                                         *)
(***************************************************************************)
Coherent(f) ==
  /\ f.manual # <<>> => f.when = "Manual"
  /\ f.when = "Manual" /\ f.manual = <<>> => f.focus = "when" /\ f.nav = "Insert"
  /\ f.op # None => f.nav = "Normal" /\ IsText(f)
  /\ f.when = "Keep" => f.editing # 0
  /\ f.editing = 0 <=> f.carried = None
  /\ f.kept # 0 => f.editing # 0

CursorOn(f) ==
  IsText(f) => f.cursor <= IF f.nav = "Insert" THEN text_len(f) ELSE Pred(text_len(f))

FormOK(f) == FormTyped(f) /\ Coherent(f) /\ CursorOn(f)

\* What a key of the editor leaves alone, having been pressed on a field.
Edits(f, g, field) ==
  /\ g.panes = f.panes /\ g.pane_idx = f.pane_idx /\ g.picker = f.picker
  /\ g.detected = f.detected /\ g.captured = f.captured
  /\ g.flags = f.flags /\ g.kept = f.kept
  /\ g.editing = f.editing /\ g.carried = f.carried
  /\ field # "message" => g.message = f.message
  /\ field # "when" /\ f.when = "Keep" => g.when = "Keep"

LEMMA TextTyped ==
  ASSUME NEW f, FormTyped(f)
  PROVE  /\ TextOf(f) \in Seq(char_class) /\ text_len(f) \in Nat
         /\ Pred(text_len(f)) \in Nat /\ Pred(text_len(f)) <= text_len(f)
<1>1. TextOf(f) \in Seq(char_class)
  BY DEF TextOf, FormTyped
<1> QED
  BY <1>1 DEF text_len, Pred

LEMMA SyncOK ==
  ASSUME NEW f, FormTyped(f)
  PROVE  LET g == sync_when_editing(f)
         IN /\ FormTyped(g) /\ Edits(f, g, "none")
            /\ g.manual = f.manual /\ g.focus = f.focus /\ g.nav = f.nav
            /\ g.cursor = f.cursor /\ g.op = f.op
            /\ g.when = IF f.focus # "when" \/ f.when = "Keep" THEN f.when
                        ELSE IF f.nav = "Insert" \/ f.manual # <<>> THEN "Manual" ELSE "Auto"
BY DEF sync_when_editing, FormTyped, Edits

LEMMA ToggleOK ==
  ASSUME NEW f, FormOK(f), f.focus \in Flags
  PROVE  FormOK(toggle_flag(f))
BY DEF toggle_flag, FormTyped, FormOK, Coherent, CursorOn, IsText, IsManual, text_len, TextOf, Flags

FieldOf(f) == IF f.focus = "message" THEN "message" ELSE "when"

\* Any replacement of the focused text, with the cursor on it.
LEMMA EditFocusedOK ==
  ASSUME NEW f, FormTyped(f), Coherent(f), f.op = None, IsText(f),
         NEW t \in Seq(char_class), NEW c \in 0 .. Len(t)
  PROVE  LET g == edit_focused(f, t, c)
         IN /\ FormTyped(g) /\ Coherent(g) /\ Edits(f, g, FieldOf(f))
            /\ g.nav = f.nav /\ g.op = None
            /\ IsText(g) => text_len(g) = Len(t) /\ g.cursor = c
<1>1. c \in Nat
  OBVIOUS
<1>2. CASE IsManual(f)
  <2> DEFINE e == [f EXCEPT !.manual = t, !.cursor = c]
  <2>1. FormTyped(e)
    BY <1>1 DEF FormTyped
  <2>2. edit_focused(f, t, c) = sync_when_editing(e)
    BY <1>2 DEF edit_focused
  <2>3. /\ e.focus = "when" /\ e.when = "Manual" /\ e.nav = f.nav /\ e.op = None
        /\ e.manual = t /\ e.cursor = c /\ Edits(f, e, "when")
    BY <1>2 DEF FormTyped, Edits, IsManual
  <2> DEFINE g == sync_when_editing(e)
  <2>4. /\ FormTyped(g) /\ Edits(e, g, "none")
        /\ g.focus = "when" /\ g.nav = f.nav /\ g.op = None /\ g.manual = t /\ g.cursor = c
        /\ g.when = IF f.nav = "Insert" \/ t # <<>> THEN "Manual" ELSE "Auto"
    <3> HIDE DEF e
    <3> QED
      BY <2>1, <2>3, SyncOK
  <2> HIDE DEF e, g
  <2>5. Edits(f, g, "when") /\ FieldOf(f) = "when"
    BY <1>2, <2>3, <2>4 DEF Edits, FieldOf, IsManual
  <2>6. Coherent(g)
    BY <2>4, <2>5 DEF Coherent, Edits
  <2>7. IsText(g) => text_len(g) = Len(t)
    BY <2>4 DEF IsText, IsManual, TextOf, text_len
  <2> QED
    BY <2>2, <2>4, <2>5, <2>6, <2>7 DEF g
<1>3. CASE ~IsManual(f)
  BY <1>1, <1>3
  DEF FormTyped, Coherent, Edits, FieldOf, IsManual, IsText, TextOf, text_len, edit_focused
<1> QED
  BY <1>2, <1>3

\* What leaves the cursor past the end in Normal is put right by the clamp.
LEMMA ClampOK ==
  ASSUME NEW f, FormTyped(f), Coherent(f), f.nav = "Normal"
  PROVE  LET g == clamp_cursor_normal(f)
         IN FormOK(g) /\ Edits(f, g, "none") /\ g.op = f.op
<1> DEFINE c == Least(f.cursor, Pred(text_len(f)))
           g == [f EXCEPT !.cursor = c]
<1>1. c \in Nat /\ c <= Pred(text_len(f))
  BY TextTyped DEF Least, FormTyped
<1> HIDE DEF c
<1>2. FormTyped(g) /\ Edits(f, g, "none") /\ g.op = f.op
  BY <1>1 DEF FormTyped, Edits
<1>3. Coherent(g) /\ text_len(g) = text_len(f) /\ g.nav = "Normal" /\ g.cursor = c
  BY DEF FormTyped, Coherent, IsText, IsManual, TextOf, text_len
<1>4. clamp_cursor_normal(f) = g
  BY DEF clamp_cursor_normal, c
<1> HIDE DEF g
<1> QED
  BY <1>1, <1>2, <1>3, <1>4 DEF FormOK, CursorOn

LEMMA InsertOK ==
  ASSUME NEW f, FormOK(f), f.nav = "Insert", IsText(f), NEW ch \in char_class
  PROVE  FormOK(insert_char(f, ch)) /\ Edits(f, insert_char(f, ch), FieldOf(f))
<1>1. f.op = None /\ f.cursor \in 0 .. text_len(f)
  BY TextTyped DEF FormOK, FormTyped, Coherent, CursorOn
<1>2. Least(f.cursor, text_len(f)) = f.cursor
  BY <1>1, TextTyped DEF Least, FormOK
<1> DEFINE t == Inserted(TextOf(f), f.cursor, ch)
<1>3. t \in Seq(char_class) /\ Len(t) = text_len(f) + 1
  BY <1>1, TextTyped, InsertedIn DEF FormOK, text_len
<1>4. f.cursor + 1 \in 0 .. Len(t)
  BY <1>1, <1>3, TextTyped DEF FormOK
<1>5. insert_char(f, ch) = edit_focused(f, t, f.cursor + 1)
  BY <1>2 DEF insert_char
<1> HIDE DEF t
<1> QED
  BY <1>1, <1>3, <1>4, <1>5, EditFocusedOK DEF FormOK, CursorOn

LEMMA BackspaceOK ==
  ASSUME NEW f, FormOK(f), f.nav = "Insert", IsText(f)
  PROVE  FormOK(backspace(f)) /\ Edits(f, backspace(f), FieldOf(f))
<1>1. f.op = None /\ f.cursor \in 0 .. text_len(f)
  BY TextTyped DEF FormOK, FormTyped, Coherent, CursorOn
<1>2. TextOf(f) \in Seq(char_class) /\ text_len(f) \in Nat
  BY TextTyped DEF FormOK
<1>3. CASE f.cursor = 0
  <2>1. backspace(f) = edit_focused(f, TextOf(f), 0) /\ 0 \in 0 .. Len(TextOf(f))
    BY <1>2, <1>3 DEF backspace
  <2> QED
    BY <1>1, <1>2, <2>1, EditFocusedOK DEF FormOK, CursorOn
<1>4. CASE f.cursor # 0
  <2> DEFINE t == Cut(TextOf(f), f.cursor - 1, f.cursor)
  <2>1. t \in Seq(char_class) /\ Len(t) = text_len(f) - 1
    BY <1>1, <1>2, <1>4, CutIn DEF text_len
  <2>2. f.cursor - 1 \in 0 .. Len(t)
    BY <1>1, <1>2, <1>4, <2>1
  <2>3. backspace(f) = edit_focused(f, t, f.cursor - 1)
    BY <1>4 DEF backspace
  <2> HIDE DEF t
  <2> QED
    BY <1>1, <2>1, <2>2, <2>3, EditFocusedOK DEF FormOK, CursorOn
<1> QED
  BY <1>3, <1>4

\* Deleting any range: in Insert the form is right, in Normal up to the clamp.
LEMMA DeleteOK ==
  ASSUME NEW f, FormTyped(f), Coherent(f), f.op = None, IsText(f), NEW a \in Nat, NEW b \in Nat
  PROVE  LET g == delete_char_range(f, a, b)
         IN /\ FormTyped(g) /\ Coherent(g) /\ Edits(f, g, FieldOf(f))
            /\ g.nav = f.nav /\ g.op = None
            /\ f.nav = "Insert" => FormOK(g)
<1>1. TextOf(f) \in Seq(char_class) /\ text_len(f) \in Nat
  BY TextTyped
<1> DEFINE l == Least(a, text_len(f))
           r == Least(b, text_len(f))
           t == Cut(TextOf(f), l, r)
<1>2. l \in 0 .. text_len(f) /\ r \in 0 .. text_len(f)
  BY <1>1 DEF Least
<1>3. t \in Seq(char_class) /\ l \in 0 .. Len(t)
  <2>1. t \in Seq(char_class) /\ Len(t) = text_len(f) - (IF l < r THEN r - l ELSE 0)
    BY <1>1, <1>2, CutIn DEF text_len
  <2> QED
    BY <1>1, <1>2, <2>1
<1>4. delete_char_range(f, a, b) = edit_focused(f, t, l)
  BY DEF delete_char_range
<1> HIDE DEF t, l, r
<1>5. /\ FormTyped(edit_focused(f, t, l)) /\ Coherent(edit_focused(f, t, l))
      /\ Edits(f, edit_focused(f, t, l), FieldOf(f))
      /\ edit_focused(f, t, l).nav = f.nav /\ edit_focused(f, t, l).op = None
      /\ IsText(edit_focused(f, t, l)) =>
           text_len(edit_focused(f, t, l)) = Len(t) /\ edit_focused(f, t, l).cursor = l
  BY <1>3, EditFocusedOK
<1> QED
  BY <1>3, <1>4, <1>5 DEF FormOK, CursorOn

\* Changing the mode alone.
LEMMA ToMode ==
  ASSUME NEW f, FormOK(f), f.op = None, NEW mode \in {"Insert", "Normal"}
  PROVE  LET g == sync_when_editing([f EXCEPT !.nav = mode])
         IN /\ FormTyped(g) /\ Coherent(g) /\ Edits(f, g, "none")
            /\ g.nav = mode /\ g.op = None /\ g.cursor = f.cursor
<1> DEFINE e == [f EXCEPT !.nav = mode]
           g == sync_when_editing(e)
<1>1. /\ FormTyped(e) /\ Edits(f, e, "none") /\ e.nav = mode /\ e.op = None
      /\ e.when = f.when /\ e.focus = f.focus /\ e.manual = f.manual /\ e.cursor = f.cursor
  BY DEF FormOK, FormTyped, Edits
<1> HIDE DEF e
<1>2. /\ FormTyped(g) /\ Edits(e, g, "none") /\ g.nav = mode /\ g.op = None
      /\ g.focus = f.focus /\ g.manual = f.manual /\ g.cursor = f.cursor
      /\ g.when = IF f.focus # "when" \/ f.when = "Keep" THEN f.when
                  ELSE IF mode = "Insert" \/ f.manual # <<>> THEN "Manual" ELSE "Auto"
  BY <1>1, SyncOK
<1> HIDE DEF g
<1>3. Edits(f, g, "none")
  BY <1>1, <1>2 DEF Edits
<1>4. Coherent(g)
  BY <1>2, <1>3 DEF FormOK, FormTyped, Coherent, Edits
<1> QED
  BY <1>2, <1>3, <1>4 DEF e, g

LEMMA EnterInsertOK ==
  ASSUME NEW f, FormOK(f), f.op = None, NEW at \in {"Here", "After", "End", "Start"}
  PROVE  FormOK(enter_insert(f, at)) /\ Edits(f, enter_insert(f, at), "none")
<1> DEFINE g == sync_when_editing([f EXCEPT !.nav = "Insert"])
           len == text_len(g)
           c == CASE at = "Here"  -> Least(g.cursor, len)
                  [] at = "After" -> Least(g.cursor + 1, len)
                  [] at = "End"   -> len
                  [] at = "Start" -> 0
           h == [g EXCEPT !.cursor = c]
<1>1. FormTyped(g) /\ Coherent(g) /\ Edits(f, g, "none") /\ g.nav = "Insert" /\ g.op = None
  BY ToMode
<1>2. enter_insert(f, at) = IF ~IsText(g) THEN g ELSE h
  BY DEF enter_insert
<1> HIDE DEF g
<1>3. CASE ~IsText(g)
  BY <1>1, <1>2, <1>3 DEF FormOK, CursorOn
<1>4. CASE IsText(g)
  <2>1. len \in Nat /\ g.cursor \in Nat
    BY <1>1, TextTyped DEF FormTyped
  <2>2. c \in Nat /\ c <= len
    <3> HIDE DEF len
    <3> QED
      BY <2>1 DEF Least
  <2> HIDE DEF c
  <2>3. FormTyped(h) /\ Coherent(h) /\ Edits(g, h, "none")
    BY <1>1, <2>2 DEF FormTyped, Coherent, Edits, IsText, IsManual
  <2>4. text_len(h) = len /\ h.nav = "Insert" /\ h.cursor = c
    BY <1>1 DEF FormTyped, text_len, TextOf, IsText, IsManual
  <2> HIDE DEF h
  <2>5. Edits(f, h, "none")
    BY <1>1, <2>3 DEF Edits
  <2> QED
    BY <1>2, <1>4, <2>2, <2>3, <2>4, <2>5 DEF FormOK, CursorOn
<1> QED
  BY <1>3, <1>4

LEMMA EscOK ==
  ASSUME NEW f, FormOK(f), f.op = None
  PROVE  FormOK(EscInsert(f)) /\ Edits(f, EscInsert(f), "none")
<1> DEFINE g == sync_when_editing([f EXCEPT !.nav = "Normal"])
<1>1. FormTyped(g) /\ Coherent(g) /\ Edits(f, g, "none") /\ g.nav = "Normal" /\ g.op = None
  BY ToMode
<1>2. EscInsert(f) = clamp_cursor_normal(g)
  BY DEF EscInsert
<1> HIDE DEF g
<1>3. FormOK(clamp_cursor_normal(g)) /\ Edits(g, clamp_cursor_normal(g), "none")
  BY <1>1, ClampOK
<1> QED
  BY <1>1, <1>2, <1>3 DEF Edits

\* The cursor alone, put where it may be.
LEMMA CursorOK ==
  ASSUME NEW f, FormOK(f), NEW c \in Nat,
         c <= IF f.nav = "Insert" THEN text_len(f) ELSE Pred(text_len(f))
  PROVE  LET g == [f EXCEPT !.cursor = c] IN FormOK(g) /\ Edits(f, g, "none")
<1> DEFINE g == [f EXCEPT !.cursor = c]
<1>1. FormTyped(g) /\ Coherent(g) /\ Edits(f, g, "none")
  BY DEF FormOK, FormTyped, Coherent, Edits, IsText, IsManual
<1>2. text_len(g) = text_len(f) /\ g.nav = f.nav /\ g.cursor = c
  BY DEF FormOK, FormTyped, text_len, TextOf, IsText, IsManual
<1> QED
  BY <1>1, <1>2 DEF FormOK, CursorOn

\* Where the cursor is, as the motions read it.
LEMMA Standing ==
  ASSUME NEW f, FormTyped(f)
  PROVE  /\ TextOf(f) \in Seq(char_class) /\ Len(TextOf(f)) = text_len(f)
         /\ text_len(f) \in Nat /\ f.cursor \in Nat
         /\ Least(f.cursor, text_len(f)) \in 0 .. text_len(f)
BY TextTyped DEF FormTyped, Least, text_len

LEMMA MotionOK ==
  ASSUME NEW f, FormOK(f), f.nav = "Normal", IsText(f), NEW m \in Motions
  PROVE  LET g == [f EXCEPT !.cursor = MotionTo(f, m)] IN FormOK(g) /\ Edits(f, g, "none")
<1> DEFINE t == TextOf(f)
           n == Len(t)
           cur == Least(f.cursor, n)
<1>1. t \in Seq(char_class) /\ n = text_len(f) /\ n \in Nat /\ f.cursor \in Nat /\ cur \in 0 .. n
  BY Standing DEF FormOK
<1>2. f.cursor <= Pred(n)
  BY <1>1 DEF FormOK, CursorOn
<1>3. next_word(t, cur) \in 0 .. n /\ prev_word(t, cur) \in 0 .. Pred(cur)
  BY <1>1, NextWordIn, PrevWordIn
<1>4. cursor_left(f).cursor = Pred(f.cursor)
      /\ cursor_right_normal(f).cursor = Least(f.cursor + 1, Pred(n))
  BY DEF cursor_left, cursor_right_normal, text_len, FormOK, FormTyped
<1>5. MotionTo(f, m) =
        CASE m = "h" -> Pred(f.cursor)
          [] m = "l" -> Least(f.cursor + 1, Pred(n))
          [] m = "0" -> 0
          [] m = "$" -> Pred(n)
          [] m = "w" -> Least(next_word(t, cur), Pred(n))
          [] m = "b" -> prev_word(t, cur)
  BY <1>4 DEF MotionTo, Motions
<1>6. MotionTo(f, m) \in Nat /\ MotionTo(f, m) <= Pred(n)
  <2> HIDE DEF t, n, cur
  <2>1. cur = f.cursor
    BY <1>1, <1>2 DEF cur, Least, Pred
  <2> QED
    BY <1>1, <1>2, <1>3, <1>5, <2>1 DEF Motions, Least, Pred
<1> QED
  BY <1>1, <1>6, CursorOK

LEMMA ArrowOK ==
  ASSUME NEW f, FormOK(f), f.nav = "Insert", IsText(f), NEW d \in {-1, 1}
  PROVE  LET g == IF d = 1 THEN cursor_right_insert(f) ELSE cursor_left(f)
         IN FormOK(g) /\ Edits(f, g, "none")
<1>1. text_len(f) \in Nat /\ f.cursor \in Nat /\ f.cursor <= text_len(f)
  BY Standing DEF FormOK, CursorOn
<1>2. /\ Least(f.cursor + 1, text_len(f)) \in Nat /\ Least(f.cursor + 1, text_len(f)) <= text_len(f)
      /\ Pred(f.cursor) \in Nat /\ Pred(f.cursor) <= text_len(f)
  BY <1>1 DEF Least, Pred
<1> QED
  BY <1>2, CursorOK DEF cursor_right_insert, cursor_left

LEMMA DeleteKeyOK ==
  ASSUME NEW f, FormOK(f), f.nav = "Normal", f.op = None, IsText(f), NEW k \in {"x", "D", "C"}
  PROVE  FormOK(DeleteKey(f, k)) /\ Edits(f, DeleteKey(f, k), FieldOf(f))
<1> DEFINE n == text_len(f)
           cur == Least(f.cursor, n)
<1>1. n \in Nat /\ cur \in Nat /\ cur + 1 \in Nat
  BY Standing DEF FormOK
<1>2. CASE k = "C"
  <2> DEFINE e == [f EXCEPT !.nav = "Insert"]
             g == delete_char_range(e, cur, n)
  <2>1. /\ FormTyped(e) /\ Coherent(e) /\ Edits(f, e, "none") /\ FieldOf(e) = FieldOf(f)
        /\ IsText(e) /\ e.nav = "Insert" /\ e.op = None
    BY DEF FormOK, FormTyped, Coherent, Edits, IsText, IsManual, FieldOf
  <2>2. DeleteKey(f, k) = g
    BY <1>2 DEF DeleteKey
  <2> HIDE DEF e, n, cur
  <2>3. FormOK(g) /\ Edits(e, g, FieldOf(e))
    BY <1>1, <2>1, DeleteOK
  <2> HIDE DEF g
  <2> QED
    BY <2>1, <2>2, <2>3 DEF Edits, FieldOf
<1>3. CASE k # "C"
  <2>1. PICK b \in Nat : DeleteKey(f, k) = clamp_cursor_normal(delete_char_range(f, cur, b))
    BY <1>1, <1>3 DEF DeleteKey
  <2> DEFINE g == delete_char_range(f, cur, b)
  <2> HIDE DEF n, cur
  <2>2. FormTyped(g) /\ Coherent(g) /\ Edits(f, g, FieldOf(f)) /\ g.nav = "Normal"
    BY <1>1, DeleteOK DEF FormOK
  <2> HIDE DEF g
  <2>3. FormOK(clamp_cursor_normal(g)) /\ Edits(g, clamp_cursor_normal(g), "none")
    BY <2>2, ClampOK
  <2> QED
    BY <2>1, <2>2, <2>3 DEF Edits, g
<1> QED
  BY <1>2, <1>3

\* An operator and its motion.
LEMMA OperatorOK ==
  ASSUME NEW f, FormOK(f), f.op # None, NEW m \in Motions \cup {"line"}
  PROVE  FormOK(apply_operator(f, m)) /\ Edits(f, apply_operator(f, m), FieldOf(f))
<1> DEFINE t == TextOf(f)
           n == Len(t)
           cur == Least(f.cursor, n)
           r == OpRange(f, m)
<1>1. IsText(f) /\ f.nav = "Normal"
  BY DEF FormOK, Coherent
<1>2. t \in Seq(char_class) /\ n = text_len(f) /\ n \in Nat /\ cur \in 0 .. n
  BY Standing DEF FormOK
<1>3. next_word(t, cur) \in Nat /\ prev_word(t, cur) \in Nat
  <2>1. next_word(t, cur) \in 0 .. n /\ prev_word(t, cur) \in 0 .. Pred(cur)
    BY <1>2, NextWordIn, PrevWordIn
  <2> QED
    BY <1>2, <2>1
<1>4. r[1] \in Nat /\ r[2] \in Nat
  <2>1. r = CASE m = "line" -> <<0, n>>
              [] m = "w" -> <<cur, next_word(t, cur)>>
              [] m = "b" -> <<prev_word(t, cur), cur>>
              [] m = "0" -> <<0, cur>>
              [] m = "$" -> <<cur, n>>
              [] m = "h" -> <<Pred(cur), cur>>
              [] m = "l" -> <<cur, Least(cur + 1, n)>>
    BY DEF OpRange
  <2>2. Pred(cur) \in Nat /\ Least(cur + 1, n) \in Nat
    BY <1>2 DEF Pred, Least
  <2> HIDE DEF t, n, cur, r
  <2> QED
    BY <1>2, <1>3, <2>1, <2>2 DEF Motions
<1> HIDE DEF t, n, cur, r
<1>5. CASE f.op = "c"
  <2> DEFINE e == [f EXCEPT !.op = None, !.nav = "Insert"]
             g == delete_char_range(e, r[1], r[2])
  <2>1. /\ FormTyped(e) /\ Coherent(e) /\ Edits(f, e, "none") /\ FieldOf(e) = FieldOf(f)
        /\ IsText(e) /\ e.nav = "Insert" /\ e.op = None
    BY <1>1 DEF FormOK, FormTyped, Coherent, Edits, IsText, IsManual, FieldOf, Option
  <2>2. apply_operator(f, m) = g
    BY <1>5 DEF apply_operator, r
  <2> HIDE DEF e
  <2>3. FormOK(g) /\ Edits(e, g, FieldOf(e))
    BY <1>4, <2>1, DeleteOK
  <2> HIDE DEF g
  <2> QED
    BY <2>1, <2>2, <2>3 DEF Edits, FieldOf
<1>6. CASE f.op # "c"
  <2> DEFINE e == [f EXCEPT !.op = None]
             g == delete_char_range(e, r[1], r[2])
  <2>1. /\ FormTyped(e) /\ Coherent(e) /\ Edits(f, e, "none") /\ FieldOf(e) = FieldOf(f)
        /\ IsText(e) /\ e.nav = "Normal" /\ e.op = None
    BY <1>1 DEF FormOK, FormTyped, Coherent, Edits, IsText, IsManual, FieldOf, Option
  <2>2. apply_operator(f, m) = clamp_cursor_normal(g)
    BY <1>6 DEF apply_operator, r
  <2> HIDE DEF e
  <2>3. FormTyped(g) /\ Coherent(g) /\ Edits(e, g, FieldOf(e)) /\ g.nav = "Normal"
    BY <1>4, <2>1, DeleteOK
  <2> HIDE DEF g
  <2>4. FormOK(clamp_cursor_normal(g)) /\ Edits(g, clamp_cursor_normal(g), "none")
    BY <2>3, ClampOK
  <2> QED
    BY <2>1, <2>2, <2>3, <2>4 DEF Edits, FieldOf
<1> QED
  BY <1>5, <1>6

\* Typing, on a text or on the When field.
LEMMA TypeCharOK ==
  ASSUME NEW f, FormOK(f), f.nav = "Insert", IsText(f) \/ f.focus = "when", NEW ch \in char_class
  PROVE  FormOK(TypeChar(f, ch)) /\ Edits(f, TypeChar(f, ch), FieldOf(f))
<1>1. CASE f.focus = "when" /\ f.when # "Manual"
  <2> DEFINE e == [f EXCEPT !.when = "Manual", !.cursor = 0]
  <2>1. FormTyped(e) /\ Coherent(e) /\ Edits(f, e, "when")
    BY <1>1 DEF FormOK, FormTyped, Coherent, Edits
  <2>2. e.nav = "Insert" /\ IsText(e) /\ FieldOf(e) = "when" /\ FieldOf(f) = "when" /\ e.cursor = 0
    BY <1>1 DEF FormOK, FormTyped, IsText, IsManual, FieldOf
  <2>3. TypeChar(f, ch) = insert_char(e, ch)
    BY <1>1 DEF TypeChar
  <2> HIDE DEF e
  <2>4. FormOK(e)
    BY <2>1, <2>2, TextTyped DEF FormOK, CursorOn
  <2>5. FormOK(insert_char(e, ch)) /\ Edits(e, insert_char(e, ch), "when")
    BY <2>2, <2>4, InsertOK
  <2> QED
    BY <2>1, <2>2, <2>3, <2>5 DEF Edits
<1>2. CASE ~(f.focus = "when" /\ f.when # "Manual")
  <2>1. TypeChar(f, ch) = insert_char(f, ch) /\ IsText(f)
    BY <1>2 DEF TypeChar, IsText, IsManual
  <2> QED
    BY <2>1, InsertOK
<1> QED
  BY <1>1, <1>2

LEMMA MoveFocusOK ==
  ASSUME NEW f, FormOK(f), NEW d \in {-1, 1}
  PROVE  FormOK(move_focus(f, d)) /\ Edits(f, move_focus(f, d), "none")
<1> DEFINE i == CHOOSE k \in DOMAIN FORM_ORDER : FORM_ORDER[k] = f.focus
           to == FORM_ORDER[wrap_index(i, d, 7)]
           left == IF IsManual(f) /\ f.manual = <<>> THEN [f EXCEPT !.when = "Auto"] ELSE f
           on == [left EXCEPT !.focus = to]
           land == sync_when_editing(on)
           put == [land EXCEPT !.cursor = text_len(land), !.op = None]
<1>1. to \in {FORM_ORDER[k] : k \in DOMAIN FORM_ORDER}
  <2>1. DOMAIN FORM_ORDER = 1 .. 7
    BY DEF FORM_ORDER
  <2>2. \E k \in DOMAIN FORM_ORDER : FORM_ORDER[k] = f.focus
    BY DEF FormOK, FormTyped
  <2>3. i \in 1 .. 7
    BY <2>1, <2>2
  <2> HIDE DEF i
  <2>4. wrap_index(i, d, 7) \in 1 .. 7
    BY <2>3 DEF wrap_index
  <2> QED
    BY <2>1, <2>4
<1> HIDE DEF to
<1>2. /\ FormTyped(on) /\ Edits(f, on, "none") /\ on.focus = to /\ on.nav = f.nav
      /\ on.manual = f.manual /\ (on.when = "Manual" => on.manual # <<>>)
      /\ (on.manual # <<>> => on.when = "Manual") /\ (on.when = "Keep" => on.editing # 0)
      /\ (on.editing = 0 <=> on.carried = None)
  BY <1>1 DEF FormOK, FormTyped, Coherent, Edits, IsManual
<1> HIDE DEF on
<1>3. /\ FormTyped(land) /\ Edits(on, land, "none") /\ land.focus = to /\ land.nav = f.nav
      /\ land.manual = on.manual
      /\ land.when = IF to # "when" \/ on.when = "Keep" THEN on.when
                     ELSE IF f.nav = "Insert" \/ on.manual # <<>> THEN "Manual" ELSE "Auto"
  BY <1>2, SyncOK
<1> HIDE DEF land
<1>4. text_len(land) \in Nat
  BY <1>3, TextTyped
<1>5. /\ FormTyped(put) /\ Edits(land, put, "none") /\ put.focus = to /\ put.nav = f.nav
      /\ put.manual = land.manual /\ put.when = land.when /\ put.op = None
      /\ put.cursor = text_len(land) /\ text_len(put) = text_len(land)
  BY <1>3, <1>4 DEF FormTyped, Edits, text_len, TextOf, IsText, IsManual, Option
<1> HIDE DEF put
<1>6. Edits(f, put, "none")
  BY <1>2, <1>3, <1>5 DEF Edits
<1>7. Coherent(put)
  <2>1. /\ put.editing = on.editing /\ put.carried = on.carried
        /\ put.kept = f.kept /\ on.editing = f.editing
    BY <1>2, <1>3, <1>5 DEF Edits
  <2>2. f.nav \in {"Insert", "Normal"} /\ on.when \in {"Keep", "Auto", "Manual"}
    BY <1>2 DEF FormOK, FormTyped
  <2>3. f.kept # 0 => f.editing # 0
    BY DEF FormOK, Coherent
  <2> QED
    BY <1>2, <1>3, <1>5, <2>1, <2>2, <2>3 DEF Coherent
<1>8. move_focus(f, d) = IF f.nav = "Normal" THEN clamp_cursor_normal(put) ELSE put
  BY DEF move_focus, put, land, on, to
<1>9. CASE f.nav = "Normal"
  <2>1. FormOK(clamp_cursor_normal(put)) /\ Edits(put, clamp_cursor_normal(put), "none")
    BY <1>5, <1>7, <1>9, ClampOK
  <2> QED
    BY <1>6, <1>8, <1>9, <2>1 DEF Edits
<1>10. CASE f.nav # "Normal"
  <2>1. f.nav = "Insert"
    BY <1>10 DEF FormOK, FormTyped
  <2>2. FormOK(put)
    BY <1>4, <1>5, <1>7, <2>1 DEF FormOK, CursorOn
  <2> QED
    BY <1>6, <1>8, <1>10, <2>2
<1> QED
  BY <1>9, <1>10

LEMMA CycleWhenOK ==
  ASSUME NEW f, FormOK(f), f.focus = "when", ~IsText(f)
  PROVE  LET g == [f EXCEPT !.when = cycle_when(f)]
         IN /\ FormOK(g) /\ Edits(f, g, "when")
            /\ active_pane(g) = active_pane(f)
<1> DEFINE g == [f EXCEPT !.when = cycle_when(f)]
<1>1. f.when # "Manual" /\ f.manual = <<>> /\ f.op = None
  BY DEF FormOK, Coherent, IsText, IsManual
<1>2. cycle_when(f) \in {"Keep", "Auto"} /\ (cycle_when(f) = "Keep" => f.editing # 0)
  BY DEF cycle_when
<1>3. /\ FormTyped(g) /\ Edits(f, g, "when") /\ g.when = cycle_when(f) /\ g.focus = "when"
      /\ g.manual = <<>> /\ g.op = None
  BY <1>1, <1>2 DEF FormOK, FormTyped, Edits
<1> HIDE DEF g
<1>4. Coherent(g) /\ ~IsText(g)
  BY <1>2, <1>3 DEF FormOK, Coherent, Edits, IsText, IsManual
<1>5. active_pane(g) = active_pane(f)
  BY <1>3 DEF active_pane, Edits
<1> QED
  BY <1>3, <1>4, <1>5 DEF FormOK, CursorOn, g

\* The panes, the picker and what the preview is for are beside the texts.
Beside(f, g) ==
  /\ g.when = f.when /\ g.manual = f.manual /\ g.message = f.message /\ g.kept = f.kept
  /\ g.flags = f.flags /\ g.focus = f.focus /\ g.editing = f.editing /\ g.nav = f.nav
  /\ g.cursor = f.cursor /\ g.carried = f.carried

LEMMA BesideOK ==
  ASSUME NEW f, FormOK(f), NEW g, FormTyped(g), Beside(f, g), g.op \in {None, f.op}
  PROVE  FormOK(g)
BY DEF FormOK, Coherent, CursorOn, Beside, IsText, IsManual, text_len, TextOf

-----------------------------------------------------------------------------
(***************************************************************************)
(* Editing a job: what the form holds of it.                               *)
(***************************************************************************)
CarriedOf(j) == [fire_at |-> j.fire_at, messages |-> j.messages, delays |-> j.delays,
                 retries_left |-> j.retries_left, target |-> j.target]

\* A job, as far as a form is concerned.
Editable(j) ==
  /\ j.target \in Target /\ j.messages \in Texts /\ j.delays \in Delays /\ j.fire_at \in Nat
  /\ j.flags \in SUBSET Flags /\ j.retries_left \in Int /\ j.id \in Nat \ {0}

\* Of the job it edits the form shows or carries all but the fields in T.
Faithful(f, j, T) ==
  f.editing # 0 =>
    /\ f.editing = j.id /\ f.carried = CarriedOf(j)
    /\ "when" \notin T => f.when = "Keep"
    /\ f.kept # 0 => Len(j.messages) > 1
    /\ "message" \notin T /\ f.kept = 0 => j.messages = <<f.message>>
    /\ \A flag \in Flags \ T : flag \in f.flags <=> flag \in j.flags

\* What a saved edit of j may have changed of it.
KeepsRest(s, j, T) ==
  /\ "when" \notin T => s.fire_at = j.fire_at
  /\ "message" \notin T =>
       \/ s.messages = j.messages
       \/ Len(j.messages) = 1 /\ IsBlank(j.messages[1]) /\ s.messages = <<DefaultText>>
  /\ \A flag \in Flags \ T : flag \in s.flags <=> flag \in j.flags
  /\ s.delays = j.delays
  /\ s.target.pane = j.target.pane => s.target = j.target
  /\ "auto_retry" \in s.flags /\ j.retries_left # 0 => s.retries_left = j.retries_left

LEMMA CarriedTyped ==
  ASSUME NEW j, Editable(j)
  PROVE  CarriedOf(j) \in CarriedEdit /\ CarriedOf(j) # None
<1>1. CarriedOf(j) \in CarriedEdit
  BY DEF CarriedOf, CarriedEdit, Editable
<1> QED
  BY <1>1, FormConstants

LEMMA FreshOK ==
  /\ FormOK(fresh) /\ fresh.panes = <<>> /\ fresh.detected = None /\ fresh.editing = 0
  /\ fresh.op = None /\ fresh.picker = closed /\ fresh.carried = None
<1>1. FormTyped(fresh)
  <2>1. DefaultText \in Seq(char_class)
    BY FormConstants
  <2>2. "submit" \in {FORM_ORDER[i] : i \in DOMAIN FORM_ORDER}
    <3>1. DOMAIN FORM_ORDER = 1 .. 7 /\ FORM_ORDER[7] = "submit"
      BY DEF FORM_ORDER
    <3> QED
      BY <3>1
  <2> QED
    BY <2>1, <2>2 DEF FormTyped, fresh, closed, Option, Flags
<1> QED
  BY <1>1 DEF FormOK, Coherent, CursorOn, IsText, IsManual, fresh

LEMMA EnterEditOK ==
  ASSUME NEW f, FormTyped(f), NEW j, Editable(j)
  PROVE  LET g == enter_edit(f, j)
         IN /\ FormOK(g) /\ Faithful(g, j, {})
            /\ g.panes = f.panes /\ g.picker = closed /\ g.detected = None /\ g.op = None
<1> DEFINE idx == PaneOf(f.panes, j.target)
           msg == IF Len(j.messages) = 1 THEN j.messages[1] ELSE DefaultText
           kept == IF Len(j.messages) > 1 THEN Len(j.messages) ELSE 0
           g == enter_edit(f, j)
<1>1. CarriedOf(j) \in CarriedEdit /\ CarriedOf(j) # None
  BY CarriedTyped
<1>2. j.messages \in Seq(Seq(char_class)) /\ j.messages # <<>> /\ Len(j.messages) \in Nat
      /\ Len(j.messages) # 0
  BY DEF Editable, Texts
<1>3. msg \in Seq(char_class) /\ kept \in Nat
  BY <1>2, FormConstants
<1>4. (kept # 0 => Len(j.messages) > 1) /\ (kept = 0 => j.messages = <<msg>>)
  <2>1. CASE Len(j.messages) = 1
    <3>1. j.messages = <<j.messages[1]>>
      BY <1>2, <2>1
    <3> QED
      BY <2>1, <3>1
  <2>2. CASE Len(j.messages) # 1
    <3>1. Len(j.messages) > 1
      <4> DEFINE n == Len(j.messages)
      <4>1. n \in Nat /\ n # 0 /\ n # 1
        BY <1>2, <2>2
      <4> HIDE DEF n
      <4>2. n > 1
        BY <4>1
      <4> QED
        BY <4>2 DEF n
    <3>2. kept = Len(j.messages)
      BY <3>1
    <3> HIDE DEF kept, msg
    <3> QED
      BY <1>2, <3>1, <3>2
  <2> QED
    BY <2>1, <2>2
<1> HIDE DEF idx, msg, kept
<1>5. g = [fresh EXCEPT !.panes = f.panes, !.pane_idx = idx, !.when = "Keep", !.message = msg,
             !.kept = kept, !.flags = j.flags, !.focus = "pane", !.editing = j.id,
             !.carried = CarriedOf(j)]
  BY DEF enter_edit, CarriedOf, idx, msg, kept
<1>6. /\ g.panes = f.panes /\ g.when = "Keep" /\ g.manual = <<>> /\ g.detected = None
      /\ g.message = msg /\ g.kept = kept /\ g.flags = j.flags /\ g.focus = "pane"
      /\ g.editing = j.id /\ g.op = None /\ g.carried = CarriedOf(j) /\ g.picker = closed
  BY <1>5 DEF fresh
<1>7. FormTyped(g)
  <2>1. "pane" \in {FORM_ORDER[i] : i \in DOMAIN FORM_ORDER}
    <3>1. DOMAIN FORM_ORDER = 1 .. 7 /\ FORM_ORDER[1] = "pane"
      BY DEF FORM_ORDER
    <3> QED
      BY <3>1
  <2>2. f.panes \in Seq(Pane) /\ j.flags \in SUBSET Flags /\ j.id \in Nat
    BY DEF FormTyped, Editable
  <2>3. FormTyped(fresh)
    BY FreshOK DEF FormOK
  <2> HIDE DEF g
  <2> QED
    BY <1>1, <1>3, <1>5, <2>1, <2>2, <2>3 DEF FormTyped, Option
<1> HIDE DEF g
<1>8. FormOK(g)
  BY <1>1, <1>6, <1>7 DEF FormOK, Coherent, CursorOn, IsText, IsManual, Editable
<1>9. Faithful(g, j, {})
  BY <1>4, <1>6 DEF Faithful
<1> QED
  BY <1>6, <1>8, <1>9 DEF g

LEMMA BuildSpecTyped ==
  ASSUME NEW f, FormOK(f), selected_pane(f) # None, NEW server \in Option(Nat), NEW at \in Nat
  PROVE  /\ build_spec(f, server, at) \in JobSpec
         /\ \/ f.carried # None /\ build_spec(f, server, at).target = f.carried.target
            \/ build_spec(f, server, at).target = [pane |-> selected_pane(f).id, server |-> server]
<1> DEFINE s == build_spec(f, server, at)
<1>1. selected_pane(f) \in Pane
  BY DEF FormOK, FormTyped, selected_pane, At
<1>2. f.carried # None => f.carried \in CarriedEdit
  BY DEF FormOK, FormTyped, Option
<1>3. \/ f.carried # None /\ s.target = f.carried.target
      \/ s.target = [pane |-> selected_pane(f).id, server |-> server]
  BY DEF build_spec
<1>4. s.target \in Target
  BY <1>1, <1>2, <1>3 DEF Target, CarriedEdit, Pane
<1>5. s.messages \in Texts
  <2>1. f.kept # 0 => f.carried # None
    BY DEF FormOK, Coherent
  <2>2. <<DefaultText>> \in Texts /\ <<f.message>> \in Texts
    BY FormConstants DEF FormOK, FormTyped, Texts
  <2> QED
    BY <1>2, <2>1, <2>2 DEF build_spec, CarriedEdit
<1>6. s.delays \in Delays
  BY <1>2, FormConstants DEF build_spec, CarriedEdit
<1>7. s.retries_left \in Int
  BY <1>2, FormConstants DEF build_spec, retry_base, CarriedEdit
<1> QED
  BY <1>3, <1>4, <1>5, <1>6, <1>7 DEF build_spec, JobSpec, FormOK, FormTyped

\* A submit of a form that is faithful makes a spec that keeps the rest.
LEMMA BuildSpecKeeps ==
  ASSUME NEW f, FormOK(f), f.editing # 0, NEW j, Editable(j), NEW T, Faithful(f, j, T),
         NEW server, NEW at, "when" \notin T => at = j.fire_at
  PROVE  KeepsRest(build_spec(f, server, at), j, T)
<1> DEFINE s == build_spec(f, server, at)
<1>1. f.carried = CarriedOf(j) /\ f.carried # None
  BY DEF Faithful, FormOK, Coherent
<1>2. /\ f.carried.target = j.target /\ f.carried.messages = j.messages
      /\ f.carried.delays = j.delays /\ f.carried.retries_left = j.retries_left
  BY <1>1 DEF CarriedOf
<1>3. /\ s.fire_at = at /\ s.flags = f.flags /\ s.delays = j.delays
      /\ s.messages = IF f.kept # 0 THEN j.messages
                      ELSE IF IsBlank(f.message) THEN <<DefaultText>> ELSE <<f.message>>
      /\ s.retries_left = IF "auto_retry" \in f.flags THEN retry_base(f) ELSE 0
      /\ s.target = IF j.target.pane = selected_pane(f).id THEN j.target
                    ELSE [pane |-> selected_pane(f).id, server |-> server]
  BY <1>1, <1>2 DEF build_spec
<1>4. j.retries_left # 0 => retry_base(f) = j.retries_left
  BY <1>1, <1>2 DEF retry_base
<1> HIDE DEF s
<1>5. s.target.pane = j.target.pane => s.target = j.target
  BY <1>3
<1>6. "message" \notin T =>
        \/ s.messages = j.messages
        \/ Len(j.messages) = 1 /\ IsBlank(j.messages[1]) /\ s.messages = <<DefaultText>>
  <2>1. SUFFICES ASSUME "message" \notin T, f.kept = 0
                 PROVE \/ s.messages = j.messages
                       \/ /\ Len(j.messages) = 1 /\ IsBlank(j.messages[1])
                          /\ s.messages = <<DefaultText>>
    BY <1>3
  <2>2. j.messages = <<f.message>>
    BY <2>1 DEF Faithful
  <2>3. Len(j.messages) = 1 /\ j.messages[1] = f.message
    BY <2>2
  <2> QED
    BY <1>3, <2>1, <2>2, <2>3
<1> QED
  BY <1>3, <1>4, <1>5, <1>6 DEF KeepsRest, Faithful, s

\* What the editor, and what goes on beside it, leave of that.
LEMMA EditsFaithful ==
  ASSUME NEW f, NEW g, NEW field, Edits(f, g, field), NEW j, NEW T, Faithful(f, j, T),
         NEW T2, T \subseteq T2, field \in T2 \cup {"none"} \/ f.editing = 0
  PROVE  Faithful(g, j, T2)
BY DEF Edits, Faithful

LEMMA BesideFaithful ==
  ASSUME NEW f, NEW g, Beside(f, g), NEW j, NEW T, Faithful(f, j, T), NEW T2, T \subseteq T2
  PROVE  Faithful(g, j, T2)
BY DEF Beside, Faithful

\* The pane in view is that of the panes, the picker and the index.
LEMMA EditsView ==
  ASSUME NEW f, NEW g, NEW field, Edits(f, g, field)
  PROVE  active_pane(g) = active_pane(f) /\ selected_pane(g) = selected_pane(f)
BY DEF Edits, active_pane, selected_pane

\* A pane in view is one of those listed.
LEMMA InView ==
  ASSUME NEW f, FormTyped(f)
  PROVE  /\ active_pane(f) # None => \E i \in DOMAIN f.panes : active_pane(f) = f.panes[i]
         /\ selected_pane(f) # None => \E i \in DOMAIN f.panes : selected_pane(f) = f.panes[i]
         /\ \A i \in DOMAIN f.panes : f.panes[i] \in Pane /\ f.panes[i] # None
BY FormConstants DEF active_pane, selected_pane, At, FormTyped

-----------------------------------------------------------------------------
(***************************************************************************)
(* Functions built step by step.                                           *)
(***************************************************************************)
\* Induction, over a set of numbers.
LEMMA Climbs ==
  ASSUME NEW n \in Nat, NEW S, 0 \in S, \A k \in 0 .. n - 1 : k \in S => k + 1 \in S
  PROVE  0 .. n \subseteq S
<1> SUFFICES ASSUME NEW x \in 0 .. n, x \notin S PROVE FALSE
  OBVIOUS
<1> DEFINE B == {k \in 0 .. n : k \notin S}
           m == Min(B)
<1>1. B \in SUBSET Nat /\ B # {}
  OBVIOUS
<1>2. m \in B /\ \A y \in B : m <= y
  BY <1>1, MinOf
<1> HIDE DEF m
<1>3. m \in 1 .. n /\ m \notin S
  BY <1>2
<1>4. m - 1 \in 0 .. n - 1 /\ m - 1 \notin B /\ (m - 1) + 1 = m
  BY <1>2, <1>3
<1>5. m - 1 \in S
  BY <1>3, <1>4
<1>6. (m - 1) + 1 \in S
  BY <1>4, <1>5
<1> QED
  BY <1>3, <1>4, <1>6

\* A function defined step by step exists, and has its values.
Steps(f, a, n, R) == R = [k \in 0 .. n |-> IF k = 0 THEN a ELSE f[<<k, R[k - 1]>>]]

LEMMA Iterates ==
  ASSUME NEW n \in Nat, NEW D, NEW a \in D, NEW f \in [(1 .. n) \X D -> D]
  PROVE  \E R \in [0 .. n -> D] : Steps(f, a, n, R)
<1> DEFINE S == {m \in 0 .. n : \E R \in [0 .. m -> D] : Steps(f, a, m, R)}
<1>1. 0 \in S
  <2>1. [k \in 0 .. 0 |-> a] \in [0 .. 0 -> D] /\ Steps(f, a, 0, [k \in 0 .. 0 |-> a])
    BY DEF Steps
  <2> QED
    BY <2>1
<1>2. ASSUME NEW m \in 0 .. n - 1, m \in S PROVE m + 1 \in S
  <2>1. PICK R \in [0 .. m -> D] : Steps(f, a, m, R)
    BY <1>2
  <2> DEFINE Q == [k \in 0 .. m + 1 |-> IF k = m + 1 THEN f[<<m + 1, R[m]>>] ELSE R[k]]
  <2>2. <<m + 1, R[m]>> \in (1 .. n) \X D
    BY <2>1
  <2>3. f[<<m + 1, R[m]>>] \in D
    BY <2>2
  <2>4. Q \in [0 .. m + 1 -> D]
    BY <2>1, <2>3
  <2>5. ASSUME NEW k \in 0 .. m + 1
        PROVE  Q[k] = IF k = 0 THEN a ELSE f[<<k, Q[k - 1]>>]
    <3>1. k # 0 => Q[k - 1] = R[k - 1] /\ k - 1 \in 0 .. m
      OBVIOUS
    <3>2. k <= m => Q[k] = R[k] /\ R[k] = IF k = 0 THEN a ELSE f[<<k, R[k - 1]>>]
      BY <2>1 DEF Steps
    <3>3. CASE k = m + 1
      <4>1. k # 0 /\ k - 1 = m /\ m # m + 1
        BY <3>3
      <4>2. Q[k - 1] = R[m]
        BY <3>1, <4>1
      <4>3. Q[k] = f[<<k, R[m]>>]
        BY <3>3
      <4> QED
        BY <4>1, <4>2, <4>3
    <3>4. CASE k <= m
      BY <3>1, <3>2, <3>4
    <3> QED
      BY <3>3, <3>4
  <2>6. Steps(f, a, m + 1, Q)
    <3> HIDE DEF Q
    <3>1. Q = [k \in 0 .. m + 1 |-> Q[k]]
      BY <2>4
    <3> QED
      BY <2>5, <3>1 DEF Steps
  <2> HIDE DEF Q
  <2>7. m + 1 \in 0 .. n
    OBVIOUS
  <2> QED
    BY <2>4, <2>6, <2>7
<1>3. 0 .. n \subseteq S
  <2> HIDE DEF S
  <2> QED
    BY <1>1, <1>2, Climbs
<1> QED
  BY <1>3


-----------------------------------------------------------------------------
(***************************************************************************)
(* Where the rows of a wrapped text begin.                                 *)
(***************************************************************************)
RowAfter(t, width, start) ==
  LET spaces == {k \in 1 .. width : t[start + k] = "space"}
  IN start + (IF spaces = {} THEN width ELSE Max(spaces))

RowStep(t, width, start) ==
  IF start = -1 \/ ~RowFull(t, start, width) THEN -1 ELSE RowAfter(t, width, start)

RowsOf(t, width, R) ==
  [k \in 0 .. Len(t) |-> IF k = 0 THEN 0 ELSE RowStep(t, width, R[k - 1])]

Rows(t, width) == CHOOSE R : R = RowsOf(t, width, R)

LEMMA WrapStarts ==
  ASSUME NEW t, NEW width
  PROVE  wrap_starts(t, width) = {Rows(t, width)[k] : k \in 0 .. Len(t)} \ {-1}
BY DEF wrap_starts, Rows, RowsOf, RowStep, RowAfter

LEMMA RowAfterIn ==
  ASSUME NEW S, NEW t \in Seq(S), NEW width \in Nat \ {0}, NEW start \in Int
  PROVE  RowAfter(t, width, start) \in start + 1 .. start + width
<1> DEFINE spaces == {k \in 1 .. width : t[start + k] = "space"}
<1>1. spaces # {} => Max(spaces) \in 1 .. width
  <2>1. spaces \in SUBSET (0 .. width)
    OBVIOUS
  <2>2. spaces # {} => Max(spaces) \in spaces
    <3> HIDE DEF spaces
    <3> QED
      BY <2>1, MaxOf
  <2> QED
    BY <2>2
<1>2. RowAfter(t, width, start) = start + (IF spaces = {} THEN width ELSE Max(spaces))
  BY DEF RowAfter
<1> HIDE DEF spaces
<1> QED
  BY <1>1, <1>2

LEMMA RowsAre ==
  ASSUME NEW S, NEW t \in Seq(S), NEW width \in Nat \ {0}
  PROVE  Rows(t, width) = RowsOf(t, width, Rows(t, width))
<1> DEFINE n == Len(t)
           f == [p \in (1 .. n) \X Int |-> RowStep(t, width, p[2])]
<1>1. n \in Nat
  OBVIOUS
<1> HIDE DEF n
<1>2. f \in [(1 .. n) \X Int -> Int]
  <2>1. ASSUME NEW r \in Int PROVE RowStep(t, width, r) \in Int
    <3>1. RowAfter(t, width, r) \in Int
      BY RowAfterIn
    <3> QED
      BY <3>1 DEF RowStep
  <2> QED
    BY <2>1
<1>3. ASSUME NEW R, R \in [0 .. n -> Int], NEW k \in 0 .. n, k # 0
      PROVE  f[<<k, R[k - 1]>>] = RowStep(t, width, R[k - 1])
  <2>1. k \in 1 .. n /\ R[k - 1] \in Int
    BY <1>1, <1>3
  <2> QED
    BY <2>1
<1> HIDE DEF f
<1>4. PICK R \in [0 .. n -> Int] : Steps(f, 0, n, R)
  <2>1. 0 \in Int
    OBVIOUS
  <2> QED
    BY <1>1, <1>2, <2>1, Iterates, Zenon
<1>5. R = [k \in 0 .. n |-> IF k = 0 THEN 0 ELSE RowStep(t, width, R[k - 1])]
  BY <1>3, <1>4, Zenon DEF Steps
<1>6. R = RowsOf(t, width, R)
  BY <1>5, Zenon DEF RowsOf, n
<1> QED
  BY <1>6, Zenon DEF Rows

Wraps(t, width, n) ==
  /\ \A r \in Int : RowFull(t, r, width) <=> n - r >= width
  /\ \A r \in Int : RowAfter(t, width, r) \in r + 1 .. r + width

Unrolls(R, t, width, n) ==
  R = [k \in 0 .. n |-> IF k = 0 THEN 0 ELSE RowStep(t, width, R[k - 1])]

Begin(starts, R, n) == starts = {R[k] : k \in 0 .. n} \ {-1}

LEMMA RowsIn ==
  ASSUME NEW t, NEW width \in Nat \ {0}, NEW n \in Nat,
         Wraps(t, width, n),
         NEW R, Unrolls(R, t, width, n)
  PROVE  /\ R[0] = 0
         /\ \A k \in 1 .. n : R[k] = RowStep(t, width, R[k - 1])
         /\ \A k \in 0 .. n : R[k] = -1 \/ R[k] \in k .. n
<1>1. R[0] = 0 /\ \A k \in 1 .. n : R[k] = RowStep(t, width, R[k - 1])
  <2>1. 0 \in 0 .. n /\ \A k \in 1 .. n : k \in 0 .. n /\ k # 0
    OBVIOUS
  <2> QED
    BY <2>1, Zenon DEF Unrolls
<1> DEFINE Good == {k \in 0 .. n : R[k] = -1 \/ R[k] \in k .. n}
<1>2. 0 \in Good
  BY <1>1
<1>3. ASSUME NEW k \in 0 .. n - 1, NEW s, s = R[k], s = -1 \/ s \in k .. n
      PROVE  RowStep(t, width, s) = -1 \/ RowStep(t, width, s) \in k + 1 .. n
  <2>1. CASE s = -1 \/ ~RowFull(t, s, width)
    BY <2>1 DEF RowStep
  <2>2. CASE s # -1 /\ RowFull(t, s, width)
    <3>1. s \in k .. n /\ n - s >= width
      <4>1. s \in k .. n
        BY <1>3, <2>2
      <4>2. s \in Int
        BY <4>1
      <4> QED
        BY <2>2, <4>1, <4>2 DEF Wraps
    <3>2. RowAfter(t, width, s) \in s + 1 .. s + width
      <4>1. s \in Int
        BY <3>1
      <4> QED
        BY <4>1 DEF Wraps
    <3>3. RowAfter(t, width, s) \in k + 1 .. n
      BY <3>1, <3>2
    <3> QED
      BY <2>2, <3>3 DEF RowStep
  <2> QED
    BY <2>1, <2>2
<1>4. ASSUME NEW k \in 0 .. n - 1, k \in Good PROVE k + 1 \in Good
  <2>1. k + 1 \in 1 .. n /\ (k + 1) - 1 = k /\ k + 1 \in 0 .. n
    OBVIOUS
  <2>2. R[k + 1] = RowStep(t, width, R[k])
    BY <1>1, <2>1
  <2>3. R[k] = -1 \/ R[k] \in k .. n
    BY <1>4
  <2>4. R[k + 1] = -1 \/ R[k + 1] \in k + 1 .. n
    BY <1>3, <2>2, <2>3
  <2> QED
    BY <2>1, <2>4
<1>5. 0 .. n \subseteq Good
  <2> HIDE DEF Good
  <2> QED
    BY <1>2, <1>4, Climbs
<1> QED
  BY <1>1, <1>5

LEMMA StartsAre ==
  ASSUME NEW t, NEW width \in Nat \ {0}, NEW n \in Nat,
         Wraps(t, width, n),
         NEW R, Unrolls(R, t, width, n),
         NEW starts, Begin(starts, R, n)
  PROVE  /\ starts \subseteq 0 .. n /\ 0 \in starts
         /\ \A s \in starts : n - s >= width => \E r \in starts : s < r /\ r <= s + width
<1>1. /\ R[0] = 0
      /\ \A k \in 1 .. n : R[k] = RowStep(t, width, R[k - 1])
      /\ \A k \in 0 .. n : R[k] = -1 \/ R[k] \in k .. n
  BY RowsIn
<1>2. ASSUME NEW k \in 0 .. n, R[k] # -1 PROVE R[k] \in starts
  BY <1>2, Zenon DEF Begin
<1>3. ASSUME NEW s \in starts PROVE \E k \in 0 .. n : s = R[k] /\ s \in k .. n
  <2>1. PICK k \in 0 .. n : s = R[k] /\ s # -1
    BY Zenon DEF Begin
  <2> QED
    BY <1>1, <2>1
<1>4. starts \subseteq 0 .. n
  BY <1>3
<1>5. 0 \in starts
  <2>1. 0 \in 0 .. n /\ R[0] # -1
    BY <1>1
  <2> QED
    BY <1>1, <1>2, <2>1
<1>6. ASSUME NEW s \in starts, n - s >= width PROVE \E r \in starts : s < r /\ r <= s + width
  <2>1. PICK k \in 0 .. n : s = R[k] /\ s \in k .. n
    BY <1>3
  <2>2. k + 1 \in 1 .. n /\ (k + 1) - 1 = k /\ k + 1 \in 0 .. n
    BY <1>6, <2>1
  <2>3. R[k + 1] = RowStep(t, width, s)
    BY <1>1, <2>1, <2>2
  <2>4. s \in Int /\ s # -1
    BY <2>1
  <2>5. RowFull(t, s, width)
    BY <1>6, <2>4 DEF Wraps
  <2>6. R[k + 1] = RowAfter(t, width, s)
    BY <2>3, <2>4, <2>5 DEF RowStep
  <2>7. R[k + 1] \in s + 1 .. s + width
    BY <2>4, <2>6 DEF Wraps
  <2>8. R[k + 1] # -1
    BY <2>1, <2>7
  <2>9. R[k + 1] \in starts
    BY <1>2, <2>2, <2>8
  <2> QED
    BY <2>4, <2>7, <2>9
<1> QED
  BY <1>4, <1>5, <1>6

LEMMA WrapStartsAre ==
  ASSUME NEW S, NEW t \in Seq(S), NEW width \in Nat \ {0}, NEW n, n = Len(t),
         NEW starts, starts = wrap_starts(t, width)
  PROVE  /\ starts \subseteq 0 .. n /\ 0 \in starts
         /\ \A s \in starts : n - s >= width => \E r \in starts : s < r /\ r <= s + width
<1>1. n \in Nat
  OBVIOUS
<1>2. Wraps(t, width, n)
  BY RowAfterIn DEF Wraps, RowFull
<1> DEFINE R == Rows(t, width)
<1>3. Unrolls(R, t, width, n)
  BY RowsAre, Zenon DEF RowsOf, Unrolls
<1>4. Begin(starts, R, n)
  BY WrapStarts, Zenon DEF Begin
<1> HIDE DEF R
<1> QED
  BY <1>1, <1>2, <1>3, <1>4, StartsAre, Zenon

\* Every place of a text has a column of the field, and a row of the text.
LEMMA ColumnIn ==
  ASSUME NEW n \in Nat, NEW width \in Nat \ {0}, NEW starts \in SUBSET (0 .. n), 0 \in starts,
         \A s \in starts : n - s >= width => \E r \in starts : s < r /\ r <= s + width,
         NEW at \in 0 .. n
  PROVE  Column(starts, at) \in 0 .. width - 1
<1> DEFINE before == {s \in starts : s <= at}
           m == Max(before)
<1>1. before \in SUBSET (0 .. n) /\ before # {}
  <2>1. 0 \in before
    OBVIOUS
  <2> QED
    BY <2>1
<1>2. m \in before /\ \A y \in before : y <= m
  BY <1>1, MaxOf
<1>3. Column(starts, at) = at - m
  BY DEF Column
<1> HIDE DEF m
<1>4. m \in starts /\ m <= at /\ m \in 0 .. n
  BY <1>2
<1>5. ASSUME at >= m + width PROVE FALSE
  <2>1. n - m >= width
    BY <1>4, <1>5
  <2>2. PICK r \in starts : m < r /\ r <= m + width
    BY <1>4, <2>1
  <2>3. r \in 0 .. n /\ r <= at
    BY <1>4, <1>5, <2>2
  <2>4. r \in before
    BY <2>3
  <2>5. r <= m
    BY <1>2, <2>4
  <2> QED
    BY <1>4, <2>2, <2>3, <2>5
<1> QED
  BY <1>3, <1>4, <1>5

LEMMA RowIn ==
  ASSUME NEW n \in Nat, NEW starts \in SUBSET (0 .. n), 0 \in starts, NEW at \in 0 .. n
  PROVE  Cardinality(starts) \in Nat /\ Row(starts, at) \in 0 .. Cardinality(starts) - 1
<1> DEFINE before == {s \in starts : s <= at}
<1>1. IsFiniteSet(0 .. n)
  BY FS_Interval
<1>2. IsFiniteSet(starts) /\ Cardinality(starts) \in Nat
  BY <1>1, FS_Subset, FS_CardinalityType
<1>3. before \subseteq starts /\ 0 \in before
  OBVIOUS
<1> HIDE DEF before
<1>4. IsFiniteSet(before) /\ Cardinality(before) \in Nat /\ Cardinality(before) <= Cardinality(starts)
  BY <1>2, <1>3, FS_Subset, FS_CardinalityType
<1>5. Cardinality(before) # 0
  BY <1>3, <1>4, FS_EmptySet
<1> QED
  BY <1>2, <1>4, <1>5 DEF Row, before

\* The rows shown are of the text, and the cursor's is among them.
LEMMA RowsShownIn ==
  ASSUME NEW starts, NEW at, NEW spare \in Nat, Cardinality(starts) \in Nat,
         Row(starts, at) \in 0 .. Cardinality(starts) - 1
  PROVE  LET shown == RowsShown(starts, spare, at)
         IN Row(starts, at) \in shown /\ shown \subseteq 0 .. Cardinality(starts) - 1
<1> DEFINE c == Cardinality(starts)
           r == Row(starts, at)
           n == msg_rows(starts, spare)
           top == IF r + 1 < n THEN 0 ELSE r + 1 - n
<1>1. c \in Nat /\ r \in 0 .. c - 1
  OBVIOUS
<1>2. n \in 1 .. c
  <2>1. n = IF c < (IF spare < 1 THEN 1 ELSE spare) THEN c ELSE IF spare < 1 THEN 1 ELSE spare
    BY DEF msg_rows, Least
  <2> HIDE DEF c, r, n
  <2> QED
    BY <1>1, <2>1
<1>3. RowsShown(starts, spare, at) = top .. top + n - 1
  BY DEF RowsShown
<1> HIDE DEF c, r, n
<1>4. r \in top .. top + n - 1 /\ top .. top + n - 1 \subseteq 0 .. c - 1
  BY <1>1, <1>2
<1> QED
  BY <1>3, <1>4 DEF c, r

-----------------------------------------------------------------------------
(***************************************************************************)
(* The fuzzy matcher, and the list it makes.                               *)
(***************************************************************************)
\* How many letters of a query have been taken after each of a label's.
Greedy(T, query, label, m, n) ==
  /\ T \in [0 .. n -> Nat] /\ T[0] = 0
  /\ \A i \in 0 .. n - 1 :
       T[i + 1] = IF T[i] < m /\ label[i + 1] = query[T[i] + 1] THEN T[i] + 1 ELSE T[i]

\* The first k letters of a query stand in a label, in order, at these places.
Placed(at, query, label, k) ==
  /\ \A j \in 1 .. k : label[at[j]] = query[j]
  /\ \A a, b \in 1 .. k : a < b => at[a] < at[b]

LEMMA GreedyWithin ==
  ASSUME NEW m \in Nat, NEW n \in Nat, NEW query, NEW label, NEW T, Greedy(T, query, label, m, n)
  PROVE  \A i \in 0 .. n : T[i] \in 0 .. m
<1> DEFINE S == {i \in 0 .. n : T[i] \in 0 .. m}
<1>1. 0 \in S
  BY DEF Greedy
<1>2. ASSUME NEW i \in 0 .. n - 1, i \in S PROVE i + 1 \in S
  <2>1. /\ i + 1 \in 0 .. n /\ T[i] \in 0 .. m
        /\ T[i + 1] = T[i] \/ (T[i] < m /\ T[i + 1] = T[i] + 1)
    BY <1>2 DEF Greedy
  <2>2. T[i + 1] \in 0 .. m
    BY <2>1
  <2> QED
    BY <2>1, <2>2
<1>3. 0 .. n \subseteq S
  <2> HIDE DEF S
  <2> QED
    BY <1>1, <1>2, Climbs
<1> QED
  BY <1>3

\* The letters taken stand in the label,
LEMMA GreedyPlaces ==
  ASSUME NEW m \in Nat, NEW n \in Nat, NEW query, NEW label, NEW T, Greedy(T, query, label, m, n)
  PROVE  \E at \in [1 .. T[n] -> 1 .. n] : Placed(at, query, label, T[n])
<1> DEFINE S == {i \in 0 .. n : \E at \in [1 .. T[i] -> 1 .. i] : Placed(at, query, label, T[i])}
<1>1. 0 \in S
  <2>1. T[0] = 0 /\ 0 \in 0 .. n
    BY DEF Greedy
  <2>2. [j \in 1 .. 0 |-> 1] \in [1 .. 0 -> 1 .. 0] /\ Placed([j \in 1 .. 0 |-> 1], query, label, 0)
    BY DEF Placed
  <2> QED
    BY <2>1, <2>2
<1>2. ASSUME NEW i \in 0 .. n - 1, i \in S PROVE i + 1 \in S
  <2> DEFINE k == T[i]
  <2>1. k \in Nat /\ i + 1 \in 0 .. n
    BY DEF Greedy
  <2>2. PICK at \in [1 .. k -> 1 .. i] : Placed(at, query, label, k)
    BY <1>2
  <2>3. T[i + 1] = IF k < m /\ label[i + 1] = query[k + 1] THEN k + 1 ELSE k
    BY DEF Greedy
  <2> HIDE DEF k
  <2>4. CASE T[i + 1] = k
    <3>1. at \in [1 .. k -> 1 .. i + 1]
      BY <2>1, <2>2
    <3> QED
      BY <2>1, <2>2, <2>4, <3>1
  <2>5. CASE T[i + 1] = k + 1 /\ label[i + 1] = query[k + 1]
    <3> DEFINE new == [j \in 1 .. k + 1 |-> IF j = k + 1 THEN i + 1 ELSE at[j]]
    <3>1. \A j \in 1 .. k : at[j] \in 1 .. i /\ new[j] = at[j]
      BY <2>1, <2>2
    <3>2. k + 1 \in 1 .. k + 1 /\ new[k + 1] = i + 1
      BY <2>1
    <3>3. \A j \in 1 .. k + 1 : j \in 1 .. k \/ j = k + 1
      BY <2>1
    <3>4. new \in [1 .. k + 1 -> 1 .. i + 1]
      BY <2>1, <3>1
    <3> HIDE DEF new
    <3>5. ASSUME NEW j \in 1 .. k + 1 PROVE label[new[j]] = query[j]
      BY <2>2, <2>5, <3>1, <3>2, <3>3 DEF Placed
    <3>6. ASSUME NEW a \in 1 .. k + 1, NEW b \in 1 .. k + 1, a < b PROVE new[a] < new[b]
      <4>1. a \in 1 .. k
        BY <2>1, <3>6
      <4>2. CASE b \in 1 .. k
        BY <2>2, <3>1, <3>6, <4>1, <4>2 DEF Placed
      <4>3. CASE b = k + 1
        BY <3>1, <3>2, <4>1, <4>3
      <4> QED
        BY <3>3, <4>2, <4>3
    <3>7. Placed(new, query, label, k + 1)
      BY <3>5, <3>6 DEF Placed
    <3> QED
      BY <2>1, <2>5, <3>4, <3>7
  <2> QED
    BY <2>3, <2>4, <2>5
<1>3. 0 .. n \subseteq S
  <2> HIDE DEF S
  <2> QED
    BY <1>1, <1>2, Climbs
<1> QED
  BY <1>3

\* and all of them are, if all of them stand there.
LEMMA GreedyFinds ==
  ASSUME NEW m \in Nat, NEW n \in Nat, NEW query, NEW label, NEW T, Greedy(T, query, label, m, n),
         NEW at \in [1 .. m -> 1 .. n], Placed(at, query, label, m)
  PROVE  T[n] = m
<1> DEFINE S == {i \in 0 .. n : \A k \in 1 .. m : at[k] <= i => k <= T[i]}
<1>1. 0 \in S
  BY DEF Greedy
<1>2. ASSUME NEW i \in 0 .. n - 1, i \in S PROVE i + 1 \in S
  <2>1. /\ T[i] \in Nat /\ T[i + 1] \in Nat /\ i + 1 \in 0 .. n
        /\ T[i + 1] = IF T[i] < m /\ label[i + 1] = query[T[i] + 1] THEN T[i] + 1 ELSE T[i]
    BY DEF Greedy
  <2>2. ASSUME NEW k \in 1 .. m, at[k] <= i + 1 PROVE k <= T[i + 1]
    <3>1. CASE at[k] <= i
      <4>1. k <= T[i]
        BY <1>2, <3>1
      <4> QED
        BY <2>1, <4>1
    <3>2. CASE at[k] = i + 1
      <4>1. k - 1 <= T[i]
        <5>1. CASE k = 1
          BY <2>1, <5>1
        <5>2. CASE k # 1
          <6>1. k - 1 \in 1 .. m /\ k - 1 < k
            BY <5>2
          <6>2. at[k - 1] < at[k] /\ at[k - 1] \in 1 .. n
            BY <6>1 DEF Placed
          <6>3. at[k - 1] <= i
            BY <3>2, <6>2
          <6> QED
            BY <1>2, <6>1, <6>3
        <5> QED
          BY <5>1, <5>2
      <4>2. CASE k <= T[i]
        BY <2>1, <4>2
      <4>3. CASE T[i] = k - 1
        <5>1. T[i] < m /\ T[i] + 1 = k
          BY <4>3
        <5>2. label[i + 1] = query[T[i] + 1]
          BY <3>2, <5>1 DEF Placed
        <5> QED
          BY <2>1, <5>1, <5>2
      <4> QED
        BY <2>1, <4>1, <4>2, <4>3
    <3>3. at[k] \in 1 .. n
      OBVIOUS
    <3> QED
      BY <2>2, <3>1, <3>2, <3>3
  <2> QED
    BY <2>1, <2>2
<1>3. 0 .. n \subseteq S
  <2> HIDE DEF S
  <2> QED
    BY <1>1, <1>2, Climbs
<1>4. T[n] \in 0 .. m
  BY GreedyWithin
<1>5. CASE m = 0
  BY <1>4, <1>5
<1>6. CASE m # 0
  <2>1. m \in 1 .. m /\ n \in 0 .. n /\ at[m] <= n
    BY <1>6
  <2>2. m <= T[n]
    BY <1>3, <2>1
  <2> QED
    BY <1>4, <2>2
<1> QED
  BY <1>5, <1>6

\* The matcher's pass over a label.
Tally == [taken : Nat, total : Nat, run : BOOLEAN]

NoneYet == [taken |-> 0, total |-> 0, run |-> FALSE]

ScanStep(query, label, i, was) ==
  IF was.taken < Len(query) /\ label[i] = query[was.taken + 1]
  THEN [taken |-> was.taken + 1,
        total |-> was.total + 1 + (IF was.run THEN 2 ELSE 0)
                            + (IF AtWordStart(label, i) THEN 3 ELSE 0),
        run   |-> TRUE]
  ELSE [was EXCEPT !.run = FALSE]

ScanOf(query, label, n, R) ==
  [i \in 0 .. n |-> IF i = 0 THEN NoneYet ELSE ScanStep(query, label, i, R[i - 1])]

\* All of it.
IsScan(Q, query, label, n) == Q = ScanOf(query, label, n, Q)

Scan(query, label) == CHOOSE R : IsScan(R, query, label, Len(label))

LEMMA ScoreIsScan ==
  ASSUME NEW query, NEW label
  PROVE  score(query, label) = Scan(query, label)[Len(label)]
BY DEF score, Scan, IsScan, ScanOf, ScanStep, NoneYet

LEMMA ScanStepTallies ==
  ASSUME NEW query, NEW label, NEW i, NEW was \in Tally, NEW m \in Nat, m = Len(query)
  PROVE  /\ ScanStep(query, label, i, was) \in Tally
         /\ ScanStep(query, label, i, was).taken
              = IF was.taken < m /\ label[i] = query[was.taken + 1] THEN was.taken + 1 ELSE was.taken
<1>1. CASE was.taken < m /\ label[i] = query[was.taken + 1]
  <2> DEFINE more == 1 + (IF was.run THEN 2 ELSE 0) + (IF AtWordStart(label, i) THEN 3 ELSE 0)
  <2>1. more \in Nat
    OBVIOUS
  <2>2. was.taken \in Nat /\ was.total \in Nat
    BY DEF Tally
  <2>3. ScanStep(query, label, i, was)
         = [taken |-> was.taken + 1,
            total |-> was.total + 1 + (IF was.run THEN 2 ELSE 0)
                                + (IF AtWordStart(label, i) THEN 3 ELSE 0),
            run   |-> TRUE]
    BY <1>1, Zenon DEF ScanStep
  <2> QED
    BY <1>1, <2>2, <2>3 DEF Tally
<1>2. CASE ~(was.taken < m /\ label[i] = query[was.taken + 1])
  <2>1. ScanStep(query, label, i, was) = [was EXCEPT !.run = FALSE]
    BY <1>2, Zenon DEF ScanStep
  <2> QED
    BY <1>2, <2>1 DEF Tally
<1> QED
  BY <1>1, <1>2

\* Each step of the pass tallies, and takes a letter if it is the next.
Tallies(query, label, m) ==
  \A i : \A was \in Tally :
    /\ ScanStep(query, label, i, was) \in Tally
    /\ ScanStep(query, label, i, was).taken
         = IF was.taken < m /\ label[i] = query[was.taken + 1] THEN was.taken + 1 ELSE was.taken

\* The pass has a value at every letter of the label,
LEMMA ScanIsOf ==
  ASSUME NEW query, NEW label, NEW m, NEW n \in Nat, Tallies(query, label, m)
  PROVE  \E R : IsScan(R, query, label, n)
<1> DEFINE f == [p \in (1 .. n) \X Tally |-> ScanStep(query, label, p[1], p[2])]
<1>1. f \in [(1 .. n) \X Tally -> Tally]
  BY DEF Tallies
<1>2. NoneYet \in Tally
  BY DEF NoneYet, Tally
<1>3. ASSUME NEW R, R \in [0 .. n -> Tally], NEW k \in 0 .. n, k # 0
      PROVE  f[<<k, R[k - 1]>>] = ScanStep(query, label, k, R[k - 1])
  <2>1. k \in 1 .. n /\ R[k - 1] \in Tally
    BY <1>3
  <2> QED
    BY <2>1
<1> HIDE DEF f
<1>4. PICK R \in [0 .. n -> Tally] : Steps(f, NoneYet, n, R)
  BY <1>1, <1>2, Iterates, Zenon
<1>5. R = [k \in 0 .. n |-> IF k = 0 THEN NoneYet ELSE ScanStep(query, label, k, R[k - 1])]
  BY <1>3, <1>4, Zenon DEF Steps
<1>6. R = ScanOf(query, label, n, R)
  BY <1>5, Zenon DEF ScanOf
<1> QED
  BY <1>6, Zenon DEF IsScan

\* and takes its letters as early as it can.
LEMMA ScanTakes ==
  ASSUME NEW query, NEW label, NEW m, NEW n \in Nat, Tallies(query, label, m),
         NEW Q, IsScan(Q, query, label, n)
  PROVE  \E T : Greedy(T, query, label, m, n) /\ Q[n] \in Tally /\ Q[n].taken = T[n]
<1> DEFINE S == {i \in 0 .. n : Q[i] \in Tally}
<1>1. Q[0] = NoneYet /\ \A i \in 1 .. n : Q[i] = ScanStep(query, label, i, Q[i - 1])
  <2>1. 0 \in 0 .. n /\ \A i \in 1 .. n : i \in 0 .. n /\ i # 0
    OBVIOUS
  <2> QED
    BY <2>1, Zenon DEF ScanOf, IsScan
<1>2. ASSUME NEW i \in 0 .. n - 1
      PROVE  i + 1 \in 0 .. n /\ Q[i + 1] = ScanStep(query, label, i + 1, Q[i])
  <2>1. i + 1 \in 1 .. n /\ i + 1 \in 0 .. n /\ (i + 1) - 1 = i
    OBVIOUS
  <2> QED
    BY <1>1, <2>1
<1>3. 0 .. n \subseteq S
  <2>1. 0 \in S
    <3>1. NoneYet \in Tally /\ 0 \in 0 .. n
      BY DEF NoneYet, Tally
    <3> QED
      BY <1>1, <3>1
  <2>2. ASSUME NEW i \in 0 .. n - 1, i \in S PROVE i + 1 \in S
    <3>1. Q[i] \in Tally
      BY <2>2
    <3>2. ScanStep(query, label, i + 1, Q[i]) \in Tally
      BY <3>1, Zenon DEF Tallies
    <3>3. i + 1 \in 0 .. n /\ Q[i + 1] = ScanStep(query, label, i + 1, Q[i])
      BY <1>2
    <3> QED
      BY <3>2, <3>3
  <2> HIDE DEF S
  <2> QED
    BY <2>1, <2>2, Climbs
<1> DEFINE T == [i \in 0 .. n |-> Q[i].taken]
<1>4. ASSUME NEW i \in 0 .. n PROVE Q[i] \in Tally /\ T[i] = Q[i].taken /\ T[i] \in Nat
  <2>1. Q[i] \in Tally
    BY <1>3
  <2> QED
    BY <2>1 DEF Tally
<1>5. T \in [0 .. n -> Nat] /\ T[0] = 0
  <2>1. 0 \in 0 .. n
    OBVIOUS
  <2>2. T[0] = 0
    BY <1>1, <2>1 DEF NoneYet
  <2> QED
    BY <1>4, <2>2
<1> HIDE DEF T
<1>6. ASSUME NEW i \in 0 .. n - 1
      PROVE  T[i + 1] = IF T[i] < m /\ label[i + 1] = query[T[i] + 1] THEN T[i] + 1 ELSE T[i]
  <2>1. i \in 0 .. n
    OBVIOUS
  <2>2. Q[i] \in Tally /\ T[i] = Q[i].taken /\ T[i + 1] = Q[i + 1].taken
    BY <1>2, <1>4, <2>1
  <2>3. ScanStep(query, label, i + 1, Q[i]).taken
         = IF Q[i].taken < m /\ label[i + 1] = query[Q[i].taken + 1] THEN Q[i].taken + 1 ELSE Q[i].taken
    BY <2>2 DEF Tallies
  <2> QED
    BY <1>2, <2>2, <2>3
<1>7. n \in 0 .. n
  OBVIOUS
<1>8. Greedy(T, query, label, m, n)
  BY <1>5, <1>6, Zenon DEF Greedy
<1> QED
  BY <1>4, <1>7, <1>8, Zenon

LEMMA ScanIs ==
  ASSUME NEW A, NEW B, NEW query \in Seq(A), NEW label \in Seq(B)
  PROVE  \E m, n, T : /\ m = Len(query) /\ n = Len(label)
                      /\ Greedy(T, query, label, m, n)
                      /\ score(query, label) \in Tally
                      /\ score(query, label).taken = T[n]
<1>0. PICK m, n : m = Len(query) /\ n = Len(label)
  OBVIOUS
<1>1. m \in Nat /\ n \in Nat
  BY <1>0
<1>2. Tallies(query, label, m)
  BY <1>0, <1>1, ScanStepTallies DEF Tallies
<1>3. \E R : IsScan(R, query, label, n)
  BY <1>1, <1>2, ScanIsOf
<1>4. IsScan(Scan(query, label), query, label, n)
  BY <1>0, <1>3, Zenon DEF Scan
<1>5. PICK Q : Q = Scan(query, label)
  OBVIOUS
<1>6. IsScan(Q, query, label, n)
  BY <1>4, <1>5
<1>7. score(query, label) = Q[n]
  BY <1>0, <1>5, ScoreIsScan, Zenon
<1>8. PICK T : Greedy(T, query, label, m, n) /\ Q[n] \in Tally /\ Q[n].taken = T[n]
  BY <1>1, <1>2, <1>6, ScanTakes
<1> QED
  BY <1>0, <1>7, <1>8, Zenon

\* What the matcher takes is what a match is; a score is a number.
LEMMA MatchesAre ==
  ASSUME NEW A, NEW B, NEW query \in Seq(A), NEW label \in Seq(B)
  PROVE  /\ Matches(query, label) <=> IsSubsequence(query, label)
         /\ score(query, label).total \in Nat
<1>1. PICK m, n, T : /\ m = Len(query) /\ n = Len(label)
                     /\ Greedy(T, query, label, m, n)
                     /\ score(query, label) \in Tally
                     /\ score(query, label).taken = T[n]
  BY ScanIs
<1>2. m \in Nat /\ n \in Nat /\ DOMAIN query = 1 .. m /\ DOMAIN label = 1 .. n
  BY <1>1
<1>3. Matches(query, label) <=> T[n] = m
  BY <1>1, Zenon DEF Matches
<1>4. IsSubsequence(query, label) <=> \E at \in [1 .. m -> 1 .. n] : Placed(at, query, label, m)
  BY <1>2, Zenon DEF IsSubsequence, Placed
<1>5. score(query, label).total \in Nat
  BY <1>1, Zenon DEF Tally
<1>6. Greedy(T, query, label, m, n)
  BY <1>1
<1>7. T[n] = m => \E at \in [1 .. m -> 1 .. n] : Placed(at, query, label, m)
  BY <1>2, <1>6, GreedyPlaces, Zenon
<1>8. (\E at \in [1 .. m -> 1 .. n] : Placed(at, query, label, m)) => T[n] = m
  BY <1>2, <1>6, GreedyFinds, Zenon
<1> QED
  BY <1>3, <1>4, <1>5, <1>7, <1>8, Zenon

\* One match goes before another: by its score, and equal ones in order.
Before(pts, k, i) == pts[k] > pts[i] \/ (pts[k] = pts[i] /\ k < i)

Ahead(hits, pts, i) == {k \in hits : Before(pts, k, i)}

RankedAt(hits, pts, r, i) == i \in hits /\ Cardinality(Ahead(hits, pts, i)) = r - 1

\* Fewer are ahead of one match than of another it is ahead of.
LEMMA AheadLess ==
  ASSUME NEW hits, IsFiniteSet(hits), hits \subseteq Nat, NEW pts, \A i \in hits : pts[i] \in Nat,
         NEW i \in hits
  PROVE  /\ Cardinality(Ahead(hits, pts, i)) \in 0 .. Cardinality(hits) - 1
         /\ \A j \in hits : Before(pts, i, j) =>
              Cardinality(Ahead(hits, pts, i)) < Cardinality(Ahead(hits, pts, j))
<1>1. ASSUME NEW j \in hits
      PROVE  IsFiniteSet(Ahead(hits, pts, j)) /\ Cardinality(Ahead(hits, pts, j)) \in Nat
  <2>1. Ahead(hits, pts, j) \in SUBSET hits
    BY DEF Ahead
  <2>2. IsFiniteSet(Ahead(hits, pts, j))
    BY <2>1, FS_Subset
  <2> QED
    BY <2>2, FS_CardinalityType
<1>2. Cardinality(hits) \in Nat
  BY FS_CardinalityType
<1>3. i \notin Ahead(hits, pts, i)
  BY DEF Ahead, Before
<1>4. ASSUME NEW S, IsFiniteSet(S), Ahead(hits, pts, i) \subseteq S, i \in S
      PROVE  Cardinality(Ahead(hits, pts, i)) < Cardinality(S)
  <2>1. PICK A : A = Ahead(hits, pts, i)
    OBVIOUS
  <2>2. A \in SUBSET S /\ A # S
    BY <1>3, <1>4, <2>1
  <2>3. Cardinality(A) <= Cardinality(S) /\ Cardinality(S) # Cardinality(A)
    BY <1>4, <2>2, FS_Subset
  <2>4. Cardinality(S) \in Nat /\ Cardinality(A) \in Nat
    BY <1>1, <1>4, <2>1, FS_CardinalityType
  <2> QED
    BY <2>1, <2>3, <2>4
<1>5. Cardinality(Ahead(hits, pts, i)) < Cardinality(hits)
  <2>1. Ahead(hits, pts, i) \subseteq hits
    BY DEF Ahead
  <2> QED
    BY <1>4, <2>1
<1>6. ASSUME NEW j \in hits, Before(pts, i, j)
      PROVE  Cardinality(Ahead(hits, pts, i)) < Cardinality(Ahead(hits, pts, j))
  <2>1. i \in Ahead(hits, pts, j)
    BY <1>6 DEF Ahead
  <2>2. ASSUME NEW k \in hits, Before(pts, k, i) PROVE Before(pts, k, j)
    <3>1. i \in Nat /\ j \in Nat /\ k \in Nat /\ pts[i] \in Nat /\ pts[j] \in Nat /\ pts[k] \in Nat
      OBVIOUS
    <3> QED
      BY <1>6, <2>2, <3>1 DEF Before
  <2>3. Ahead(hits, pts, i) \subseteq Ahead(hits, pts, j)
    BY <2>2 DEF Ahead
  <2> QED
    BY <1>1, <1>4, <2>1, <2>3
<1> QED
  BY <1>1, <1>2, <1>5, <1>6

\* Each rank has its match, and each match its rank, in the order of the scores.
LEMMA Ranked ==
  ASSUME NEW hits, IsFiniteSet(hits), hits \subseteq Nat, NEW pts, \A i \in hits : pts[i] \in Nat,
         NEW c, c = Cardinality(hits)
  PROVE  /\ c \in Nat
         /\ \A r \in 1 .. c : \E i \in hits : RankedAt(hits, pts, r, i)
         /\ \A i \in hits : \E r \in 1 .. c : RankedAt(hits, pts, r, i)
         /\ \A i, j \in hits : \A r \in 1 .. c :
              RankedAt(hits, pts, r, i) /\ RankedAt(hits, pts, r, j) => i = j
         /\ \A i, j \in hits : \A r, q \in 1 .. c :
              RankedAt(hits, pts, r, i) /\ RankedAt(hits, pts, q, j) /\ r < q => pts[i] >= pts[j]
<1> DEFINE rank == [i \in hits |-> Cardinality(Ahead(hits, pts, i))]
<1>0. c \in Nat
  BY FS_CardinalityType
<1>1. ASSUME NEW i \in hits
      PROVE  rank[i] \in 0 .. c - 1 /\ rank[i] = Cardinality(Ahead(hits, pts, i))
  BY AheadLess
<1>2. rank \in [hits -> 0 .. c - 1]
  BY <1>1
<1>3. ASSUME NEW i \in hits, NEW j \in hits, Before(pts, i, j)
      PROVE  rank[i] < rank[j]
  BY <1>3, AheadLess
<1>4. ASSUME NEW i \in hits, NEW j \in hits
      PROVE  i = j \/ Before(pts, i, j) \/ Before(pts, j, i)
  <2>1. i \in Nat /\ j \in Nat /\ pts[i] \in Nat /\ pts[j] \in Nat
    OBVIOUS
  <2> QED
    BY <2>1 DEF Before
<1> HIDE DEF rank
<1>5. ASSUME NEW i \in hits, NEW j \in hits, rank[i] = rank[j]
      PROVE  i = j
  BY <1>1, <1>3, <1>4, <1>5
<1>6. ASSUME NEW i \in hits, NEW r \in 1 .. c
      PROVE  RankedAt(hits, pts, r, i) <=> rank[i] = r - 1
  BY <1>1 DEF RankedAt
<1>7. ASSUME NEW r \in 1 .. c
      PROVE  \E i \in hits : rank[i] = r - 1
  <2>1. PICK T : T = 0 .. c - 1
    OBVIOUS
  <2>2. IsFiniteSet(T) /\ Cardinality(T) = c
    BY <1>0, <2>1, FS_Interval
  <2>3. rank \in Injection(hits, T)
    BY <1>2, <1>5, <2>1 DEF Injection, IsInjective
  <2>4. rank \in Surjection(hits, T)
    BY <2>2, <2>3, FS_Injection
  <2>5. \A t \in T : \E i \in hits : rank[i] = t
    BY <2>4 DEF Surjection
  <2> QED
    BY <1>0, <2>1, <2>5
<1>8. ASSUME NEW i \in hits PROVE \E r \in 1 .. c : RankedAt(hits, pts, r, i)
  <2>1. rank[i] + 1 \in 1 .. c /\ rank[i] = (rank[i] + 1) - 1
    BY <1>0, <1>1
  <2>2. RankedAt(hits, pts, rank[i] + 1, i)
    BY <1>6, <2>1
  <2> QED
    BY <2>1, <2>2
<1>9. ASSUME NEW i \in hits, NEW j \in hits, NEW r \in 1 .. c, NEW q \in 1 .. c,
             RankedAt(hits, pts, r, i), RankedAt(hits, pts, q, j)
      PROVE  /\ r = q => i = j
             /\ r < q => pts[i] >= pts[j]
  <2>1. rank[i] = r - 1 /\ rank[j] = q - 1
    BY <1>6, <1>9
  <2>2. r = q => i = j
    BY <1>5, <2>1
  <2>3. ASSUME r < q PROVE pts[i] >= pts[j]
    <3>1. i # j /\ ~ Before(pts, j, i)
      <4>1. rank[i] < rank[j] /\ rank[i] \in Nat /\ rank[j] \in Nat
        BY <1>0, <1>1, <2>1, <2>3
      <4> QED
        BY <1>3, <4>1
    <3>2. Before(pts, i, j)
      BY <1>4, <3>1
    <3>3. pts[i] \in Nat /\ pts[j] \in Nat
      OBVIOUS
    <3> QED
      BY <3>2, <3>3 DEF Before
  <2> QED
    BY <2>2, <2>3
<1>10. \A r \in 1 .. c : \E i \in hits : RankedAt(hits, pts, r, i)
  BY <1>6, <1>7
<1>11. \A i, j \in hits : \A r \in 1 .. c :
         RankedAt(hits, pts, r, i) /\ RankedAt(hits, pts, r, j) => i = j
  BY <1>9
<1>12. \A i, j \in hits : \A r, q \in 1 .. c :
         RankedAt(hits, pts, r, i) /\ RankedAt(hits, pts, q, j) /\ r < q => pts[i] >= pts[j]
  BY <1>9
<1> QED
  BY <1>0, <1>8, <1>10, <1>11, <1>12

\* The parts of `filter`.
Hits(query, labels) == {i \in DOMAIN labels : Matches(query, labels[i])}

Points(query, labels) == [i \in DOMAIN labels |-> score(query, labels[i]).total]

AheadOf(query, labels, i) ==
  {k \in Hits(query, labels) :
     \/ score(query, labels[k]).total > score(query, labels[i]).total
     \/ score(query, labels[k]).total = score(query, labels[i]).total /\ k < i}

Choice(query, labels, r) ==
  CHOOSE i \in Hits(query, labels) : Cardinality(AheadOf(query, labels, i)) = r - 1

LEMMA FilterChooses ==
  ASSUME NEW query, NEW labels
  PROVE  filter(query, labels)
           = [r \in 1 .. Cardinality(Hits(query, labels)) |-> Choice(query, labels, r)]
BY Zenon DEF filter, Hits, AheadOf, Choice

\* The list the picker offers: each label that matches, best score first.
Offers(list, query, labels) ==
  /\ \A i : i \in DOMAIN labels /\ IsSubsequence(query, labels[i]) <=> \E r \in DOMAIN list : list[r] = i
  /\ \A r, q \in DOMAIN list :
       r < q => score(query, labels[list[r]]).total >= score(query, labels[list[q]]).total

\* It lists exactly the labels its query is a subsequence of.
LEMMA FilterIs ==
  ASSUME NEW A, NEW B, NEW query \in Seq(A), NEW n \in Nat, NEW labels \in [1 .. n -> Seq(B)]
  PROVE  /\ filter(query, labels) \in Seq(1 .. n)
         /\ Offers(filter(query, labels), query, labels)
<1> DEFINE hits == Hits(query, labels)
           pts  == Points(query, labels)
           list == filter(query, labels)
<1>0. DOMAIN labels = 1 .. n
  OBVIOUS
<1>1. ASSUME NEW i \in 1 .. n
      PROVE  /\ Matches(query, labels[i]) <=> IsSubsequence(query, labels[i])
             /\ pts[i] = score(query, labels[i]).total /\ pts[i] \in Nat
  <2>1. labels[i] \in Seq(B)
    OBVIOUS
  <2>2. pts[i] = score(query, labels[i]).total
    BY <1>0, Zenon DEF Points
  <2> QED
    BY <2>1, <2>2, MatchesAre, Zenon
<1>2. ASSUME NEW i PROVE i \in hits <=> i \in 1 .. n /\ IsSubsequence(query, labels[i])
  BY <1>0, <1>1, Zenon DEF Hits
<1>3. ASSUME NEW i \in hits PROVE i \in Nat /\ i \in 1 .. n
  BY <1>2
<1>4. IsFiniteSet(hits) /\ hits \subseteq Nat
  <2>1. IsFiniteSet(1 .. n)
    BY FS_Interval
  <2>2. hits \in SUBSET (1 .. n)
    BY <1>3
  <2>3. PICK T : T = 1 .. n
    OBVIOUS
  <2>4. IsFiniteSet(T) /\ hits \in SUBSET T
    BY <2>1, <2>2, <2>3
  <2> QED
    BY <1>3, <2>4, FS_Subset
<1>5. PICK c : c = Cardinality(hits)
  OBVIOUS
<1>6. ASSUME NEW i \in hits PROVE pts[i] \in Nat
  BY <1>1, <1>3
<1>7. ASSUME NEW i \in hits PROVE AheadOf(query, labels, i) = Ahead(hits, pts, i)
  <2>1. ASSUME NEW k \in hits
        PROVE  (\/ score(query, labels[k]).total > score(query, labels[i]).total
                \/ score(query, labels[k]).total = score(query, labels[i]).total /\ k < i)
               <=> Before(pts, k, i)
    BY <1>1, <1>3, Zenon DEF Before
  <2> QED
    BY <2>1, Zenon DEF AheadOf, Ahead
<1>8. ASSUME NEW i \in hits, NEW r
      PROVE  Cardinality(AheadOf(query, labels, i)) = r - 1 <=> RankedAt(hits, pts, r, i)
  BY <1>7, Zenon DEF RankedAt
<1>9. list = [r \in 1 .. c |-> Choice(query, labels, r)]
  BY <1>5, FilterChooses, Zenon
<1> HIDE DEF hits, pts, list
<1>10. /\ c \in Nat
       /\ \A r \in 1 .. c : \E i \in hits : RankedAt(hits, pts, r, i)
       /\ \A i \in hits : \E r \in 1 .. c : RankedAt(hits, pts, r, i)
       /\ \A i, j \in hits : \A r \in 1 .. c :
            RankedAt(hits, pts, r, i) /\ RankedAt(hits, pts, r, j) => i = j
       /\ \A i, j \in hits : \A r, q \in 1 .. c :
            RankedAt(hits, pts, r, i) /\ RankedAt(hits, pts, q, j) /\ r < q => pts[i] >= pts[j]
  BY <1>4, <1>5, <1>6, Ranked
<1>11. ASSUME NEW r \in 1 .. c
       PROVE  list[r] \in hits /\ RankedAt(hits, pts, r, list[r])
  <2>1. PICK i \in hits : RankedAt(hits, pts, r, i)
    BY <1>10
  <2>2. \E j \in hits : Cardinality(AheadOf(query, labels, j)) = r - 1
    BY <1>8, <2>1, Zenon
  <2>3. Choice(query, labels, r) \in hits
        /\ Cardinality(AheadOf(query, labels, Choice(query, labels, r))) = r - 1
    BY <2>2, Zenon DEF Choice, hits
  <2>4. list[r] = Choice(query, labels, r)
    BY <1>9, Zenon
  <2> QED
    BY <1>8, <2>3, <2>4, Zenon
<1>12. DOMAIN list = 1 .. c
  BY <1>9, Zenon
<1>13. list \in Seq(1 .. n)
  <2>1. list = [r \in 1 .. c |-> list[r]]
    BY <1>9, Zenon
  <2>2. \A r \in 1 .. c : list[r] \in 1 .. n
    BY <1>3, <1>11
  <2>3. list \in [1 .. c -> 1 .. n]
    BY <2>1, <2>2
  <2>4. PICK D : D = 1 .. n
    OBVIOUS
  <2>5. c \in Nat /\ list \in [1 .. c -> D]
    BY <1>10, <2>3, <2>4
  <2>6. list \in Seq(D)
    BY <2>5
  <2> QED
    BY <2>4, <2>6
<1>14. ASSUME NEW i
       PROVE  i \in DOMAIN labels /\ IsSubsequence(query, labels[i]) <=> \E r \in DOMAIN list : list[r] = i
  <2>1. ASSUME i \in hits PROVE \E r \in 1 .. c : list[r] = i
    <3>1. PICK r \in 1 .. c : RankedAt(hits, pts, r, i)
      BY <1>10, <2>1
    <3>2. list[r] = i
      BY <1>10, <1>11, <2>1, <3>1, Zenon
    <3> QED
      BY <3>2
  <2>2. ASSUME NEW r \in 1 .. c, list[r] = i PROVE i \in hits
    BY <1>11, <2>2
  <2> QED
    BY <1>0, <1>2, <1>12, <2>1, <2>2, Zenon
<1>15. ASSUME NEW r \in 1 .. c, NEW q \in 1 .. c, r < q
       PROVE  score(query, labels[list[r]]).total >= score(query, labels[list[q]]).total
  <2>1. pts[list[r]] >= pts[list[q]]
    BY <1>10, <1>11, <1>15, Zenon
  <2>2. pts[list[r]] = score(query, labels[list[r]]).total
        /\ pts[list[q]] = score(query, labels[list[q]]).total
    BY <1>1, <1>3, <1>11, Zenon
  <2> QED
    BY <2>1, <2>2, Zenon
<1>16. Offers(list, query, labels)
  BY <1>12, <1>14, <1>15, Zenon DEF Offers
<1> QED
  BY <1>13, <1>16, Zenon DEF list
=============================================================================
