------------------------------ MODULE LearnProofs ------------------------------
(***************************************************************************)
(* Proofs about what the user types and the parts that learn from it: the  *)
(* line editor, the two predictors, the corpus of drafts, the interaction  *)
(* log and the bigram model, and about the system of all parts.            *)
(***************************************************************************)
EXTENDS MCLearn, Lemmas

-----------------------------------------------------------------------------
(* The line editor keeps the line the user means, for every buffer size,   *)
(* history size and alphabet.                                              *)

Letters == Chars \union {NUL, "?"}
Lines == {s \in Seq(Chars) : Len(s) < HIST_LEN}

\* The first l cells of buffer b spell s.
Spells(b, l, s) ==
  /\ s \in Seq(Chars) /\ l \in 0..(CAP - 1) /\ Len(s) = l
  /\ \A k \in 1..l : b[k - 1] = s[k]

\* The line is what the user means while it is edited, and what was returned
\* is terminated in the buffer afterwards.
LInv ==
  /\ buf \in [Cells -> Letters]
  /\ len \in 0..(CAP - 1) /\ cur \in 0..len
  /\ submitted \in Seq(Seq(Chars)) /\ epc \in {"idle", "edit", "undefined"}
  /\ epc # "undefined" =>
       kept \in Seq(Lines) /\ history = Kept /\ hist_pos \in 0..Len(history)
  /\ epc = "edit" => Spells(buf, len, text) /\ pos = cur
  /\ epc = "idle" /\ submitted # <<>> =>
       LET s == Last(submitted) IN
       Spells(buf, Len(s), s) /\ buf[Len(s)] = NUL

-----------------------------------------------------------------------------
(* Buffers *)

LEMMA Sizes == CAP \in Nat /\ HIST_LEN \in Nat /\ HIST_LEN > 0 /\ HIST_LEN <= CAP /\ HIST_SLOTS \in Nat /\ HIST_SLOTS > 0
BY LineAssumption DEF LineAssumption

LEMMA CharsNotNul == NUL \notin Chars
BY LineAssumption DEF LineAssumption, NUL

LEMMA SpellsContents ==
  ASSUME NEW b, NEW l, NEW s, Spells(b, l, s)
  PROVE  Contents(b, l) = s
<1>1. l \in Nat /\ s \in [1..l -> Chars]
  BY Sizes DEF Spells
<1>2. \A k \in 1..l : b[k - 1] = s[k]
  BY DEF Spells
<1> QED
  BY <1>1, <1>2 DEF Contents

LEMMA SpellsEmpty ==
  ASSUME NEW b
  PROVE  Spells(b, 0, <<>>)
BY Sizes DEF Spells

\* strlen stops at the terminator behind the line.
LEMMA StrlenOfLine ==
  ASSUME NEW b, NEW s, Spells(b, Len(s), s), b[Len(s)] = NUL
  PROVE  strlen(b) = Len(s)
<1> DEFINE l == Len(s)
<1>1. l \in Nat /\ l \in Cells /\ s \in Seq(Chars) /\ \A k \in 1..l : b[k - 1] = s[k]
  BY Sizes DEF Spells, Cells
<1>2. ASSUME NEW j \in 0..(l - 1) PROVE b[j] # NUL
  <2>1. j + 1 \in 1..l /\ (j + 1) - 1 = j
    BY <1>1
  <2>2. b[j] = s[j + 1] /\ s[j + 1] \in Chars
    BY <1>1, <2>1
  <2> QED
    BY <2>2, CharsNotNul
<1> HIDE DEF l
<1>3. ASSUME NEW k \in Cells, b[k] = NUL, \A j \in 0..(k - 1) : b[j] # NUL PROVE k = l
  <2>1. k \in Nat /\ b[l] = NUL
    BY Sizes DEF Cells, l
  <2>2. ~ (k \in 0..(l - 1)) /\ ~ (l \in 0..(k - 1))
    BY <1>2, <1>3, <2>1
  <2> QED
    BY <1>1, <2>1, <2>2
<1>4. b[l] = NUL
  BY DEF l
<1>5. strlen(b) = l
  BY <1>1, <1>2, <1>3, <1>4 DEF strlen
<1> QED
  BY <1>5 DEF l

\* The moves of characters in the buffer.
LEMMA SpellsRemove ==
  ASSUME NEW b \in [Cells -> Letters], NEW l, NEW s, Spells(b, l, s), NEW c \in 0..(l - 1), NEW d,
         d = [k \in Cells |-> IF k \in c..(l - 2) THEN b[k + 1] ELSE b[k]]
  PROVE  d \in [Cells -> Letters] /\ Spells(d, l - 1, RemoveAt(s, c + 1))
<1> DEFINE r == RemoveAt(s, c + 1)
<1>1. l \in Nat /\ l <= CAP - 1 /\ l >= 1 /\ s \in Seq(Chars) /\ Len(s) = l /\ c \in Nat /\ c + 1 \in 1..l
  BY Sizes DEF Spells
<1>2. \A k \in 1..l : b[k - 1] = s[k]
  BY DEF Spells
<1>3. /\ r \in Seq(Chars) /\ Len(r) = l - 1
      /\ \A j \in 1..(l - 1) : r[j] = IF j < c + 1 THEN s[j] ELSE s[j + 1]
  BY <1>1, RemoveAtSpec
<1> HIDE DEF r
<1>4. \A k \in 0..(l - 1) : k \in Cells
  BY <1>1, Sizes DEF Cells
<1>5. d \in [Cells -> Letters]
  <2>1. ASSUME NEW k \in Cells PROVE (IF k \in c..(l - 2) THEN b[k + 1] ELSE b[k]) \in Letters
    <3>1. CASE k \in c..(l - 2)
      <4>1. k + 1 \in Cells
        BY <1>1, <1>4, <3>1
      <4> QED
        BY <3>1, <4>1
    <3>2. CASE k \notin c..(l - 2)
      BY <3>2
    <3> QED
      BY <3>1, <3>2
  <2> QED
    BY <2>1
<1>6. ASSUME NEW k \in 1..(l - 1) PROVE d[k - 1] = r[k]
  <2>1. k - 1 \in Cells /\ k \in 1..l /\ k + 1 \in 1..l /\ (k + 1) - 1 = k /\ (k - 1) + 1 = k
    BY <1>1, <1>4
  <2>2. d[k - 1] = IF k - 1 \in c..(l - 2) THEN b[k] ELSE b[k - 1]
    BY <2>1
  <2>3. b[k] = s[k + 1] /\ b[k - 1] = s[k]
    BY <1>2, <2>1
  <2>4. k - 1 \in c..(l - 2) <=> ~ (k < c + 1)
    BY <1>1
  <2> QED
    BY <1>3, <2>2, <2>3, <2>4
<1>7. l - 1 \in 0..(CAP - 1)
  BY <1>1, Sizes
<1>8. Spells(d, l - 1, r)
  BY <1>3, <1>6, <1>7 DEF Spells
<1> QED
  BY <1>5, <1>8 DEF r

\* Line q is s with ch inserted at place p.
Inserted(s, p, ch, q) ==
  /\ q \in Seq(Chars) /\ Len(q) = Len(s) + 1
  /\ (\A j \in 1..(p - 1) : q[j] = s[j]) /\ q[p] = ch
  /\ \A j \in p..Len(s) : q[j + 1] = s[j]

LEMMA CharInserted ==
  ASSUME NEW s \in Seq(Chars), NEW p \in 1..(Len(s) + 1), NEW ch \in Chars
  PROVE  Inserted(s, p, ch, InsertAt(s, p, ch))
<1> DEFINE q == InsertAt(s, p, ch)
<1>1. q \in Seq(Chars) /\ Len(q) = Len(s) + 1
  BY InsertAtSpec
<1>2. \A j \in 1..(p - 1) : q[j] = s[j]
  BY InsertAtSpec
<1>3. q[p] = ch
  BY InsertAtSpec
<1>4. \A j \in p..Len(s) : q[j + 1] = s[j]
  BY InsertAtSpec
<1> HIDE DEF q
<1>5. Inserted(s, p, ch, q)
  BY <1>1, <1>2, <1>3, <1>4 DEF Inserted
<1> QED
  BY <1>5 DEF q

LEMMA SpellsInsert ==
  ASSUME NEW b \in [Cells -> Letters], NEW l, NEW s, Spells(b, l, s), NEW c \in 0..l, l + 1 < CAP,
         NEW ch \in Chars, NEW d,
         d = [k \in Cells |-> IF k = c THEN ch
                              ELSE IF k \in (c + 1)..l THEN b[k - 1] ELSE b[k]]
  PROVE  d \in [Cells -> Letters] /\ Spells(d, l + 1, InsertAt(s, c + 1, ch))
<1> DEFINE r == InsertAt(s, c + 1, ch)
<1>1. l \in Nat /\ s \in Seq(Chars) /\ Len(s) = l /\ c \in Nat /\ c + 1 \in 1..(l + 1)
  BY Sizes DEF Spells
<1>2. \A k \in 1..l : b[k - 1] = s[k]
  BY DEF Spells
<1>3. /\ r \in Seq(Chars) /\ Len(r) = l + 1
      /\ \A j \in 1..c : r[j] = s[j]
      /\ r[c + 1] = ch
      /\ \A j \in (c + 1)..l : r[j + 1] = s[j]
  <2>1. (c + 1) - 1 = c
    BY <1>1
  <2>2. Inserted(s, c + 1, ch, r)
    BY <1>1, CharInserted
  <2> HIDE DEF r
  <2> QED
    BY <1>1, <2>1, <2>2 DEF Inserted
<1> HIDE DEF r
<1>4. \A k \in 0..l : k \in Cells
  BY <1>1, Sizes DEF Cells
<1>5. d \in [Cells -> Letters]
  <2>1. ASSUME NEW k \in Cells
        PROVE  (IF k = c THEN ch ELSE IF k \in (c + 1)..l THEN b[k - 1] ELSE b[k]) \in Letters
    <3>1. CASE k = c
      BY <3>1 DEF Letters
    <3>2. CASE k # c /\ k \in (c + 1)..l
      <4>1. k - 1 \in Cells
        BY <1>1, <1>4, <3>2
      <4> QED
        BY <3>2, <4>1
    <3>3. CASE k # c /\ k \notin (c + 1)..l
      BY <3>3
    <3> QED
      BY <3>1, <3>2, <3>3
  <2> QED
    BY <2>1
<1>6. ASSUME NEW k \in 1..(l + 1) PROVE d[k - 1] = r[k]
  <2>1. k - 1 \in Cells
    BY <1>1, <1>4
  <2>2. CASE k - 1 < c
    <3>1. k \in 1..l /\ k \in 1..c /\ k - 1 # c /\ k - 1 \notin (c + 1)..l
      BY <1>1, <2>2
    <3>2. d[k - 1] = b[k - 1]
      BY <2>1, <3>1
    <3> QED
      BY <1>2, <1>3, <3>1, <3>2
  <2>3. CASE k - 1 = c
    <3>1. k = c + 1
      BY <1>1, <2>3
    <3> QED
      BY <1>3, <2>1, <2>3, <3>1
  <2>4. CASE k - 1 > c
    <3>1. k - 1 \in (c + 1)..l /\ k - 1 # c /\ k - 1 \in 1..l /\ (k - 1) + 1 = k
      BY <1>1, <2>4
    <3>2. d[k - 1] = b[(k - 1) - 1]
      BY <2>1, <3>1
    <3>3. b[(k - 1) - 1] = s[k - 1] /\ r[(k - 1) + 1] = s[k - 1]
      BY <1>2, <1>3, <3>1
    <3> QED
      BY <3>1, <3>2, <3>3
  <2> QED
    BY <1>1, <2>2, <2>3, <2>4
<1>7. l + 1 \in 0..(CAP - 1)
  BY <1>1, Sizes
<1>8. Spells(d, l + 1, r)
  BY <1>3, <1>6, <1>7 DEF Spells
<1> QED
  BY <1>5, <1>8 DEF r

LEMMA SpellsCopied ==
  ASSUME NEW b \in [Cells -> Letters], NEW s \in Lines
  PROVE  strcpy(b, s) \in [Cells -> Letters] /\ Spells(strcpy(b, s), Len(s), s)
<1> DEFINE d == strcpy(b, s)
<1>1. s \in Seq(Chars) /\ Len(s) \in Nat /\ Len(s) < CAP
  BY Sizes DEF Lines
<1>2. ASSUME NEW k \in Cells
      PROVE  (IF k < Len(s) THEN s[k + 1] ELSE IF k = Len(s) THEN NUL ELSE b[k]) \in Letters
  <2>1. CASE k < Len(s)
    <3>1. k + 1 \in 1..Len(s)
      BY <1>1, <2>1, Sizes DEF Cells
    <3> QED
      BY <1>1, <2>1, <3>1 DEF Letters
  <2>2. CASE ~ (k < Len(s))
    BY <2>2 DEF Letters
  <2> QED
    BY <2>1, <2>2
<1>3. d \in [Cells -> Letters]
  BY <1>2 DEF strcpy
<1>4. ASSUME NEW k \in 1..Len(s) PROVE d[k - 1] = s[k]
  <2>1. k - 1 \in Cells /\ k - 1 < Len(s) /\ (k - 1) + 1 = k
    BY <1>1, Sizes DEF Cells
  <2> QED
    BY <2>1 DEF strcpy
<1> HIDE DEF d
<1>5. Len(s) \in 0..(CAP - 1)
  BY <1>1, Sizes
<1>6. Spells(d, Len(s), s)
  BY <1>1, <1>4, <1>5 DEF Spells
<1> QED
  BY <1>3, <1>6 DEF d


-----------------------------------------------------------------------------
(* The history *)

\* How many of the lines worth keeping no longer have a slot.
Gone(k) == IF Len(k) <= HIST_SLOTS THEN 0 ELSE Len(k) - HIST_SLOTS

\* h is the lines k without the ones that are gone.
Remaining(k, h) ==
  /\ h \in Seq(Lines) /\ Len(h) = Len(k) - Gone(k)
  /\ \A i \in 1..Len(h) : h[i] = k[Gone(k) + i]

LEMMA NewestRemain ==
  ASSUME NEW k \in Seq(Lines)
  PROVE  Remaining(k, Newest(k))
<1> DEFINE g == Gone(k)
           h == SubSeq(k, g + 1, Len(k))
<1>1. g \in Nat /\ Len(k) \in Nat /\ g <= Len(k)
  BY Sizes DEF Gone
<1>2. Max({1, Len(k) - HIST_SLOTS + 1}) = g + 1
  BY Sizes, <1>1 DEF Gone, Max
<1>3. Newest(k) = h
  BY <1>2 DEF Newest
<1> HIDE DEF g
<1>4. h \in Seq(Lines) /\ Len(h) = Len(k) - g
  BY <1>1
<1>5. ASSUME NEW i \in 1..(Len(k) - g) PROVE h[i] = k[g + i]
  BY <1>1
<1> HIDE DEF h
<1>6. \A i \in 1..Len(h) : h[i] = k[g + i]
  BY <1>4, <1>5
<1>7. Remaining(k, h)
  BY <1>4, <1>6 DEF Remaining, g
<1> QED
  BY <1>3, <1>7

LEMMA RemainingUnique ==
  ASSUME NEW k, NEW h, NEW q, Remaining(k, h), Remaining(k, q)
  PROVE  h = q
<1>1. h \in Seq(Lines) /\ q \in Seq(Lines) /\ Len(h) = Len(q)
  BY DEF Remaining
<1>2. \A i \in 1..Len(h) : h[i] = q[i]
  BY DEF Remaining
<1> QED
  BY <1>1, <1>2, SeqEqual

\* Appending a line to the history, with or without shifting it.
LEMMA HistoryGrows ==
  ASSUME NEW k \in Seq(Lines), NEW h, Remaining(k, h), NEW s \in Lines
  PROVE  Remaining(Append(k, s), Append(IF Len(h) >= HIST_SLOTS THEN Tail(h) ELSE h, s))
<1> DEFINE g == Gone(k)
           k2 == Append(k, s)
           m == IF Len(h) >= HIST_SLOTS THEN Tail(h) ELSE h
           q == Append(m, s)
           g2 == Gone(k2)
<1>1. g \in Nat /\ Len(k) \in Nat /\ g <= Len(k) /\ h \in Seq(Lines) /\ Len(h) = Len(k) - g
  BY Sizes DEF Gone, Remaining
<1>2. \A i \in 1..Len(h) : h[i] = k[g + i]
  BY DEF Remaining
<1>3. k2 \in Seq(Lines) /\ Len(k2) = Len(k) + 1 /\ k2[Len(k) + 1] = s
  BY <1>1
<1>4. \A i \in 1..Len(k) : k2[i] = k[i]
  BY <1>1
<1> HIDE DEF k2
<1>5. CASE Len(h) < HIST_SLOTS
  <2>1. m = h /\ q = Append(h, s) /\ g = 0 /\ g2 = 0 /\ Len(h) = Len(k)
    BY <1>1, <1>3, <1>5, Sizes DEF Gone
  <2> HIDE DEF q, m, g, g2
  <2>2. q \in Seq(Lines) /\ Len(q) = Len(k) + 1
    BY <1>1, <2>1
  <2>3. ASSUME NEW i \in 1..(Len(k) + 1) PROVE q[i] = k2[g2 + i]
    <3>1. CASE i <= Len(k)
      <4>1. i \in 1..Len(h) /\ i \in 1..Len(k) /\ g + i = i /\ g2 + i = i
        BY <1>1, <2>1, <3>1
      <4>2. q[i] = h[i]
        BY <1>1, <2>1, <4>1
      <4> QED
        BY <1>2, <1>4, <4>1, <4>2
    <3>2. CASE i = Len(k) + 1
      <4>1. q[i] = s /\ g2 + i = i
        BY <1>1, <2>1, <3>2
      <4> QED
        BY <1>3, <3>2, <4>1
    <3> QED
      BY <1>1, <3>1, <3>2
  <2>4. Len(q) = Len(k2) - g2 /\ \A i \in 1..Len(q) : q[i] = k2[g2 + i]
    BY <1>1, <1>3, <2>1, <2>2, <2>3
  <2> QED
    BY <2>2, <2>4 DEF Remaining, g2, q, k2, m
<1>6. CASE Len(h) >= HIST_SLOTS
  <2>1. m = Tail(h) /\ g2 = g + 1 /\ Len(h) >= 1 /\ Len(h) \in Nat /\ g + Len(h) = Len(k)
    BY <1>1, <1>3, <1>6, Sizes DEF Gone
  <2>2. m \in Seq(Lines) /\ Len(m) = Len(h) - 1 /\ \A i \in 1..(Len(h) - 1) : m[i] = h[i + 1]
    BY <1>1, <2>1
  <2> HIDE DEF m, g, g2
  <2>3. /\ q \in Seq(Lines) /\ Len(q) = Len(h) /\ q[Len(h)] = s
        /\ \A i \in 1..(Len(h) - 1) : q[i] = m[i]
    BY <2>1, <2>2
  <2>4. ASSUME NEW i \in 1..Len(h) PROVE q[i] = k2[g2 + i]
    <3>1. CASE i < Len(h)
      <4>1. i \in 1..(Len(h) - 1) /\ i + 1 \in 1..Len(h) /\ g2 + i = g + (i + 1) /\ g + (i + 1) \in 1..Len(k)
        BY <1>1, <2>1, <3>1
      <4>2. q[i] = h[i + 1]
        BY <2>2, <2>3, <4>1
      <4> QED
        BY <1>2, <1>4, <4>1, <4>2
    <3>2. CASE i = Len(h)
      <4>1. g2 + i = Len(k) + 1
        BY <1>1, <2>1, <3>2
      <4> QED
        BY <1>3, <2>3, <3>2, <4>1
    <3> QED
      BY <2>1, <3>1, <3>2
  <2> HIDE DEF q
  <2>5. Len(q) = Len(k2) - g2
    BY <1>1, <1>3, <2>1, <2>3
  <2>6. \A i \in 1..Len(q) : q[i] = k2[g2 + i]
    BY <2>3, <2>4
  <2> QED
    BY <2>3, <2>5, <2>6 DEF Remaining, g2, q, k2, m
<1> QED
  BY <1>1, <1>5, <1>6, Sizes

\* hist_add keeps the newest of the lines worth keeping.
LEMMA HistAddKeeps ==
  ASSUME NEW k \in Seq(Lines), NEW s \in Lines
  PROVE  Keep(k, s) \in Seq(Lines) /\ hist_add(Newest(k), s) = Newest(Keep(k, s))
<1> DEFINE h == Newest(k)
<1>1. Remaining(k, h)
  BY NewestRemain
<1> HIDE DEF h
<1>2. h \in Seq(Lines) /\ Len(k) \in Nat /\ Len(h) = Len(k) - Gone(k) /\ \A i \in 1..Len(h) : h[i] = k[Gone(k) + i]
  BY <1>1 DEF Remaining
<1>3. Gone(k) \in Nat /\ Gone(k) <= Len(k) /\ (Gone(k) = Len(k) <=> Len(k) = 0)
  BY <1>2, Sizes DEF Gone
<1>4. h = <<>> <=> k = <<>>
  BY <1>2, <1>3
<1>5. ASSUME h # <<>> PROVE Last(h) = Last(k)
  <2>1. Len(h) \in 1..Len(h) /\ Gone(k) + Len(h) = Len(k)
    BY <1>2, <1>3, <1>5
  <2> QED
    BY <1>2, <2>1 DEF Last
<1>6. CASE s = <<>> \/ (k # <<>> /\ Last(k) = s)
  BY <1>4, <1>5, <1>6 DEF hist_add, Keep, h
<1>7. CASE ~ (s = <<>> \/ (k # <<>> /\ Last(k) = s))
  <2> DEFINE q == Append(IF Len(h) >= HIST_SLOTS THEN Tail(h) ELSE h, s)
  <2>1. Keep(k, s) = Append(k, s) /\ hist_add(h, s) = q
    BY <1>4, <1>5, <1>7 DEF hist_add, Keep
  <2>2. Remaining(Append(k, s), q)
    BY <1>1, HistoryGrows
  <2>3. Append(k, s) \in Seq(Lines)
    OBVIOUS
  <2>4. Remaining(Append(k, s), Newest(Append(k, s)))
    BY <2>3, NewestRemain
  <2> HIDE DEF q
  <2>5. q = Newest(Append(k, s))
    BY <2>2, <2>4, RemainingUnique
  <2> QED
    BY <2>1, <2>3, <2>5 DEF h
<1> QED
  BY <1>6, <1>7


-----------------------------------------------------------------------------
(* The actions *)

LEMMA LineInitInv == LineInit => LInv
<1> SUFFICES ASSUME LineInit PROVE LInv
  OBVIOUS
<1>1. buf \in [Cells -> Letters]
  BY DEF LineInit, Letters
<1>2. len \in 0..(CAP - 1) /\ cur \in 0..len
  BY Sizes DEF LineInit
<1>3. kept \in Seq(Lines) /\ submitted \in Seq(Seq(Chars)) /\ epc = "idle" /\ submitted = <<>>
  BY DEF LineInit
<1>4. Remaining(kept, Newest(kept)) /\ kept = <<>>
  BY <1>3, NewestRemain DEF LineInit
<1>5. Kept = <<>>
  BY <1>4, Sizes DEF Kept, Remaining, Gone
<1>6. history = Kept /\ hist_pos \in 0..Len(history)
  BY <1>5 DEF LineInit
<1> QED
  BY <1>1, <1>2, <1>3, <1>6 DEF LInv

\* What the invariant says while a line is edited.
LEMMA WhileEditing ==
  ASSUME LInv, epc = "edit"
  PROVE  /\ buf \in [Cells -> Letters] /\ len \in 0..(CAP - 1) /\ cur \in 0..len
         /\ kept \in Seq(Lines) /\ submitted \in Seq(Seq(Chars))
         /\ history = Kept /\ hist_pos \in 0..Len(history)
         /\ history \in Seq(Lines) /\ Len(history) \in Nat
         /\ Spells(buf, len, text) /\ pos = cur
<1>1. kept \in Seq(Lines) /\ history = Kept
  BY DEF LInv
<1>2. Remaining(kept, history)
  BY <1>1, NewestRemain DEF Kept
<1>3. history \in Seq(Lines)
  BY <1>2 DEF Remaining
<1> QED
  BY <1>1, <1>3 DEF LInv

\* A key that edits the line: it is enough that the new buffer spells the
\* line the user means now, with the cursor where he means it.
LEMMA KeyKeeps ==
  ASSUME LInv, Editing,
         buf' \in [Cells -> Letters], cur' \in 0..len', Spells(buf', len', text'), pos' = cur',
         hist_pos' \in 0..Len(history)
  PROVE  LInv'
<1>1. epc = "edit" /\ UNCHANGED <<epc, history, submitted, kept>>
  BY DEF Editing
<1>2. /\ kept \in Seq(Lines) /\ submitted \in Seq(Seq(Chars)) /\ history = Kept
  BY <1>1, WhileEditing
<1>3. len' \in 0..(CAP - 1)
  BY DEF Spells
<1>4. Kept' = Kept
  BY <1>1 DEF Kept, Newest
<1> QED
  BY <1>1, <1>2, <1>3, <1>4 DEF LInv

LEMMA StartLineKeeps == LInv /\ StartLine => LInv'
<1> SUFFICES ASSUME LInv, StartLine PROVE LInv'
  OBVIOUS
<1>1. /\ buf' = buf /\ len' = 0 /\ cur' = 0 /\ epc = "idle" /\ epc' = "edit"
      /\ UNCHANGED <<history, submitted, kept>> /\ text' = <<>> /\ pos' = 0
      /\ hist_pos' = Len(history)
  BY DEF StartLine, line_redraw, Means, hist_count
<1>2. /\ buf \in [Cells -> Letters] /\ submitted \in Seq(Seq(Chars))
      /\ kept \in Seq(Lines) /\ history = Kept
  BY <1>1 DEF LInv
<1>3. Remaining(kept, history)
  BY <1>2, NewestRemain DEF Kept
<1>4. Len(history) \in Nat
  BY <1>3 DEF Remaining
<1>5. Kept' = Kept
  BY <1>1 DEF Kept, Newest
<1>6. Spells(buf', 0, text')
  BY <1>1, SpellsEmpty
<1>7. hist_pos' \in 0..Len(history') /\ 0 \in 0..(CAP - 1) /\ 0 \in 0..0
  BY <1>1, <1>4, Sizes
<1> QED
  BY <1>1, <1>2, <1>5, <1>6, <1>7 DEF LInv

LEMMA BackspaceKeeps == LInv /\ Backspace => LInv'
<1> SUFFICES ASSUME LInv, Backspace PROVE LInv'
  OBVIOUS
<1> DEFINE d == [k \in Cells |-> IF k \in (cur - 1)..(len - 2) THEN buf[k + 1] ELSE buf[k]]
<1>1. /\ Editing /\ epc = "edit" /\ cur > 0 /\ hist_pos' = Len(history)
      /\ buf' = d /\ len' = len - 1 /\ cur' = cur - 1
      /\ text' = RemoveAt(text, pos) /\ pos' = pos - 1
  BY DEF Backspace, Editing, line_redraw, Means, hist_count
<1>2. /\ buf \in [Cells -> Letters] /\ len \in 0..(CAP - 1) /\ cur \in 0..len
      /\ Len(history) \in Nat /\ Spells(buf, len, text) /\ pos = cur
  BY <1>1, WhileEditing
<1>3. len \in Nat /\ cur \in Nat /\ cur - 1 \in 0..(len - 1) /\ (cur - 1) + 1 = cur
  BY <1>1, <1>2, Sizes
<1>4. d \in [Cells -> Letters] /\ Spells(d, len - 1, RemoveAt(text, cur))
  <2> DEFINE c == cur - 1
  <2>1. c \in 0..(len - 1) /\ c + 1 = cur
    BY <1>3
  <2>2. d = [k \in Cells |-> IF k \in c..(len - 2) THEN buf[k + 1] ELSE buf[k]]
    OBVIOUS
  <2> HIDE DEF c, d
  <2>3. d \in [Cells -> Letters] /\ Spells(d, len - 1, RemoveAt(text, c + 1))
    BY <1>2, <2>1, <2>2, SpellsRemove
  <2> QED
    BY <2>1, <2>3
<1> HIDE DEF d
<1>5. cur' \in 0..len' /\ hist_pos' \in 0..Len(history) /\ pos' = cur'
  BY <1>1, <1>2, <1>3
<1> QED
  BY <1>1, <1>2, <1>4, <1>5, KeyKeeps

LEMMA DeleteKeeps == LInv /\ Delete => LInv'
<1> SUFFICES ASSUME LInv, Delete PROVE LInv'
  OBVIOUS
<1> DEFINE d == [k \in Cells |-> IF k \in cur..(len - 2) THEN buf[k + 1] ELSE buf[k]]
<1>1. /\ Editing /\ epc = "edit" /\ cur < len /\ hist_pos' = Len(history)
      /\ buf' = d /\ len' = len - 1 /\ cur' = cur
      /\ text' = RemoveAt(text, pos + 1) /\ pos' = pos
  BY DEF Delete, Editing, line_redraw, Means, hist_count
<1>2. /\ buf \in [Cells -> Letters] /\ len \in 0..(CAP - 1) /\ cur \in 0..len
      /\ Len(history) \in Nat /\ Spells(buf, len, text) /\ pos = cur
  BY <1>1, WhileEditing
<1>3. len \in Nat /\ cur \in Nat /\ cur \in 0..(len - 1)
  BY <1>1, <1>2, Sizes
<1>4. d \in [Cells -> Letters] /\ Spells(d, len - 1, RemoveAt(text, cur + 1))
  BY <1>2, <1>3, SpellsRemove
<1> HIDE DEF d
<1>5. cur' \in 0..len' /\ hist_pos' \in 0..Len(history) /\ pos' = cur'
  BY <1>1, <1>2, <1>3
<1> QED
  BY <1>1, <1>2, <1>4, <1>5, KeyKeeps

LEMMA TypeKeeps == ASSUME LInv, NEW ch \in Chars, Type(ch) PROVE LInv'
<1> DEFINE d == [k \in Cells |-> IF k = cur THEN ch
                                 ELSE IF k \in (cur + 1)..len THEN buf[k - 1] ELSE buf[k]]
<1>1. /\ Editing /\ epc = "edit" /\ len + 1 < CAP /\ hist_pos' = Len(history)
      /\ buf' = d /\ len' = len + 1 /\ cur' = cur + 1
      /\ text' = InsertAt(text, pos + 1, ch) /\ pos' = pos + 1
  BY DEF Type, Editing, line_redraw, Means, hist_count
<1>2. /\ buf \in [Cells -> Letters] /\ len \in 0..(CAP - 1) /\ cur \in 0..len
      /\ Len(history) \in Nat /\ Spells(buf, len, text) /\ pos = cur
  BY <1>1, WhileEditing
<1>3. len \in Nat /\ cur \in Nat
  BY <1>2, Sizes
<1>4. d \in [Cells -> Letters] /\ Spells(d, len + 1, InsertAt(text, cur + 1, ch))
  BY <1>1, <1>2, <1>3, SpellsInsert
<1> HIDE DEF d
<1>5. cur' \in 0..len' /\ hist_pos' \in 0..Len(history) /\ pos' = cur'
  BY <1>1, <1>2, <1>3
<1> QED
  BY <1>1, <1>2, <1>4, <1>5, KeyKeeps

LEMMA MoveKeeps == ASSUME LInv, NEW c, NEW p, MoveTo(c, p), c \in 0..len, p = c PROVE LInv'
<1>1. /\ Editing /\ epc = "edit" /\ hist_pos' = hist_pos
      /\ buf' = buf /\ len' = len /\ cur' = c /\ text' = text /\ pos' = p
  BY DEF MoveTo, Editing, line_redraw, Means
<1>2. /\ buf \in [Cells -> Letters] /\ hist_pos \in 0..Len(history) /\ Spells(buf, len, text)
  BY <1>1, WhileEditing
<1> QED
  BY <1>1, <1>2, KeyKeeps

LEMMA RecallKeeps ==
  ASSUME LInv, Editing, NEW s \in Lines, Recall(s), hist_pos' \in 0..Len(history)
  PROVE  LInv'
<1>1. epc = "edit"
  BY DEF Editing
<1>2. buf \in [Cells -> Letters]
  BY <1>1, WhileEditing
<1>3. /\ buf' = strcpy(buf, s) /\ len' = Len(s) /\ cur' = Len(s) /\ text' = s /\ pos' = Len(s)
  BY DEF Recall, line_redraw, Means
<1>4. strcpy(buf, s) \in [Cells -> Letters] /\ Spells(strcpy(buf, s), Len(s), s)
  BY <1>2, SpellsCopied
<1>5. Len(s) \in Nat
  BY DEF Lines
<1> QED
  BY <1>3, <1>4, <1>5, KeyKeeps

LEMMA UpKeeps == LInv /\ Up => LInv'
<1> SUFFICES ASSUME LInv, Up PROVE LInv'
  OBVIOUS
<1>1. Editing /\ epc = "edit" /\ hist_pos > 0 /\ hist_pos' = hist_pos - 1 /\ Recall(history[hist_pos])
  BY DEF Up, Editing
<1>2. hist_pos \in 0..Len(history) /\ history \in Seq(Lines) /\ Len(history) \in Nat
  BY <1>1, WhileEditing
<1>3. history[hist_pos] \in Lines /\ hist_pos' \in 0..Len(history)
  BY <1>1, <1>2
<1> QED
  BY <1>1, <1>3, RecallKeeps

LEMMA DownKeeps == LInv /\ Down => LInv'
<1> SUFFICES ASSUME LInv, Down PROVE LInv'
  OBVIOUS
<1>1. Editing /\ epc = "edit" /\ hist_pos < Len(history) /\ hist_pos' = hist_pos + 1
  BY DEF Down, Editing, hist_count
<1>2. hist_pos \in 0..Len(history) /\ history \in Seq(Lines) /\ Len(history) \in Nat /\ buf \in [Cells -> Letters]
  BY <1>1, WhileEditing
<1>3. hist_pos' \in 0..Len(history)
  BY <1>1, <1>2
<1>4. CASE hist_pos + 1 < Len(history)
  <2>1. Recall(history[hist_pos + 2])
    BY <1>4 DEF Down, hist_count
  <2>2. history[hist_pos + 2] \in Lines
    BY <1>2, <1>4
  <2> QED
    BY <1>1, <1>3, <2>1, <2>2, RecallKeeps
<1>5. CASE ~ (hist_pos + 1 < Len(history))
  <2>1. buf' = buf /\ len' = 0 /\ cur' = 0 /\ text' = <<>> /\ pos' = 0
    BY <1>5 DEF Down, hist_count, line_redraw, Means
  <2>2. Spells(buf', len', text') /\ cur' \in 0..len'
    BY <2>1, SpellsEmpty
  <2> QED
    BY <1>1, <1>2, <1>3, <2>1, <2>2, KeyKeeps
<1> QED
  BY <1>4, <1>5


\* The history never gets shorter, and never longer than its slots.
LEMMA HistoryLength ==
  ASSUME NEW k \in Seq(Lines), NEW s \in Lines
  PROVE  /\ Len(Newest(k)) \in Nat /\ Len(Newest(k)) <= HIST_SLOTS
         /\ Len(Newest(Keep(k, s))) \in Nat /\ Len(Newest(k)) <= Len(Newest(Keep(k, s)))
<1> DEFINE q == Keep(k, s)
<1>1. q \in Seq(Lines) /\ Len(k) \in Nat /\ Len(q) \in Nat /\ Len(k) <= Len(q)
  BY DEF Keep
<1>2. Remaining(k, Newest(k)) /\ Remaining(q, Newest(q))
  BY <1>1, NewestRemain
<1> HIDE DEF q
<1>3. Len(Newest(k)) = Len(k) - Gone(k) /\ Len(Newest(q)) = Len(q) - Gone(q)
  BY <1>2 DEF Remaining
<1>4. /\ Len(Newest(k)) \in Nat /\ Len(Newest(k)) <= HIST_SLOTS
      /\ Len(Newest(q)) \in Nat /\ Len(Newest(k)) <= Len(Newest(q))
  BY <1>1, <1>3, Sizes DEF Gone
<1> QED
  BY <1>4 DEF q

\* The terminator behind the line.
LEMMA SpellsTerminated ==
  ASSUME NEW b \in [Cells -> Letters], NEW l, NEW s, Spells(b, l, s), NEW d, d = [b EXCEPT ![l] = NUL]
  PROVE  d \in [Cells -> Letters] /\ Spells(d, l, s) /\ d[l] = NUL
<1>1. l \in Nat /\ l \in Cells /\ s \in Seq(Chars) /\ Len(s) = l
  BY Sizes DEF Spells, Cells
<1>2. d \in [Cells -> Letters] /\ d[l] = NUL
  BY <1>1 DEF Letters
<1>3. ASSUME NEW k \in 1..l PROVE d[k - 1] = s[k]
  <2>1. k - 1 \in Cells /\ k - 1 # l
    BY <1>1, Sizes DEF Cells
  <2>2. b[k - 1] = s[k]
    BY DEF Spells
  <2> QED
    BY <2>1, <2>2
<1>4. Spells(d, l, s)
  BY <1>1, <1>3 DEF Spells
<1> QED
  BY <1>2, <1>4

LEMMA LastOfAppend ==
  ASSUME NEW S, NEW q \in Seq(S), NEW s \in S
  PROVE  Append(q, s) \in Seq(S) /\ Append(q, s) # <<>> /\ Last(Append(q, s)) = s
BY DEF Last

LEMMA EnterKeeps == LInv /\ Enter => LInv'
<1> SUFFICES ASSUME LInv, Enter PROVE LInv'
  OBVIOUS
<1>1. /\ epc = "edit" /\ buf' = [buf EXCEPT ![len] = NUL]
      /\ submitted' = Append(submitted, text) /\ kept' = Keep(kept, text)
      /\ UNCHANGED <<len, cur, hist_pos, text, pos>>
  BY DEF Enter
<1>2. /\ buf \in [Cells -> Letters] /\ len \in 0..(CAP - 1) /\ cur \in 0..len
      /\ kept \in Seq(Lines) /\ submitted \in Seq(Seq(Chars))
      /\ history = Kept /\ hist_pos \in 0..Len(history)
      /\ Spells(buf, len, text)
  BY <1>1, WhileEditing
<1>3. buf' \in [Cells -> Letters] /\ Spells(buf', len, text) /\ buf'[len] = NUL
  BY <1>1, <1>2, SpellsTerminated
<1>4. text \in Seq(Chars) /\ Len(text) = len /\ len \in Nat
  BY <1>2, Sizes DEF Spells
<1>5. submitted' \in Seq(Seq(Chars)) /\ submitted' # <<>> /\ Last(submitted') = text
  BY <1>1, <1>2, <1>4, LastOfAppend
<1>6. CASE len < HIST_LEN
  <2>1. epc' = "idle" /\ history' = hist_add(history, Contents(buf, len))
    BY <1>6 DEF Enter
  <2>2. text \in Lines
    BY <1>4, <1>6 DEF Lines
  <2>3. Contents(buf, len) = text
    BY <1>2, SpellsContents
  <2>4. kept' \in Seq(Lines) /\ history' = Newest(kept')
    BY <1>1, <1>2, <2>1, <2>2, <2>3, HistAddKeeps DEF Kept
  <2>5. hist_pos' \in 0..Len(history')
    <3>1. Len(history) \in Nat /\ Len(history') \in Nat /\ Len(history) <= Len(history')
      BY <1>1, <1>2, <2>2, <2>4, HistoryLength DEF Kept
    <3> QED
      BY <1>1, <1>2, <3>1
  <2>6. Kept' = Newest(kept')
    BY DEF Kept, Newest
  <2> QED
    BY <1>1, <1>2, <1>3, <1>4, <1>5, <2>1, <2>4, <2>5, <2>6 DEF LInv
<1>7. CASE ~ (len < HIST_LEN)
  <2>1. epc' = "undefined"
    BY <1>7 DEF Enter
  <2> QED
    BY <1>1, <1>2, <1>3, <1>5, <2>1 DEF LInv
<1> QED
  BY <1>6, <1>7

LEMMA CancelKeeps == LInv /\ Cancel => LInv'
<1> SUFFICES ASSUME LInv, Cancel PROVE LInv'
  OBVIOUS
<1>1. /\ epc = "edit" /\ epc' = "idle" /\ len' = 0 /\ cur' = 0 /\ buf' = [buf EXCEPT ![0] = NUL]
      /\ hist_pos' = Len(history) /\ submitted' = Append(submitted, <<>>)
      /\ UNCHANGED <<history, kept>>
  BY DEF Cancel, hist_count
<1>2. /\ buf \in [Cells -> Letters] /\ kept \in Seq(Lines) /\ submitted \in Seq(Seq(Chars))
      /\ history = Kept /\ Len(history) \in Nat
  BY <1>1, WhileEditing
<1>3. buf' \in [Cells -> Letters] /\ Spells(buf', 0, <<>>) /\ buf'[0] = NUL
  BY <1>1, <1>2, SpellsEmpty, SpellsTerminated
<1>4. <<>> \in Seq(Chars) /\ Len(<<>>) = 0
  OBVIOUS
<1>5. submitted' \in Seq(Seq(Chars)) /\ Last(submitted') = <<>>
  BY <1>1, <1>2, <1>4, LastOfAppend
<1>6. Kept' = Kept
  BY <1>1 DEF Kept, Newest
<1>7. hist_pos' \in 0..Len(history') /\ 0 \in 0..(CAP - 1) /\ 0 \in 0..0
  BY <1>1, <1>2, Sizes
<1> QED
  BY <1>1, <1>2, <1>3, <1>4, <1>5, <1>6, <1>7 DEF LInv

LEMMA LineNextInv == LInv /\ [LineNext]_lineVars => LInv'
<1> SUFFICES ASSUME LInv, [LineNext]_lineVars PROVE LInv'
  OBVIOUS
<1>1. CASE StartLine \/ Enter \/ Cancel
  BY <1>1, StartLineKeeps, EnterKeeps, CancelKeeps
<1>2. CASE Backspace \/ Delete \/ Up \/ Down
  BY <1>2, BackspaceKeeps, DeleteKeeps, UpKeeps, DownKeeps
<1>3. ASSUME NEW ch \in Chars, Type(ch) PROVE LInv'
  BY <1>3, TypeKeeps
<1>4. CASE Left \/ Right \/ Home \/ EndKey
  <2>1. epc = "edit"
    BY <1>4 DEF Left, Right, Home, EndKey, MoveTo, Editing
  <2>2. pos = cur /\ cur \in 0..len /\ len \in 0..(CAP - 1) /\ Spells(buf, len, text)
    BY <2>1, WhileEditing
  <2>3. Len(text) = len /\ len \in Nat /\ cur \in Nat
    BY <2>2, Sizes DEF Spells
  <2>4. CASE Left
    BY <2>2, <2>3, <2>4, MoveKeeps DEF Left
  <2>5. CASE Right
    BY <2>2, <2>3, <2>5, MoveKeeps DEF Right
  <2>6. CASE Home
    BY <2>2, <2>3, <2>6, MoveKeeps DEF Home
  <2>7. CASE EndKey
    BY <2>2, <2>3, <2>7, MoveKeeps DEF EndKey
  <2> QED
    BY <1>4, <2>4, <2>5, <2>6, <2>7
<1>5. CASE UNCHANGED lineVars
  <2>1. UNCHANGED <<buf, len, cur, history, hist_pos, epc, text, pos, submitted, kept>>
    BY <1>5 DEF lineVars
  <2>2. Kept' = Kept
    BY <2>1 DEF Kept, Newest
  <2> QED
    BY <2>1, <2>2 DEF LInv, Spells
<1> QED
  BY <1>1, <1>2, <1>3, <1>4, <1>5 DEF LineNext

-----------------------------------------------------------------------------
(* Sizes *)

LEMMA NewestBounded ==
  ASSUME NEW k \in Seq(Lines)
  PROVE  Len(Newest(k)) <= HIST_SLOTS
<1>1. <<>> \in Lines
  BY Sizes DEF Lines
<1> QED
  BY <1>1, HistoryLength

\* A line too long for a slot leaves the history as it was.
LEMMA UndefinedLeavesHistory ==
  ASSUME LInv, [LineNext]_lineVars, epc' = "undefined"
  PROVE  UNCHANGED <<history, hist_pos>>
<1>1. CASE Enter
  BY <1>1 DEF Enter
<1>2. CASE StartLine \/ Cancel
  BY <1>2 DEF StartLine, Cancel
<1>3. ASSUME Editing PROVE FALSE
  BY <1>3 DEF Editing
<1>4. Backspace \/ Delete \/ Up \/ Down => Editing
  BY DEF Backspace, Delete, Up, Down
<1>5. Left \/ Right \/ Home \/ EndKey => Editing
  BY DEF Left, Right, Home, EndKey, MoveTo
<1>6. ASSUME NEW ch \in Chars, Type(ch) PROVE FALSE
  BY <1>3, <1>6 DEF Type
<1>7. CASE UNCHANGED lineVars
  BY <1>7 DEF lineVars
<1> QED
  BY <1>1, <1>2, <1>3, <1>4, <1>5, <1>6, <1>7 DEF LineNext

LEMMA LineSizesInit == LineInit => LineTypeOK
BY Sizes DEF LineInit, LineTypeOK, hist_count

LEMMA LineSizesNext == LInv /\ LineTypeOK /\ [LineNext]_lineVars => LInv' /\ LineTypeOK'
<1> SUFFICES ASSUME LInv, LineTypeOK, [LineNext]_lineVars PROVE LInv' /\ LineTypeOK'
  OBVIOUS
<1>1. LInv'
  BY LineNextInv
<1>2. len' \in 0..(CAP - 1) /\ cur' \in 0..len'
  BY <1>1 DEF LInv
<1>3. CASE epc' # "undefined"
  <2>1. kept' \in Seq(Lines) /\ history' = Newest(kept') /\ hist_pos' \in 0..Len(history')
    BY <1>1, <1>3 DEF LInv, Kept
  <2> QED
    BY <1>1, <1>2, <2>1, NewestBounded DEF LineTypeOK, hist_count
<1>4. CASE epc' = "undefined"
  <2>1. UNCHANGED <<history, hist_pos>>
    BY <1>4, UndefinedLeavesHistory
  <2> QED
    BY <1>1, <1>2, <2>1 DEF LineTypeOK, hist_count
<1> QED
  BY <1>3, <1>4

-----------------------------------------------------------------------------
(* Theorems *)

\* The line editor keeps its invariant through every key.
THEOREM LineInvariant == LineSpec => []LInv
BY LineInitInv, LineNextInv, PTL DEF LineSpec

\* EditExact: the buffer that Backspace, Delete, typing in the middle and the
\* recalls of line_read move about in place always holds the line that the
\* keys mean, line_read returns exactly that line, and the history offers the
\* last lines worth keeping, whatever the sizes of buffer, slots and history.
THEOREM LineEditsExact == LineSpec => []EditExact
<1>1. LInv => EditExact
  <2> SUFFICES ASSUME LInv PROVE EditExact
    OBVIOUS
  <2>1. ASSUME epc = "edit" PROVE Contents(buf, len) = text /\ cur = pos
    BY <2>1, WhileEditing, SpellsContents
  <2>2. ASSUME epc = "idle", submitted # <<>> PROVE Contents(buf, strlen(buf)) = Last(submitted)
    <3> DEFINE s == Last(submitted)
    <3>1. Spells(buf, Len(s), s) /\ buf[Len(s)] = NUL
      BY <2>2 DEF LInv
    <3> HIDE DEF s
    <3>2. strlen(buf) = Len(s)
      BY <3>1, StrlenOfLine
    <3>3. Contents(buf, Len(s)) = s
      BY <3>1, SpellsContents
    <3> QED
      BY <3>2, <3>3 DEF s
  <2>3. epc # "undefined" => history = Kept
    BY DEF LInv
  <2> QED
    BY <2>1, <2>2, <2>3 DEF EditExact
<1> QED
  BY <1>1, LineInvariant, PTL

-----------------------------------------------------------------------------
(* The predictors: counting from the next place to write, the ring holds   *)
(* the last items recorded.                                                *)

Slot(at, back) == (at + HIST_MAX - back) % HIST_MAX

LEMMA RingSize == HIST_MAX \in Nat /\ HIST_MAX > 0
BY PredictorAssumption DEF PredictorAssumption

LEMMA SlotValue ==
  ASSUME NEW at \in 0..(HIST_MAX - 1), NEW back \in 1..HIST_MAX
  PROVE  /\ Slot(at, back) = (IF back <= at THEN at - back ELSE at + HIST_MAX - back)
         /\ Slot(at, back) \in 0..(HIST_MAX - 1)
<1> DEFINE H == HIST_MAX
<1>1. H \in Nat \ {0} /\ at \in 0..(H - 1) /\ back \in 1..H
  BY RingSize
<1>2. Slot(at, back) = (at + H - back) % H
  BY DEF Slot
<1> HIDE DEF H
<1>3. CASE back <= at
  <2>1. at - back \in 0..(H - 1) /\ at + H - back = (at - back) + H
    BY <1>1, <1>3
  <2>2. ((at - back) + H) % H = at - back
    BY <1>1, <2>1
  <2> QED
    BY <1>2, <1>3, <2>1, <2>2 DEF H
<1>4. CASE ~ (back <= at)
  <2>1. at + H - back \in 0..(H - 1)
    BY <1>1, <1>4
  <2>2. (at + H - back) % H = at + H - back
    BY <1>1, <2>1
  <2> QED
    BY <1>2, <1>4, <2>1, <2>2 DEF H
<1> QED
  BY <1>3, <1>4

\* The item recorded b items ago is in the slot b places back.
PInv ==
  /\ ring = [i \in 0..(HIST_MAX - 1) |-> ring[i]]
  /\ wr \in 0..(HIST_MAX - 1)
  /\ seen \in Seq(Typed \union Pages)
  /\ count = IF Len(seen) <= HIST_MAX THEN Len(seen) ELSE HIST_MAX
  /\ \A b \in 1..count : ring[Slot(wr, b)] = seen[Len(seen) - b + 1]

LEMMA RecordKeeps ==
  ASSUME PInv, NEW x \in Typed \union Pages, Record(x)
  PROVE  PInv'
<1> DEFINE H == HIST_MAX
           n == Len(seen)
<1>1. H \in Nat \ {0} /\ n \in Nat /\ wr \in 0..(H - 1)
  BY RingSize DEF PInv
<1>2. ring' = [ring EXCEPT ![wr] = x] /\ wr' = (wr + 1) % H /\ seen' = Append(seen, x)
  BY DEF Record
<1>3. wr' = IF wr + 1 = H THEN 0 ELSE wr + 1
  <2>1. CASE wr + 1 = H
    BY <1>1, <1>2, <2>1
  <2>2. CASE wr + 1 # H
    <3>1. wr + 1 \in 0..(H - 1)
      BY <1>1, <2>2
    <3>2. (wr + 1) % H = wr + 1
      BY <1>1, <3>1
    <3> QED
      BY <1>2, <2>2, <3>2
  <2> QED
    BY <2>1, <2>2
<1>4. wr' \in 0..(H - 1)
  BY <1>1, <1>3
<1>5. count \in 0..H /\ count = IF n <= H THEN n ELSE H
  BY <1>1 DEF PInv
<1>6. count' = Min({count + 1, H})
  BY DEF Record
<1>7. count' = IF n + 1 <= H THEN n + 1 ELSE H
  BY <1>1, <1>5, <1>6 DEF Min
<1>8. seen' \in Seq(Typed \union Pages) /\ Len(seen') = n + 1 /\ seen'[n + 1] = x
  BY <1>2 DEF PInv
<1>9. \A i \in 1..n : seen'[i] = seen[i]
  BY <1>1, <1>2 DEF PInv
<1>10. ring' = [i \in 0..(H - 1) |-> ring'[i]] /\ ring'[wr] = x
       /\ \A i \in 0..(H - 1) : i # wr => ring'[i] = ring[i]
  <2>1. ring = [i \in 0..(H - 1) |-> ring[i]]
    BY DEF PInv
  <2> QED
    BY <1>1, <1>2, <2>1
<1>11. ASSUME NEW b \in 1..count' PROVE ring'[Slot(wr', b)] = seen'[Len(seen') - b + 1]
  <2>1. b \in 1..H /\ b \in Nat
    BY <1>1, <1>7
  <2>2. Slot(wr', b) = IF b <= wr' THEN wr' - b ELSE wr' + H - b
    BY <1>4, <2>1, SlotValue
  <2>3. CASE b = 1
    <3>1. Slot(wr', b) = wr
      BY <1>1, <1>3, <2>2, <2>3
    <3>2. Len(seen') - b + 1 = n + 1
      BY <1>1, <1>8, <2>3
    <3> QED
      BY <1>8, <1>10, <3>1, <3>2
  <2>4. CASE b # 1
    <3> DEFINE c == b - 1
    <3>1. c \in 1..H /\ c \in 1..count /\ c \in 1..n
      BY <1>1, <1>5, <1>7, <2>1, <2>4
    <3>2. /\ Slot(wr, c) = IF c <= wr THEN wr - c ELSE wr + H - c
          /\ Slot(wr, c) \in 0..(H - 1)
      BY <1>1, <3>1, SlotValue
    <3>3. Slot(wr', b) = Slot(wr, c) /\ Slot(wr, c) # wr
      BY <1>1, <1>3, <1>7, <2>1, <2>2, <2>4, <3>2
    <3>4. ring[Slot(wr, c)] = seen[n - c + 1]
      BY <3>1 DEF PInv
    <3>5. Len(seen') - b + 1 = n - c + 1 /\ n - c + 1 \in 1..n
      BY <1>1, <1>8, <2>1, <3>1
    <3> HIDE DEF c
    <3> QED
      BY <1>9, <1>10, <3>2, <3>3, <3>4, <3>5
  <2> QED
    BY <2>3, <2>4
<1> QED
  BY <1>4, <1>7, <1>8, <1>10, <1>11 DEF PInv

LEMMA PredictorInitInv == PredictorInit => PInv
<1> SUFFICES ASSUME PredictorInit PROVE PInv
  OBVIOUS
<1>1. seen = <<>> /\ wr = 0 /\ count = 0 /\ ring = [i \in 0..(HIST_MAX - 1) |-> None]
  BY DEF PredictorInit
<1> QED
  BY <1>1, RingSize DEF PInv

LEMMA PredictorNextInv == PInv /\ [PredictorNext]_predictorVars => PInv'
<1> SUFFICES ASSUME PInv, [PredictorNext]_predictorVars PROVE PInv'
  OBVIOUS
<1>1. ASSUME NEW c \in Typed, cmdhist_add(c) PROVE PInv'
  BY <1>1, RecordKeeps DEF cmdhist_add
<1>2. ASSUME NEW p \in Pages, pgpred_fault(p) PROVE PInv'
  BY <1>2, RecordKeeps DEF pgpred_fault
<1>3. CASE clear
  <2>1. count' = 0 /\ wr' = 0 /\ seen' = <<>> /\ ring' = ring
    BY <1>3 DEF clear
  <2> QED
    BY <2>1, RingSize DEF PInv
<1>4. CASE UNCHANGED predictorVars
  BY <1>4 DEF PInv, predictorVars
<1> QED
  BY <1>1, <1>2, <1>3, <1>4 DEF PredictorNext

\* A place that beats all others exists: one with the greatest count whose
\* oldest occurrence is the youngest.
LEMMA BestExists ==
  ASSUME NEW m \in Nat, NEW hits \in SUBSET (1..m), hits # {}
  PROVE  \E i \in hits : \A j \in hits : Beats(hits, i, j)
<1> DEFINE N == [i \in hits |-> Cardinality(Same(hits, i))]
           G == [i \in hits |-> Max(Same(hits, i))]
<1>1. IsFiniteSet(1..m) /\ IsFiniteSet(hits) /\ Cardinality(1..m) = m
  <2>1. IsFiniteSet(1..m) /\ Cardinality(1..m) = m
    BY FS_Interval, 1 \in Int, m \in Int
  <2> QED
    BY <2>1, FS_Subset
<1>2. ASSUME NEW i \in hits PROVE N[i] \in 0..m /\ G[i] \in 0..m
  <2>1. Same(hits, i) \subseteq 1..m /\ i \in Same(hits, i)
    BY DEF Same
  <2>2. Cardinality(Same(hits, i)) \in Nat /\ Cardinality(Same(hits, i)) <= m
    BY <1>1, <2>1, FS_Subset, FS_CardinalityType
  <2>3. Same(hits, i) \in SUBSET (0..m) /\ Same(hits, i) # {}
    BY <2>1
  <2>4. Max(Same(hits, i)) \in Same(hits, i)
    BY <2>3, LastOf
  <2> QED
    BY <2>2, <2>3, <2>4
<1>3. ASSUME NEW i \in hits, NEW j \in hits, N[i] > N[j] \/ (N[i] = N[j] /\ G[i] <= G[j])
      PROVE  Beats(hits, i, j)
  BY <1>3 DEF Beats
<1> HIDE DEF N, G
<1> DEFINE C == {N[i] : i \in hits}
<1>4. C \in SUBSET (0..m) /\ C # {}
  BY <1>2
<1>5. PICK top \in C : \A c \in C : c <= top
  BY <1>4, LastOf
<1> DEFINE B == {i \in hits : N[i] = top}
           D == {G[i] : i \in B}
<1>6. D \in SUBSET Nat /\ D # {}
  BY <1>2, <1>5
<1>7. PICK low \in D : \A d \in D : low <= d
  BY <1>6, LeastExists
<1>8. PICK i \in B : low = G[i]
  OBVIOUS
<1>9. ASSUME NEW j \in hits PROVE Beats(hits, i, j)
  <2>1. N[j] \in C /\ N[j] <= top /\ N[i] = top /\ N[i] \in 0..m /\ N[j] \in 0..m
    BY <1>2, <1>5, <1>8
  <2>2. N[j] = top => G[i] <= G[j]
    BY <1>7, <1>8
  <2> QED
    BY <1>3, <1>8, <2>1, <2>2
<1> QED
  BY <1>8, <1>9

\* Places counted from the newest item, seen from the oldest one.
Mirror(m, hits) == {m - b + 1 : b \in hits}

LEMMA MirrorCount ==
  ASSUME NEW m \in Nat, NEW hits \in SUBSET (1..m)
  PROVE  Cardinality(Mirror(m, hits)) = Cardinality(hits)
<1> DEFINE T == 1..m
           S == hits
           f == [b \in S |-> m - b + 1]
           R == {f[b] : b \in S}
<1>1. IsFiniteSet(T)
  BY FS_Interval, 1 \in Int, m \in Int
<1>2. f \in [S -> T]
  OBVIOUS
<1>3. \A a, b \in S : f[a] = f[b] => a = b
  OBVIOUS
<1>4. R = Mirror(m, hits)
  BY DEF Mirror
<1>5. Cardinality(R) = Cardinality(S)
  <2> HIDE DEF S, T, f
  <2> QED
    BY <1>1, <1>2, <1>3, ImageCount
<1> QED
  BY <1>4, <1>5

\* What pick_best answers is most frequent among the items it looks at.
LEMMA PicksMostFrequent ==
  ASSUME NEW m \in Nat, NEW r, \A b \in 1..m : Entry(b) = r[m - b + 1],
         NEW hits \in SUBSET (1..m), hits # {}
  PROVE  pick_best(hits) \in MostFrequent(r, Mirror(m, hits))
<1> DEFINE at == Mirror(m, hits)
           i == CHOOSE i \in hits : \A j \in hits : Beats(hits, i, j)
           Hold(k) == {l \in at : r[l] = r[k]}
<1>1. i \in hits /\ \A j \in hits : Beats(hits, i, j)
  BY BestExists
<1>2. pick_best(hits) = Entry(i)
  BY DEF pick_best
<1> HIDE DEF i
<1>3. ASSUME NEW j \in hits
      PROVE  /\ Cardinality(Hold(m - j + 1)) = Cardinality(Same(hits, j))
             /\ Cardinality(Same(hits, j)) \in Nat
  <2>1. Hold(m - j + 1) = Mirror(m, Same(hits, j))
    <3>1. ASSUME NEW b \in hits PROVE Entry(b) = Entry(j) <=> r[m - b + 1] = r[m - j + 1]
      OBVIOUS
    <3> QED
      BY <3>1 DEF Mirror, Same
  <2>2. Same(hits, j) \in SUBSET (1..m) /\ IsFiniteSet(1..m)
    <3>1. IsFiniteSet(1..m)
      BY FS_Interval, 1 \in Int, m \in Int
    <3> QED
      BY <3>1 DEF Same
  <2>3. Cardinality(Same(hits, j)) \in Nat
    BY <2>2, FS_Subset, FS_CardinalityType
  <2> QED
    BY <2>1, <2>2, <2>3, MirrorCount
<1>4. ASSUME NEW j \in hits
      PROVE  Cardinality(Hold(m - i + 1)) >= Cardinality(Hold(m - j + 1))
  <2>1. Cardinality(Same(hits, i)) \in Nat /\ Cardinality(Same(hits, j)) \in Nat
    BY <1>1, <1>3
  <2>2. Beats(hits, i, j)
    BY <1>1
  <2>3. Cardinality(Same(hits, i)) >= Cardinality(Same(hits, j))
    BY <2>1, <2>2 DEF Beats
  <2>4. /\ Cardinality(Hold(m - i + 1)) = Cardinality(Same(hits, i))
        /\ Cardinality(Hold(m - j + 1)) = Cardinality(Same(hits, j))
    BY <1>1, <1>3
  <2> QED
    BY <2>3, <2>4
<1>5. \A k \in at : Cardinality(Hold(m - i + 1)) >= Cardinality(Hold(k))
  <2> TAKE k \in at
  <2>1. PICK j \in hits : k = m - j + 1
    BY DEF Mirror
  <2> QED
    BY <1>4, <2>1
<1>6. m - i + 1 \in at /\ Entry(i) = r[m - i + 1]
  BY <1>1 DEF Mirror
<1> HIDE DEF at
<1>7. r[m - i + 1] \in MostFrequent(r, at)
  BY <1>5, <1>6 DEF MostFrequent
<1> QED
  BY <1>2, <1>6, <1>7 DEF at

LEMMA RingPredicts == PInv => PredictsLikeliest
<1> SUFFICES ASSUME PInv PROVE PredictsLikeliest
  OBVIOUS
<1> DEFINE n == Len(seen)
           m == count
           r == Recent
           after == {i \in 2..m : r[i - 1] = r[m]}
<1>1. HIST_MAX \in Nat /\ HIST_MAX > 0 /\ n \in Nat /\ seen \in Seq(Typed \union Pages)
  BY RingSize DEF PInv
<1>2. m \in Nat /\ m <= n /\ m = Min({n, HIST_MAX})
  BY <1>1 DEF PInv, Min
<1>3. r = SubSeq(seen, n - m + 1, n)
  BY <1>2 DEF Recent
<1>4. n - m + 1 \in 1..(n + 1) /\ n \in 0..n /\ n - (n - m + 1) + 1 = m
  BY <1>1, <1>2
<1>5. Len(r) = m /\ \A k \in 1..m : r[k] = seen[(n - m) + k]
  <2> HIDE DEF n, m, r
  <2>1. Len(SubSeq(seen, n - m + 1, n)) = m
    BY <1>1, <1>2, <1>4 DEF n
  <2>2. ASSUME NEW k \in 1..m PROVE SubSeq(seen, n - m + 1, n)[k] = seen[(n - m) + k]
    BY <1>1, <1>2, <1>4 DEF n
  <2> QED
    BY <1>3, <2>1, <2>2
<1>6. \A b \in 1..m : Entry(b) = r[m - b + 1]
  <2> TAKE b \in 1..m
  <2>1. Entry(b) = seen[n - b + 1]
    BY DEF PInv, Entry, hist_idx, Slot
  <2>2. m - b + 1 \in 1..m /\ (n - m) + (m - b + 1) = n - b + 1
    BY <1>1, <1>2
  <2> HIDE DEF n, m, r
  <2> QED
    BY <1>5, <2>1, <2>2
<1> HIDE DEF r, m, n
<1>7. CASE m = 0
  <2>1. Followers = {} /\ 1..count = {}
    BY <1>7 DEF Followers, m
  <2>2. predict = None
    BY <2>1 DEF predict, pick_best
  <2> QED
    BY <1>5, <1>7, <2>2 DEF PredictsLikeliest, r
<1>8. CASE m # 0
  <2>1. 1..m # {} /\ 1..m \in SUBSET (1..m) /\ m \in 1..m /\ 1 \in 1..m
    BY <1>2, <1>8
  <2>2. Mirror(m, 1..m) = 1..m
    <3>1. ASSUME NEW k \in 1..m PROVE k \in Mirror(m, 1..m)
      <4>1. m - k + 1 \in 1..m /\ m - (m - k + 1) + 1 = k
        BY <1>2
      <4> QED
        BY <4>1 DEF Mirror
    <3>2. ASSUME NEW k \in Mirror(m, 1..m) PROVE k \in 1..m
      BY <1>2 DEF Mirror
    <3> QED
      BY <3>1, <3>2
  <2>3. pick_best(1..m) \in MostFrequent(r, 1..m)
    BY <1>2, <1>6, <2>1, <2>2, PicksMostFrequent
  <2>4. Followers \in SUBSET (1..m)
    BY <1>2 DEF Followers, m
  <2>5. Mirror(m, Followers) = after
    <3>1. Entry(1) = r[m]
      BY <1>2, <1>6, <2>1
    <3>2. ASSUME NEW b \in 1..(m - 1) PROVE (Entry(b + 1) = Entry(1)) <=> (r[m - b] = r[m])
      <4>1. b + 1 \in 1..m /\ m - (b + 1) + 1 = m - b
        BY <1>2
      <4> QED
        BY <1>6, <3>1, <4>1
    <3>3. ASSUME NEW k \in Mirror(m, Followers) PROVE k \in after
      <4>1. PICK b \in Followers : k = m - b + 1
        BY DEF Mirror
      <4>2. b \in 1..(m - 1) /\ Entry(b + 1) = Entry(1)
        BY DEF Followers, m
      <4>3. k \in 2..m /\ k - 1 = m - b
        BY <1>2, <4>1, <4>2
      <4> QED
        BY <3>2, <4>2, <4>3
    <3>4. ASSUME NEW k \in after PROVE k \in Mirror(m, Followers)
      <4> DEFINE b == m - k + 1
      <4>1. b \in 1..(m - 1) /\ m - b = k - 1 /\ k = m - b + 1
        BY <1>2
      <4>2. r[k - 1] = r[m]
        OBVIOUS
      <4> HIDE DEF b
      <4>3. b \in Followers
        BY <3>2, <4>1, <4>2 DEF Followers, m
      <4> QED
        BY <4>1, <4>3 DEF Mirror
    <3> HIDE DEF after
    <3> QED
      BY <3>3, <3>4
  <2>6. Followers = {} <=> after = {}
    BY <2>5 DEF Mirror
  <2>7. Followers # {} => pick_best(Followers) \in MostFrequent(r, after)
    BY <1>2, <1>6, <2>4, <2>5, PicksMostFrequent
  <2>8. predict = IF pick_best(Followers) # None THEN pick_best(Followers) ELSE pick_best(1..m)
    BY DEF predict, m
  <2>9. Followers = {} => pick_best(Followers) = None
    BY DEF pick_best
  <2> DEFINE mf == MostFrequent(r, after)
             ma == MostFrequent(r, 1..m)
  <2>10. \/ predict \in mf
         \/ (after = {} \/ None \in mf) /\ predict \in ma
    <3> HIDE DEF mf, ma, after
    <3> QED
      BY <2>3, <2>6, <2>7, <2>8, <2>9 DEF mf, ma
  <2> QED
    BY <1>5, <1>8, <2>10 DEF PredictsLikeliest, r
<1> QED
  BY <1>7, <1>8

\* PredictsLikeliest: also after the ring has wrapped or was cleared, the
\* prediction of cmdhist_predict and pgpred_predict is a most frequent
\* follower of the last item among the last HIST_MAX recorded, for every
\* size of the ring and every sequence of commands, faults and clears.
THEOREM PredictorCorrect == PredictorSpec => []PredictsLikeliest
<1>1. PredictorSpec => []PInv
  BY PredictorInitInv, PredictorNextInv, PTL DEF PredictorSpec
<1> QED
  BY <1>1, RingPredicts, PTL

-----------------------------------------------------------------------------
(* The corpus *)

Saved == {f \in Files : f.kind = "text" /\ f.whole}

\* File f is taken again by version g.
Retaken(f, g) == g.kind = "text" /\ g.seq > f.seq /\ corp_name(g.seq) = corp_name(f.seq)

\* While every write of corpus.seq was completed, the number in it is the
\* one after the newest version reported, and the version being committed
\* has that number.
Numbered ==
  /\ \/ seqf = Absent /\ reported = {}
     \/ /\ \E n \in 2..(MaxSeq + 1) : seqf = SeqFile(n)
        /\ \E s \in reported : s.seq + 1 = NextSeq
  /\ \A s \in reported : s.seq < NextSeq
  /\ pc = "idle" => job = Empty \/ job \in reported \/ job.seq = NextSeq
  /\ pc # "idle" => job.seq = NextSeq

\* The files of a commit, as far as it has come, and the files of the
\* versions reported.
FilesKept ==
  /\ \A s \in reported :
       vers[corp_name(s.seq)] = s \/ \E t \in reported \cup {job} : Retaken(s, t)
  /\ pc \in {"lkg", "seq"} => vers[corp_name(job.seq)] = job
  /\ pc = "seq" => lkg = job /\ ~lkgTorn
  /\ ~lkgTorn /\ reported # {} =>
       /\ lkg \in Saved /\ vers[corp_name(lkg.seq)] = lkg
       /\ \A s \in reported : lkg.seq >= s.seq
       /\ pc # "seq" => lkg.seq < NextSeq

\* Nothing is claimed once a write of corpus.seq was not completed: versions
\* may then be numbered again.
CInv ==
  /\ seqLost \in BOOLEAN /\ pc \in {"idle", "version", "lkg", "seq"}
  /\ ~seqLost =>
       /\ vers \in [Names -> Files] /\ lkg \in Files /\ reported \subseteq Saved
       /\ lkgTorn \in BOOLEAN
       /\ job \in Saved \/ (job = Empty /\ pc = "idle")
       /\ Numbered /\ FilesKept

LEMMA NameSizes == /\ Base^NameDigits \in Nat /\ Base^NameDigits >= 2 /\ MaxSeq \in Nat
BY DigitsAssumption, CorpusAssumption DEF DigitsAssumption, CorpusAssumption

LEMMA NamesOf ==
  ASSUME NEW n \in Nat
  PROVE  corp_name(n) \in Names /\ corp_name(n + 1) # corp_name(n)
<1> DEFINE N == Base^NameDigits
           q == n \div N
           p == (n + 1) \div N
<1>1. N \in Nat /\ N >= 2 /\ corp_name(n) = n % N /\ corp_name(n + 1) = (n + 1) % N /\ Names = 0..(N - 1)
  BY NameSizes DEF corp_name, Names
<1> HIDE DEF N
<1>2. n % N \in 0..(N - 1) /\ (n + 1) % N \in 0..(N - 1)
  BY <1>1
<1>3. n = N * q + (n % N) /\ n + 1 = N * p + ((n + 1) % N) /\ q \in Int /\ p \in Int
  BY <1>1
<1>4. ASSUME n % N = (n + 1) % N PROVE FALSE
  <2> HIDE DEF q, p
  <2> DEFINE d == p - q
  <2>1. N * p = N * q + 1
    BY <1>1, <1>2, <1>3, <1>4
  <2>2. N * d = N * p - N * q /\ d \in Int
    BY <1>1, <1>3
  <2>3. N * d = 1
    BY <1>1, <1>3, <2>1, <2>2
  <2> HIDE DEF d
  <2>4. CASE d <= 0
    BY <1>1, <2>2, <2>3, <2>4
  <2>5. CASE d >= 1
    BY <1>1, <2>2, <2>3, <2>5
  <2> QED
    BY <2>2, <2>4, <2>5
<1> QED
  BY <1>1, <1>2, <1>4

LEMMA SavedFiles ==
  ASSUME NEW f \in Saved
  PROVE  f \in Files /\ f.kind = "text" /\ f.seq \in 1..MaxSeq /\ f.seq \in Nat /\ f # Empty
BY NameSizes DEF Saved, Files, Absent, Empty

LEMMA TextSaved ==
  ASSUME NEW n \in 1..MaxSeq, NEW prog \in Programs
  PROVE  Text(n, Parent(n), prog) \in Saved /\ Text(n, Parent(n), prog).seq = n
<1>1. Parent(n) \in 0..MaxSeq
  BY NameSizes DEF Parent
<1> QED
  BY <1>1 DEF Text, Saved, Files

LEMMA NumberRead ==
  ASSUME Numbered
  PROVE  /\ NextSeq \in 1..(MaxSeq + 1)
         /\ seqf = Absent => NextSeq = 1
<1>1. CASE seqf = Absent
  <2>1. corp_read_seq = 0
    BY <1>1 DEF corp_read_seq, Number
  <2> QED
    BY <1>1, <2>1, NameSizes DEF NextSeq, Max
<1>2. CASE seqf # Absent
  <2>1. PICK n \in 2..(MaxSeq + 1) : seqf = SeqFile(n)
    BY <1>2 DEF Numbered
  <2>2. n \in 1..(MaxSeq + 1)
    BY NameSizes
  <2>3. corp_read_seq = n
    BY <2>1, <2>2, DigitsAssumption DEF DigitsAssumption, corp_read_seq
  <2> QED
    BY <1>2, <2>2, <2>3, NameSizes DEF NextSeq, Max
<1> QED
  BY <1>1, <1>2

LEMMA NumberWritten ==
  ASSUME NEW n \in 1..MaxSeq, seqf' = SeqFile(n + 1)
  PROVE  NextSeq' = n + 1 /\ n + 1 \in 2..(MaxSeq + 1)
<1>1. n + 1 \in 1..(MaxSeq + 1) /\ n + 1 \in 2..(MaxSeq + 1)
  BY NameSizes
<1>2. corp_read_seq' = n + 1
  BY <1>1, DigitsAssumption DEF DigitsAssumption, corp_read_seq
<1> QED
  BY <1>1, <1>2, NameSizes DEF NextSeq, Max

\* What an interrupted write leaves is a file.
LEMMA InterruptedFiles ==
  ASSUME NEW old \in Files, NEW new \in Saved, NEW f \in Interrupted(old, new)
  PROVE  f \in Files
<1>1. [new EXCEPT !.whole = FALSE] \in Files
  BY DEF Saved, Files, Absent, Empty
<1>2. new \in Files /\ Absent \in Files /\ Empty \in Files
  BY DEF Saved, Files
<1> QED
  BY <1>1, <1>2 DEF Interrupted

LEMMA CorpusInitInv == CorpusInit => CInv
<1> SUFFICES ASSUME CorpusInit PROVE CInv
  OBVIOUS
<1>1. /\ vers = [n \in Names |-> Absent] /\ lkg = Absent /\ seqf = Absent /\ pc = "idle"
      /\ job = Empty /\ reported = {} /\ seqLost = FALSE /\ lkgTorn = FALSE
  BY DEF CorpusInit
<1>2. vers \in [Names -> Files] /\ lkg \in Files
  BY <1>1 DEF Files
<1>3. Numbered /\ FilesKept
  BY <1>1 DEF Numbered, FilesKept
<1> QED
  BY <1>1, <1>2, <1>3 DEF CInv

\* What the invariant says while corpus.seq was always written completely.
LEMMA CorpusFacts ==
  ASSUME CInv, ~seqLost
  PROVE  /\ vers \in [Names -> Files] /\ lkg \in Files /\ reported \subseteq Saved
         /\ pc \in {"idle", "version", "lkg", "seq"} /\ lkgTorn \in BOOLEAN
         /\ job \in Saved \/ (job = Empty /\ pc = "idle")
         /\ Numbered /\ FilesKept
         /\ NextSeq \in 1..(MaxSeq + 1) /\ NextSeq \in Nat
         /\ \A s \in reported : s.seq \in Nat /\ s.seq < NextSeq /\ corp_name(s.seq) \in Names
<1>1. Numbered /\ reported \subseteq Saved
  BY DEF CInv
<1>2. NextSeq \in 1..(MaxSeq + 1) /\ NextSeq \in Nat
  BY <1>1, NumberRead, NameSizes
<1>3. \A s \in reported : s.seq \in Nat /\ s.seq < NextSeq /\ corp_name(s.seq) \in Names
  BY <1>1, SavedFiles, NamesOf DEF Numbered
<1> QED
  BY <1>1, <1>2, <1>3 DEF CInv

\* The version being committed has the next number and a name of its own.
LEMMA CommitFacts ==
  ASSUME CInv, ~seqLost, pc # "idle"
  PROVE  /\ job \in Saved /\ job.kind = "text" /\ job.seq = NextSeq /\ job.seq \in 1..MaxSeq
         /\ corp_name(job.seq) \in Names
         /\ \A s \in reported : corp_name(s.seq) = corp_name(job.seq) => Retaken(s, job)
         /\ ~lkgTorn /\ reported # {} /\ pc # "seq" => corp_name(lkg.seq) # corp_name(job.seq)
<1>1. job \in Saved /\ Numbered /\ FilesKept /\ NextSeq \in Nat
      /\ \A s \in reported : s.seq \in Nat /\ s.seq < NextSeq
  BY CorpusFacts
<1>2. job.kind = "text" /\ job.seq \in 1..MaxSeq /\ job.seq \in Nat /\ job.seq = NextSeq
  BY <1>1, SavedFiles DEF Numbered
<1>3. \A s \in reported : corp_name(s.seq) = corp_name(job.seq) => Retaken(s, job)
  BY <1>1, <1>2 DEF Retaken
<1>4. ASSUME ~lkgTorn, reported # {}, pc # "seq" PROVE corp_name(lkg.seq) # corp_name(job.seq)
  <2>1. lkg \in Saved /\ lkg.seq < NextSeq /\ \A s \in reported : lkg.seq >= s.seq
    BY <1>1, <1>4 DEF FilesKept
  <2>2. PICK s \in reported : s.seq + 1 = NextSeq
    BY <1>1, <1>4 DEF Numbered
  <2>3. lkg.seq \in Nat
    BY <2>1, SavedFiles
  <2>4. lkg.seq + 1 = job.seq
    BY <1>1, <1>2, <2>1, <2>2, <2>3
  <2> QED
    BY <2>3, <2>4, NamesOf
<1>5. corp_name(job.seq) \in Names
  BY <1>2, NamesOf
<1> QED
  BY <1>1, <1>2, <1>3, <1>4, <1>5

LEMMA CommitKeeps == ASSUME CInv, NEW prog \in Programs, Commit(prog) PROVE CInv'
<1>1. /\ pc = "idle" /\ NextSeq <= MaxSeq /\ job' = Text(NextSeq, Parent(NextSeq), prog)
      /\ pc' = "version" /\ UNCHANGED <<vers, lkg, seqf, reported, seqLost, lkgTorn>>
  BY DEF Commit
<1> SUFFICES ASSUME ~seqLost PROVE CInv'
  BY <1>1 DEF CInv
<1>2. /\ vers \in [Names -> Files] /\ lkg \in Files /\ reported \subseteq Saved /\ lkgTorn \in BOOLEAN
      /\ Numbered /\ FilesKept /\ NextSeq \in 1..(MaxSeq + 1)
  BY CorpusFacts
<1>3. NextSeq \in 1..MaxSeq
  BY <1>1, <1>2, NameSizes
<1>4. job' \in Saved /\ job'.seq = NextSeq /\ job'.kind = "text"
  BY <1>1, <1>3, TextSaved, SavedFiles
<1>5. NextSeq' = NextSeq
  BY <1>1 DEF NextSeq, corp_read_seq
<1>6. Numbered'
  BY <1>1, <1>2, <1>4, <1>5 DEF Numbered
<1>7. ASSUME NEW s \in reported, NEW t \in reported \cup {job}, Retaken(s, t)
      PROVE  \E u \in reported \cup {job'} : Retaken(s, u)
  <2>1. CASE t \in reported
    BY <1>7, <2>1
  <2>2. CASE t = job /\ job \notin reported
    <3>1. job # Empty
      BY <1>7, <2>2 DEF Retaken, Empty
    <3>2. job.seq = NextSeq
      BY <1>1, <1>2, <2>2, <3>1 DEF Numbered
    <3>3. Retaken(s, job')
      BY <1>4, <1>7, <2>2, <3>2 DEF Retaken
    <3> QED
      BY <3>3
  <2> QED
    BY <2>1, <2>2
<1>8. FilesKept'
  <2>1. \A s \in reported' :
          vers'[corp_name(s.seq)] = s \/ \E t \in (reported \cup {job})' : Retaken(s, t)
    BY <1>1, <1>2, <1>7 DEF FilesKept
  <2> QED
    BY <1>1, <1>2, <1>5, <2>1 DEF FilesKept
<1> QED
  BY <1>1, <1>2, <1>4, <1>6, <1>8 DEF CInv

\* The version file is replaced, by the new version or what an interrupted
\* write of it leaves.
LEMMA VersionReplaced ==
  ASSUME CInv, ~seqLost, pc \in {"version", "lkg"}, NEW f \in Files,
         vers' = [vers EXCEPT ![corp_name(job.seq)] = f],
         UNCHANGED <<lkg, seqf, job, reported, seqLost, lkgTorn>>,
         pc' = "idle" \/ (pc' = "lkg" /\ f = job)
  PROVE  CInv'
<1>1. /\ vers \in [Names -> Files] /\ lkg \in Files /\ reported \subseteq Saved /\ lkgTorn \in BOOLEAN
      /\ Numbered /\ FilesKept /\ \A s \in reported : corp_name(s.seq) \in Names
  BY CorpusFacts
<1>2. /\ job \in Saved /\ job.kind = "text" /\ job.seq = NextSeq /\ corp_name(job.seq) \in Names
      /\ \A s \in reported : corp_name(s.seq) = corp_name(job.seq) => Retaken(s, job)
      /\ ~lkgTorn /\ reported # {} => corp_name(lkg.seq) # corp_name(job.seq)
  BY CommitFacts
<1>3. NextSeq' = NextSeq
  BY DEF NextSeq, corp_read_seq
<1>4. Numbered'
  BY <1>1, <1>2, <1>3 DEF Numbered
<1>5. vers' \in [Names -> Files] /\ vers'[corp_name(job.seq)] = f
  BY <1>1, <1>2
<1>6. \A n \in Names : n # corp_name(job.seq) => vers'[n] = vers[n]
  BY <1>1
<1>7. ASSUME NEW s \in reported
      PROVE  vers'[corp_name(s.seq)] = s \/ \E t \in reported \cup {job} : Retaken(s, t)
  BY <1>1, <1>2, <1>6 DEF FilesKept
<1>8. ASSUME ~lkgTorn, reported # {}
      PROVE  /\ lkg \in Saved /\ vers'[corp_name(lkg.seq)] = lkg
             /\ \A s \in reported : lkg.seq >= s.seq
             /\ lkg.seq < NextSeq
  <2>1. /\ lkg \in Saved /\ vers[corp_name(lkg.seq)] = lkg /\ lkg.seq < NextSeq
        /\ \A s \in reported : lkg.seq >= s.seq
    BY <1>1, <1>8 DEF FilesKept
  <2>2. corp_name(lkg.seq) \in Names
    BY <2>1, SavedFiles, NamesOf
  <2> QED
    BY <1>2, <1>6, <1>8, <2>1, <2>2
<1>9. FilesKept'
  BY <1>3, <1>5, <1>7, <1>8 DEF FilesKept
<1> QED
  BY <1>1, <1>2, <1>4, <1>5, <1>9 DEF CInv

\* The commit stops without a trace in the files.
LEMMA CommitStops ==
  ASSUME CInv, ~seqLost, pc \in {"version", "lkg"}, pc' = "idle",
         UNCHANGED <<vers, seqf, job, reported, seqLost>>, lkg' \in Files,
         lkgTorn' \in BOOLEAN, ~lkgTorn' => ~lkgTorn /\ lkg' = lkg
  PROVE  CInv'
<1>1. /\ vers \in [Names -> Files] /\ reported \subseteq Saved /\ Numbered /\ FilesKept
  BY CorpusFacts
<1>2. job \in Saved /\ job.seq = NextSeq
  BY CommitFacts
<1>3. NextSeq' = NextSeq
  BY DEF NextSeq, corp_read_seq
<1>4. Numbered' /\ FilesKept'
  BY <1>1, <1>2, <1>3 DEF Numbered, FilesKept
<1> QED
  BY <1>1, <1>2, <1>4 DEF CInv

LEMMA WriteLkgKeeps == CInv /\ WriteLkg => CInv'
<1> SUFFICES ASSUME CInv, WriteLkg PROVE CInv'
  OBVIOUS
<1>1. /\ pc = "lkg" /\ lkg' = job /\ pc' = "seq" /\ lkgTorn' = FALSE
      /\ UNCHANGED <<vers, seqf, job, reported, seqLost>>
  BY DEF WriteLkg
<1> SUFFICES ASSUME ~seqLost PROVE CInv'
  BY <1>1 DEF CInv
<1>2. /\ vers \in [Names -> Files] /\ reported \subseteq Saved /\ Numbered /\ FilesKept
      /\ NextSeq \in Nat /\ \A s \in reported : s.seq \in Nat /\ s.seq < NextSeq
  BY CorpusFacts
<1>3. job \in Saved /\ job.seq = NextSeq /\ job \in Files
  BY <1>1, CommitFacts, SavedFiles
<1>4. NextSeq' = NextSeq
  BY <1>1 DEF NextSeq, corp_read_seq
<1>5. Numbered'
  BY <1>1, <1>2, <1>3, <1>4 DEF Numbered
<1>6. \A s \in reported : lkg'.seq >= s.seq
  BY <1>1, <1>2, <1>3
<1>7. FilesKept'
  BY <1>1, <1>2, <1>3, <1>4, <1>6 DEF FilesKept
<1> QED
  BY <1>1, <1>2, <1>3, <1>5, <1>7 DEF CInv

LEMMA WriteSeqKeeps == CInv /\ WriteSeq => CInv'
<1> SUFFICES ASSUME CInv, WriteSeq PROVE CInv'
  OBVIOUS
<1>1. /\ pc = "seq" /\ seqf' = SeqFile(job.seq + 1) /\ pc' = "idle" /\ reported' = reported \cup {job}
      /\ UNCHANGED <<vers, lkg, job, seqLost, lkgTorn>>
  BY DEF WriteSeq
<1> SUFFICES ASSUME ~seqLost PROVE CInv'
  BY <1>1 DEF CInv
<1>2. /\ vers \in [Names -> Files] /\ lkg \in Files /\ reported \subseteq Saved /\ Numbered /\ FilesKept
      /\ NextSeq \in Nat /\ \A s \in reported : s.seq \in Nat /\ s.seq < NextSeq
  BY CorpusFacts
<1>3. job \in Saved /\ job.seq = NextSeq /\ job.seq \in 1..MaxSeq /\ job.seq \in Nat
  BY <1>1, CommitFacts, SavedFiles
<1>4. NextSeq' = job.seq + 1 /\ job.seq + 1 \in 2..(MaxSeq + 1)
  BY <1>1, <1>3, NumberWritten
<1>5. \A s \in reported' : s.seq < NextSeq' /\ job.seq >= s.seq
  BY <1>1, <1>2, <1>3, <1>4
<1>6. Numbered'
  BY <1>1, <1>3, <1>4, <1>5 DEF Numbered
<1>7. /\ vers[corp_name(job.seq)] = job /\ lkg = job /\ ~lkgTorn
      /\ \A s \in reported : vers[corp_name(s.seq)] = s \/ \E t \in reported \cup {job} : Retaken(s, t)
  BY <1>1, <1>2 DEF FilesKept
<1>8. job.seq < NextSeq'
  BY <1>3, <1>4
<1>9. FilesKept'
  BY <1>1, <1>3, <1>5, <1>7, <1>8 DEF FilesKept
<1>10. reported' \subseteq Saved
  BY <1>1, <1>2, <1>3
<1> QED
  BY <1>1, <1>2, <1>3, <1>6, <1>7, <1>9, <1>10 DEF CInv

LEMMA FaultKeeps == ASSUME CInv, NEW power \in BOOLEAN, Fault(power) PROVE CInv'
<1>1. pc # "idle" /\ pc' = "idle" /\ job' = job
  BY DEF Fault
<1>2. CASE pc = "seq"
  <2>1. seqLost' = TRUE
    BY <1>2 DEF Fault
  <2> QED
    BY <1>1, <2>1 DEF CInv
<1>3. CASE pc = "version"
  <2>1. /\ \E f \in Interrupted(vers[corp_name(job.seq)], job) :
             vers' = [vers EXCEPT ![corp_name(job.seq)] = f]
        /\ UNCHANGED <<lkg, seqf, reported, seqLost, lkgTorn>>
    BY <1>3 DEF Fault
  <2> SUFFICES ASSUME ~seqLost PROVE CInv'
    BY <1>1, <2>1 DEF CInv
  <2>2. PICK f \in Interrupted(vers[corp_name(job.seq)], job) :
          vers' = [vers EXCEPT ![corp_name(job.seq)] = f]
    BY <2>1
  <2>3. job \in Saved /\ vers[corp_name(job.seq)] \in Files
    BY <1>1, CommitFacts, CorpusFacts
  <2>4. f \in Files
    BY <2>3, InterruptedFiles
  <2> QED
    BY <1>1, <1>3, <2>1, <2>2, <2>4, VersionReplaced
<1>4. CASE pc = "lkg"
  <2>1. /\ lkg' \in Interrupted(lkg, job) /\ lkgTorn' = (lkgTorn \/ lkg' # lkg)
        /\ UNCHANGED <<vers, seqf, reported, seqLost>>
    BY <1>4 DEF Fault
  <2> SUFFICES ASSUME ~seqLost PROVE CInv'
    BY <1>1, <2>1 DEF CInv
  <2>2. job \in Saved /\ lkg \in Files
    BY <1>1, CommitFacts, CorpusFacts
  <2>3. lkg' \in Files
    BY <2>1, <2>2, InterruptedFiles
  <2>4. lkgTorn' \in BOOLEAN /\ (~lkgTorn' => ~lkgTorn /\ lkg' = lkg)
    BY <2>1
  <2> QED
    BY <1>1, <1>4, <2>1, <2>3, <2>4, CommitStops
<1>5. pc \in {"version", "lkg", "seq"}
  BY <1>1 DEF CInv
<1> QED
  BY <1>2, <1>3, <1>4, <1>5

LEMMA CorpusNextInv == CInv /\ [CorpusNext]_corpusVars => CInv'
<1> SUFFICES ASSUME CInv, [CorpusNext]_corpusVars PROVE CInv'
  OBVIOUS
<1>1. ASSUME NEW prog \in Programs, Commit(prog) PROVE CInv'
  BY <1>1, CommitKeeps
<1>2. CASE WriteVersion
  <2>1. /\ pc = "version" /\ vers' = [vers EXCEPT ![corp_name(job.seq)] = job] /\ pc' = "lkg"
        /\ UNCHANGED <<lkg, seqf, job, reported, seqLost, lkgTorn>>
    BY <1>2 DEF WriteVersion
  <2> SUFFICES ASSUME ~seqLost PROVE CInv'
    BY <2>1 DEF CInv
  <2>2. job \in Files
    BY <2>1, CommitFacts, SavedFiles
  <2> QED
    BY <2>1, <2>2, VersionReplaced
<1>3. ASSUME NEW power \in BOOLEAN, Fault(power) PROVE CInv'
  BY <1>3, FaultKeeps
<1>4. CASE PowerLoss
  <2>1. /\ pc # "idle" /\ pc' = "idle" /\ seqLost' = (seqLost \/ pc = "seq")
        /\ UNCHANGED <<vers, lkg, seqf, job, reported, lkgTorn>>
    BY <1>4 DEF PowerLoss
  <2>2. CASE seqLost \/ pc = "seq"
    BY <2>1, <2>2 DEF CInv
  <2>3. CASE ~seqLost /\ pc # "seq"
    <3>1. pc \in {"version", "lkg"} /\ lkg \in Files /\ lkgTorn \in BOOLEAN
      BY <2>1, <2>3, CorpusFacts
    <3>2. seqLost' = seqLost
      BY <2>1, <2>3 DEF CInv
    <3> QED
      BY <2>1, <2>3, <3>1, <3>2, CommitStops
  <2> QED
    BY <2>2, <2>3
<1>5. CASE Rollback \/ UNCHANGED corpusVars
  <2>1. UNCHANGED <<vers, lkg, seqf, pc, job, reported, seqLost, lkgTorn>>
    BY <1>5 DEF Rollback, corpusVars
  <2>2. NextSeq' = NextSeq
    BY <2>1 DEF NextSeq, corp_read_seq
  <2>3. (Numbered <=> Numbered') /\ (FilesKept <=> FilesKept')
    BY <2>1, <2>2 DEF Numbered, FilesKept
  <2> QED
    BY <2>1, <2>3 DEF CInv
<1> QED
  BY <1>1, <1>2, <1>3, <1>4, <1>5, WriteLkgKeeps, WriteSeqKeeps DEF CorpusNext

\* The corpus keeps its invariant through commits, failed writes and power
\* losses.
THEOREM CorpusInvariant == CorpusSpec => []CInv
BY CorpusInitInv, CorpusNextInv, PTL DEF CorpusSpec

\* SavedKept: a version that corpus_commit reported stays in its file until
\* its name comes round again, whatever the number of names.
THEOREM VersionsKept == CorpusSpec => []SavedKept
<1>1. CInv => SavedKept
  <2> SUFFICES ASSUME CInv, ~seqLost, NEW s \in reported
               PROVE  \/ vers[corp_name(s.seq)] = s
                      \/ \E t \in reported \cup {job} :
                           t.kind = "text" /\ t.seq > s.seq /\ corp_name(t.seq) = corp_name(s.seq)
    BY DEF SavedKept
  <2> QED
    BY CorpusFacts DEF FilesKept, Retaken
<1> QED
  BY <1>1, CorpusInvariant, PTL

\* Whatever became of corpus.seq: last_known_good holds the version of the
\* commit under way once it was written, and a whole version ever after, until
\* a write of it is cut short.
LkgInv ==
  /\ lkgTorn \in BOOLEAN
  /\ pc # "idle" => job.kind = "text" /\ job.whole
  /\ pc = "seq" => lkg = job /\ ~lkgTorn
  /\ ~lkgTorn /\ reported # {} => lkg.kind = "text" /\ lkg.whole

LEMMA LkgFaultKeeps == ASSUME LkgInv, NEW power \in BOOLEAN, Fault(power), pc \in {"version", "lkg", "seq"} PROVE LkgInv'
<1>1. pc # "idle" /\ pc' = "idle" /\ job' = job
  BY DEF Fault
<1>2. CASE pc = "version"
  <2>1. UNCHANGED <<lkg, reported, lkgTorn>>
    BY <1>2 DEF Fault
  <2> QED
    BY <1>1, <2>1 DEF LkgInv
<1>3. CASE pc = "lkg"
  <2>1. lkgTorn' = (lkgTorn \/ lkg' # lkg) /\ reported' = reported
    BY <1>3 DEF Fault
  <2> QED
    BY <1>1, <2>1 DEF LkgInv
<1>4. CASE pc = "seq"
  <2>1. UNCHANGED <<lkg, lkgTorn>>
    BY <1>4 DEF Fault
  <2> QED
    BY <1>1, <1>4, <2>1 DEF LkgInv
<1> QED
  BY <1>2, <1>3, <1>4

LEMMA LkgNextInv == CInv /\ LkgInv /\ [CorpusNext]_corpusVars => LkgInv'
<1> SUFFICES ASSUME CInv, LkgInv, [CorpusNext]_corpusVars PROVE LkgInv'
  OBVIOUS
<1>1. ASSUME NEW prog \in Programs, Commit(prog) PROVE LkgInv'
  BY <1>1 DEF Commit, Text, LkgInv
<1>2. CASE WriteVersion
  BY <1>2 DEF WriteVersion, LkgInv
<1>3. CASE WriteLkg
  BY <1>3 DEF WriteLkg, LkgInv
<1>4. CASE WriteSeq
  BY <1>4 DEF WriteSeq, LkgInv
<1>5. ASSUME NEW power \in BOOLEAN, Fault(power) PROVE LkgInv'
  <2>1. pc \in {"version", "lkg", "seq"}
    BY <1>5 DEF Fault, CInv
  <2> QED
    BY <1>5, <2>1, LkgFaultKeeps
<1>6. CASE PowerLoss
  BY <1>6 DEF PowerLoss, LkgInv
<1>7. CASE Rollback \/ UNCHANGED corpusVars
  BY <1>7 DEF Rollback, corpusVars, LkgInv
<1> QED
  BY <1>1, <1>2, <1>3, <1>4, <1>5, <1>6, <1>7 DEF CorpusNext

\* RollbackReady: unless the last write of last_known_good was cut short, what
\* corpus_rollback would spawn is a whole version, also when a write of
\* corpus.seq was not completed; if none was cut short, it is kept under its
\* own name as well and not older than any version reported.
THEOREM RollbackIsReady == CorpusSpec => []RollbackReady
<1>1. CorpusInit => LkgInv
  BY DEF CorpusInit, LkgInv
<1>2. CInv /\ LkgInv => RollbackReady
  <2> SUFFICES ASSUME CInv, LkgInv, ~lkgTorn, reported # {}
               PROVE  /\ lkg.kind = "text" /\ lkg.whole
                      /\ ~seqLost => vers[corp_name(lkg.seq)] = lkg /\ \A s \in reported : lkg.seq >= s.seq
    BY DEF RollbackReady
  <2>1. lkg.kind = "text" /\ lkg.whole
    BY DEF LkgInv
  <2>2. ASSUME ~seqLost
        PROVE  vers[corp_name(lkg.seq)] = lkg /\ \A s \in reported : lkg.seq >= s.seq
    BY <2>2, CorpusFacts DEF FilesKept
  <2> QED
    BY <2>1, <2>2
<1> QED
  BY <1>1, <1>2, LkgNextInv, CorpusInvariant, PTL DEF CorpusSpec

\* The number read from digits of the base is a natural one, wherever the
\* size cuts them.
LEMMA NumberTyped ==
  ASSUME NEW f \in {Absent, Empty} \cup SeqFiles
  PROVE  Number(f) \in Nat
<1>1. CASE f \in {Absent, Empty}
  BY <1>1 DEF Number
<1>2. CASE f \notin {Absent, Empty}
  <2> DEFINE n == Min({f.size, Len(f.digits)})
             step == [z \in (1..n) \X Nat |-> z[2] * Base + f.digits[z[1]]]
             Body(g) == [i \in 0..n |-> IF i = 0 THEN 0 ELSE g[i - 1] * Base + f.digits[i]]
             num == CHOOSE g : g = Body(g)
  <2>1. f \in SeqFiles
    BY <1>2
  <2>2. f.size \in Nat /\ f.digits \in Seq(0..(Base - 1)) /\ Len(f.digits) \in Nat
    BY <2>1 DEF SeqFiles
  <2>3. n \in Nat /\ n <= Len(f.digits)
    BY <2>2 DEF Min
  <2>4. Number(f) = num[n]
    BY <1>2 DEF Number
  <2> HIDE DEF n
  <2>5. Base \in Nat /\ \A i \in 1..n : f.digits[i] \in Nat
    <3>1. Base \in Nat
      BY CorpusAssumption DEF CorpusAssumption
    <3>2. ASSUME NEW i \in 1..n PROVE f.digits[i] \in Nat
      <4>1. i \in 1..Len(f.digits)
        BY <2>2, <2>3
      <4>2. \A D : f.digits \in Seq(D) => f.digits[i] \in D
        BY <4>1
      <4>3. f.digits[i] \in 0..(Base - 1)
        BY <2>2, <4>2, Zenon
      <4> QED
        BY <3>1, <4>3
    <3> QED
      BY <3>1, <3>2
  <2>6. \A i \in 1..n, s \in Nat : /\ step[<<i, s>>] = s * Base + f.digits[i]
                                   /\ step[<<i, s>>] \in Nat
    <3> SUFFICES ASSUME NEW i \in 1..n, NEW s \in Nat
                 PROVE  step[<<i, s>>] = s * Base + f.digits[i] /\ step[<<i, s>>] \in Nat
      OBVIOUS
    <3>1. step[<<i, s>>] = s * Base + f.digits[i]
      OBVIOUS
    <3>2. s * Base \in Nat /\ f.digits[i] \in Nat
      BY <2>5
    <3> QED
      BY <3>1, <3>2
  <2> HIDE DEF step
  <2>7. PICK g : Recursive(g, n, 0, step)
    BY <2>3, RecursionExists
  <2>8. \A i \in 0..n : g[i] \in Nat
    BY <2>3, <2>6, <2>7, RecursionTyped
  <2>9. g = Body(g)
    <3>1. \A i \in 0..n : g[i] = IF i = 0 THEN 0 ELSE g[i - 1] * Base + f.digits[i]
      <4> SUFFICES ASSUME NEW i \in 0..n
                   PROVE  g[i] = IF i = 0 THEN 0 ELSE g[i - 1] * Base + f.digits[i]
        OBVIOUS
      <4>1. CASE i = 0
        BY <2>7, <4>1 DEF Recursive
      <4>2. CASE i # 0
        <5>1. i \in 1..n /\ i - 1 \in 0..n
          BY <2>3, <4>2
        <5>2. g[i] = step[<<i, g[i - 1]>>]
          BY <2>7, <5>1 DEF Recursive
        <5> QED
          BY <2>6, <2>8, <4>2, <5>1, <5>2
      <4> QED
        BY <4>1, <4>2
    <3>2. g = [i \in 0..n |-> g[i]]
      BY <2>7 DEF Recursive
    <3> QED
      BY <3>1, <3>2
  <2>10. num = Body(num)
    <3> HIDE DEF Body
    <3> QED
      BY <2>9
  <2> HIDE DEF num
  <2>11. num[0] = 0 /\ \A i \in 1..n : num[i] = num[i - 1] * Base + f.digits[i]
    <3>1. \A i \in 0..n : num[i] = IF i = 0 THEN 0 ELSE num[i - 1] * Base + f.digits[i]
      BY <2>10
    <3> QED
      BY <2>3, <3>1
  <2> DEFINE G == {k \in Nat : num[k] \in Nat}
  <2>12. 0 \in G
    BY <2>11
  <2>13. ASSUME NEW k \in 0..(n - 1), k \in G PROVE k + 1 \in G
    <3>1. k + 1 \in 1..n /\ (k + 1) - 1 = k /\ k + 1 \in Nat
      BY <2>3
    <3>2. num[k + 1] = num[k] * Base + f.digits[k + 1] /\ f.digits[k + 1] \in Nat
      BY <2>5, <2>11, <3>1
    <3>3. num[k] * Base \in Nat
      BY <2>5, <2>13
    <3> QED
      BY <3>1, <3>2, <3>3
  <2>14. n \in G
    <3> HIDE DEF G
    <3>1. \A k \in 0..n : k \in G
      BY <2>3, <2>12, <2>13, UpTo
    <3> QED
      BY <2>3, <3>1
  <2> QED
    BY <2>4, <2>14
<1> QED
  BY <1>1, <1>2

\* Files hold what was written into them or a part of it, whether or not
\* versions were numbered again.
CorpusTyped ==
  /\ vers \in [Names -> Files] /\ lkg \in Files /\ seqf \in {Absent, Empty} \cup SeqFiles
  /\ pc \in {"idle", "version", "lkg", "seq"} /\ (pc # "idle" => job \in Saved)
  /\ spawned \in Programs \cup {NoProgram, "fragment"}

LEMMA CorpusTypedInit == CorpusInit => CorpusTyped
BY DEF CorpusInit, CorpusTyped, Files

LEMMA SeqFileTyped ==
  ASSUME NEW f \in Saved
  PROVE  SeqFile(f.seq + 1) \in SeqFiles
<1>1. f.seq + 1 \in 1..(MaxSeq + 1)
  BY SavedFiles, NameSizes
<1> QED
  BY <1>1, DigitsAssumption DEF DigitsAssumption

LEMMA InterruptedSeqTyped ==
  ASSUME NEW old \in {Absent, Empty} \cup SeqFiles, NEW new \in SeqFiles, NEW f \in InterruptedSeq(old, new)
  PROVE  f \in {Absent, Empty} \cup SeqFiles
<1>1. CASE old \in {Absent, Empty}
  BY <1>1 DEF InterruptedSeq, Absent, Empty
<1>2. CASE old \in SeqFiles
  <2>1. old.kind = "seq" /\ old.size \in Nat
    BY <1>2 DEF SeqFiles
  <2>2. [new EXCEPT !.size = old.size] \in SeqFiles
    BY <2>1 DEF SeqFiles
  <2> QED
    BY <1>2, <2>1, <2>2 DEF InterruptedSeq
<1> QED
  BY <1>1, <1>2

LEMMA CorpusTypedNext == CorpusTyped /\ [CorpusNext]_corpusVars => CorpusTyped'
<1> SUFFICES ASSUME CorpusTyped, [CorpusNext]_corpusVars PROVE CorpusTyped'
  OBVIOUS
<1> USE DEF CorpusTyped
<1>1. ASSUME NEW prog \in Programs, Commit(prog) PROVE CorpusTyped'
  <2>1. /\ NextSeq <= MaxSeq /\ job' = Text(NextSeq, Parent(NextSeq), prog) /\ pc' = "version"
        /\ UNCHANGED <<vers, lkg, seqf, spawned>>
    BY <1>1 DEF Commit
  <2>2. corp_read_seq \in Nat
    BY NumberTyped DEF corp_read_seq
  <2>3. NextSeq \in 1..MaxSeq
    BY <2>1, <2>2, NameSizes DEF NextSeq, Max
  <2>4. job' \in Saved
    BY <2>1, <2>3, TextSaved
  <2> QED
    BY <2>1, <2>4
<1>2. CASE WriteVersion
  <2>1. job \in Files
    BY <1>2, SavedFiles DEF WriteVersion
  <2> QED
    BY <1>2, <2>1 DEF WriteVersion
<1>3. CASE WriteLkg
  <2>1. job \in Files
    BY <1>3, SavedFiles DEF WriteLkg
  <2> QED
    BY <1>3, <2>1 DEF WriteLkg
<1>4. CASE WriteSeq
  <2>1. SeqFile(job.seq + 1) \in SeqFiles
    BY <1>4, SeqFileTyped DEF WriteSeq
  <2> QED
    BY <1>4, <2>1 DEF WriteSeq
<1>5. ASSUME NEW power \in BOOLEAN, Fault(power) PROVE CorpusTyped'
  <2>1. pc # "idle" /\ pc' = "idle" /\ job \in Saved /\ UNCHANGED <<job, spawned>>
    BY <1>5 DEF Fault
  <2>2. CASE pc = "version"
    <3>1. UNCHANGED <<lkg, seqf>>
      BY <1>5, <2>2 DEF Fault
    <3>2. PICK f \in Interrupted(vers[corp_name(job.seq)], job) :
            vers' = [vers EXCEPT ![corp_name(job.seq)] = f]
      BY <1>5, <2>2 DEF Fault
    <3>3. vers[corp_name(job.seq)] \in Files
      BY <2>1, SavedFiles, NamesOf
    <3>4. f \in Files
      BY <2>1, <3>2, <3>3, InterruptedFiles
    <3> QED
      BY <2>1, <3>1, <3>2, <3>4
  <2>3. CASE pc = "lkg"
    <3>1. lkg' \in Interrupted(lkg, job) /\ UNCHANGED <<vers, seqf>>
      BY <1>5, <2>3 DEF Fault
    <3>2. lkg' \in Files
      BY <2>1, <3>1, InterruptedFiles
    <3> QED
      BY <2>1, <3>1, <3>2
  <2>4. CASE pc = "seq"
    <3>1. seqf' \in InterruptedSeq(seqf, SeqFile(job.seq + 1)) /\ UNCHANGED <<vers, lkg>>
      BY <1>5, <2>4 DEF Fault
    <3>2. seqf' \in {Absent, Empty} \cup SeqFiles
      BY <2>1, <3>1, SeqFileTyped, InterruptedSeqTyped
    <3> QED
      BY <2>1, <3>1, <3>2
  <2> QED
    BY <2>1, <2>2, <2>3, <2>4
<1>6. CASE PowerLoss
  BY <1>6 DEF PowerLoss
<1>7. CASE Rollback
  <2>1. /\ spawned' \in IF lkg.kind # "text" THEN {NoProgram}
                        ELSE IF lkg.whole THEN {lkg.prog} ELSE {NoProgram, "fragment"}
        /\ UNCHANGED <<vers, lkg, seqf, pc, job>>
    BY <1>7 DEF Rollback
  <2>2. lkg.kind = "text" => lkg.prog \in Programs
    BY DEF Files, Absent, Empty
  <2> QED
    BY <2>1, <2>2
<1>8. CASE UNCHANGED corpusVars
  BY <1>8 DEF corpusVars
<1> QED
  BY <1>1, <1>2, <1>3, <1>4, <1>5, <1>6, <1>7, <1>8 DEF CorpusNext

-----------------------------------------------------------------------------
(* The interaction log *)

\* Line ends occur in the bytes written exactly where records end.
HistOK(h) ==
  /\ h.bytes \in Seq(Octets) /\ h.ends \subseteq 1..Len(h.bytes)
  /\ \A p \in 1..Len(h.bytes) : h.bytes[p] = "nl" <=> p \in h.ends
  /\ Len(h.bytes) > 0 => Len(h.bytes) \in h.ends

EndsAfter(h, k) == {e \in h.ends : e > k}

\* Log l consists of the last records of h, and counts them.
LogOK(l, h) ==
  \E k \in {0} \cup h.ends : LastRecords(h, l.ring, k) /\ l.records = Cardinality(EndsAfter(h, k))

\* A model has bytes to train on for all that the log grew by since its
\* watermark.
Gated(l, mk, fr) == \A m \in Models : fr[m] \in Nat /\ Len(l.ring) <= mk[m] + fr[m]

\* Log, history and what each model has yet to train on; ok says whether the
\* log stems from complete writes.
LogGood(g, mk, ok) ==
  /\ g.il.ring \in Seq(Octets) /\ Len(g.il.ring) < IL_RING_SIZE /\ HistOK(g.hist)
  /\ ok => LogOK(g.il, g.hist)
  /\ Gated(g.il, mk, g.fresh)

\* The checkpoint f, of the time when the history was h.
FileGood(f, h, ok) ==
  /\ f \in Seq(Octets) /\ HistOK(h)
  /\ f # NoFile /\ ok => \E k \in {0} \cup h.ends : LastRecords(h, f, k)

CapGood == cap \in Seq(Octets) /\ Len(cap) < IL_CAP_MAX

\* The invariant of the log: buffers hold what was put into them, log and
\* checkpoint are the last records of their history, and watermarks and log
\* differ by the bytes not trained on.
LogInv ==
  /\ CapGood
  /\ typed \in Commands \cup {<<>>}
  /\ mark \in [Models -> Nat]
  /\ whole \in [log : BOOLEAN, file : BOOLEAN]
  /\ LogGood(LogState, mark, whole.log)
  /\ FileGood(file, saved, whole.file)

LEMMA RingSizes ==
  /\ IL_RING_SIZE \in Nat /\ IL_RING_SIZE >= 2 /\ IL_CAP_MAX \in Nat /\ IL_CAP_MAX > 0
  /\ IL_FILE_MAX \in Nat /\ IL_FILE_MAX >= 1 /\ 2 * IL_CAP_MAX <= IL_RING_SIZE - 2
  /\ NEW_MIN \in Nat /\ NEW_MIN > 0
BY InteractAssumption DEF InteractAssumption

LEMMA NlIsOctet == "nl" \in Octets
BY DEF Octets

\* Bytes q are a with the record s behind them.
Extended(a, s, q) ==
  /\ q \in Seq(Octets) /\ Len(q) = Len(a) + Len(s) + 1
  /\ \A j \in 1..Len(a) : q[j] = a[j]
  /\ \A j \in 1..Len(s) : q[Len(a) + j] = s[j]
  /\ q[Len(a) + Len(s) + 1] = "nl"

LEMMA ExtendedBy ==
  ASSUME NEW a \in Seq(Octets), NEW s \in Seq(Octets), NEW q \in Seq(Octets),
         Len(q) = Len(s) + 1, \A j \in 1..Len(s) : q[j] = s[j], q[Len(s) + 1] = "nl"
  PROVE  Extended(a, s, a \o q)
<1>1. Len(a) \in Nat /\ Len(s) \in Nat
  OBVIOUS
<1> DEFINE r == a \o q
<1>2. /\ r \in Seq(Octets) /\ Len(r) = Len(a) + Len(q)
      /\ \A i \in 1..(Len(a) + Len(q)) : r[i] = IF i <= Len(a) THEN a[i] ELSE q[i - Len(a)]
  BY ConcatProperties
<1> HIDE DEF r
<1>3. Len(r) = Len(a) + Len(s) + 1
  BY <1>1, <1>2
<1>4. ASSUME NEW j \in 1..Len(a) PROVE r[j] = a[j]
  BY <1>1, <1>2
<1>5. ASSUME NEW j \in 1..(Len(s) + 1) PROVE r[Len(a) + j] = q[j]
  <2>1. Len(a) + j \in 1..(Len(a) + Len(q)) /\ ~ (Len(a) + j <= Len(a)) /\ (Len(a) + j) - Len(a) = j
    BY <1>1
  <2> QED
    BY <1>2, <2>1
<1>6. ASSUME NEW j \in 1..Len(s) PROVE r[Len(a) + j] = s[j]
  <2>1. j \in 1..(Len(s) + 1)
    BY <1>1
  <2> QED
    BY <1>5, <2>1
<1>7. r[Len(a) + Len(s) + 1] = "nl"
  <2>1. Len(s) + 1 \in 1..(Len(s) + 1) /\ Len(a) + (Len(s) + 1) = Len(a) + Len(s) + 1
    BY <1>1
  <2> QED
    BY <1>5, <2>1
<1>8. Extended(a, s, r)
  BY <1>2, <1>3, <1>4, <1>6, <1>7 DEF Extended
<1> QED
  BY <1>8 DEF r

LEMMA ExtendedHist ==
  ASSUME NEW a \in Seq(Octets), NEW s \in Seq(Octets)
  PROVE  Extended(a, s, a \o Append(s, "nl"))
<1> DEFINE q == Append(s, "nl")
<1>1. /\ q \in Seq(Octets) /\ Len(q) = Len(s) + 1 /\ q[Len(s) + 1] = "nl"
      /\ \A j \in 1..Len(s) : q[j] = s[j]
  BY NlIsOctet, AppendProperties
<1> HIDE DEF q
<1>2. Extended(a, s, a \o q)
  BY <1>1, ExtendedBy
<1> QED
  BY <1>2 DEF q

LEMMA ExtendedLog ==
  ASSUME NEW a \in Seq(Octets), NEW s \in Seq(Octets)
  PROVE  Extended(a, s, a \o s \o <<"nl">>)
<1> DEFINE q == Append(s, "nl")
<1>1. a \o s \o <<"nl">> = a \o q
  <2>1. Append(a \o s, "nl") = a \o q
    OBVIOUS
  <2>2. a \o s \in Seq(Octets)
    BY ConcatProperties
  <2>3. Append(a \o s, "nl") = a \o s \o <<"nl">>
    BY <2>2, NlIsOctet, AppendIsConcat
  <2> QED
    BY <2>1, <2>3
<1> QED
  BY <1>1, ExtendedHist

LEMMA SuffixAt ==
  ASSUME NEW r \in Seq(Octets), NEW i \in 0..Len(r), NEW j \in 1..(Len(r) - i)
  PROVE  SubSeq(r, i + 1, Len(r))[j] = r[i + j]
OBVIOUS

\* The end of an end is an end.
LEMMA SuffixOfSuffix ==
  ASSUME NEW b \in Seq(Octets), NEW c \in 0..Len(b), NEW i \in 0..(Len(b) - c), NEW r,
         r = SubSeq(b, c + 1, Len(b))
  PROVE  /\ r \in Seq(Octets) /\ Len(r) = Len(b) - c /\ \A j \in 1..Len(r) : r[j] = b[c + j]
         /\ SubSeq(r, i + 1, Len(r)) = SubSeq(b, (c + i) + 1, Len(b))
<1>1. Len(b) \in Nat /\ c \in Nat /\ i \in Nat
  OBVIOUS
<1>2. r \in Seq(Octets) /\ Len(r) = Len(b) - c
  BY <1>1
<1>3. ASSUME NEW j \in 1..(Len(b) - c) PROVE r[j] = b[c + j]
  BY <1>1
<1>4. \A j \in 1..Len(r) : r[j] = b[c + j]
  BY <1>2, <1>3
<1> DEFINE x == SubSeq(r, i + 1, Len(r))
           y == SubSeq(b, (c + i) + 1, Len(b))
           n == (Len(b) - c) - i
<1>5. x \in Seq(Octets) /\ Len(x) = n /\ y \in Seq(Octets) /\ Len(y) = n
  BY <1>1, <1>2
<1>6. ASSUME NEW j \in 1..n PROVE x[j] = y[j]
  <2>0. j \in Nat /\ i + j \in 1..(Len(b) - c)
    BY <1>1
  <2>1. x[j] = r[i + j]
    <3>1. i \in 0..Len(r) /\ j \in 1..(Len(r) - i)
      BY <1>1, <1>2, <2>0
    <3> QED
      BY <1>2, <3>1, SuffixAt
  <2>2. y[j] = b[c + (i + j)]
    BY <1>1
  <2> QED
    BY <1>3, <2>0, <2>1, <2>2
<1> HIDE DEF x, y, n
<1>7. x = y
  BY <1>5, <1>6, SeqEqual
<1> QED
  BY <1>2, <1>4, <1>7 DEF x, y

LEMMA LastFacts ==
  ASSUME NEW h, HistOK(h), NEW r, NEW c, LastRecords(h, r, c)
  PROVE  /\ Len(h.bytes) \in Nat /\ c \in Nat /\ c <= Len(h.bytes)
         /\ r \in Seq(Octets) /\ Len(r) = Len(h.bytes) - c
         /\ \A j \in 1..Len(r) : r[j] = h.bytes[c + j] /\ (r[j] = "nl" <=> c + j \in h.ends)
         /\ Len(r) > 0 => r[Len(r)] = "nl"
<1> DEFINE b == h.bytes
           n == Len(b)
<1>1. b \in Seq(Octets) /\ n \in Nat /\ h.ends \subseteq 1..n
  BY DEF HistOK
<1>2. c \in 0..n /\ c \in Nat /\ r = SubSeq(b, c + 1, n)
  BY <1>1 DEF LastRecords
<1>3. 0 \in 0..(n - c)
  BY <1>1, <1>2
<1> HIDE DEF b
<1>4. r \in Seq(Octets) /\ Len(r) = n - c /\ \A j \in 1..Len(r) : r[j] = b[c + j]
  BY <1>1, <1>2, <1>3, SuffixOfSuffix
<1>5. ASSUME NEW j \in 1..Len(r) PROVE r[j] = "nl" <=> c + j \in h.ends
  <2>1. c + j \in 1..n
    BY <1>1, <1>2, <1>4
  <2> QED
    BY <1>4, <2>1 DEF HistOK, b
<1>6. ASSUME Len(r) > 0 PROVE r[Len(r)] = "nl"
  <2>1. Len(r) \in 1..Len(r) /\ c + Len(r) = n /\ n > 0
    BY <1>1, <1>2, <1>4, <1>6
  <2>2. n \in h.ends
    BY <2>1 DEF HistOK, b
  <2> QED
    BY <1>5, <2>1, <2>2
<1>7. c <= n
  BY <1>1, <1>2
<1>8. \A j \in 1..Len(r) : r[j] = b[c + j] /\ (r[j] = "nl" <=> c + j \in h.ends)
  BY <1>4, <1>5
<1> QED
  BY <1>1, <1>2, <1>4, <1>6, <1>7, <1>8, Zenon DEF b

\* Dropping whole records at the front leaves the last records.
LEMMA LastOfLast ==
  ASSUME NEW h, HistOK(h), NEW r, NEW c, LastRecords(h, r, c),
         NEW i \in 0..Len(r), i = 0 \/ i = Len(r) \/ r[i] = "nl"
  PROVE  LastRecords(h, SubSeq(r, i + 1, Len(r)), c + i) /\ c + i \in {0} \cup h.ends
<1> DEFINE b == h.bytes
           n == Len(b)
<1>1. /\ n \in Nat /\ c \in Nat /\ c <= n /\ Len(r) = n - c
      /\ \A j \in 1..Len(r) : r[j] = "nl" <=> c + j \in h.ends
      /\ Len(r) > 0 => r[Len(r)] = "nl"
  BY LastFacts
<1>2. b \in Seq(Octets) /\ c \in 0..n /\ i \in 0..(n - c) /\ r = SubSeq(b, c + 1, n)
  BY <1>1 DEF HistOK, LastRecords
<1>3. SubSeq(r, i + 1, Len(r)) = SubSeq(b, (c + i) + 1, n)
  <2> HIDE DEF b
  <2> QED
    BY <1>2, SuffixOfSuffix
<1>4. c + i \in {0} \cup h.ends
  <2>1. CASE i = 0
    <3>1. c \in {0} \cup h.ends /\ c + i = c
      BY <1>1, <2>1 DEF LastRecords
    <3> QED
      BY <3>1
  <2>2. CASE i # 0
    <3>1. i \in 1..Len(r) /\ (i = Len(r) => Len(r) > 0)
      BY <1>1, <2>2
    <3>2. r[i] = "nl"
      BY <1>1, <2>2, <3>1
    <3> QED
      BY <1>1, <3>1, <3>2
  <2> QED
    BY <2>1, <2>2
<1> QED
  BY <1>3, <1>4 DEF LastRecords

EndsUpTo(h, c, k) == {e \in h.ends : e > c /\ e <= c + k}
LinesUpTo(r, k) == {i \in 1..k : r[i] = "nl"}

\* Counting line ends in the log counts records.
LEMMA LinesCount ==
  ASSUME NEW h, HistOK(h), NEW r, NEW c, LastRecords(h, r, c), NEW k \in 0..Len(r)
  PROVE  Cardinality(LinesUpTo(r, k)) = Cardinality(EndsUpTo(h, c, k))
<1> DEFINE n == Len(h.bytes)
           S == LinesUpTo(r, k)
           T == 1..n
           f == [i \in S |-> c + i]
           R == {f[i] : i \in S}
<1>1. /\ n \in Nat /\ c \in Nat /\ c <= n /\ Len(r) = n - c /\ k \in Nat
      /\ \A j \in 1..Len(r) : r[j] = "nl" <=> c + j \in h.ends
  BY LastFacts
<1>2. ASSUME NEW i \in S PROVE i \in 1..Len(r) /\ i \in 1..k /\ c + i \in T /\ c + i \in h.ends /\ i \in Nat
  BY <1>1 DEF LinesUpTo
<1>3. IsFiniteSet(T)
  BY <1>1, FS_Interval
<1>4. f \in [S -> T]
  <2> HIDE DEF S, T
  <2> QED
    BY <1>2
<1>5. \A a, b \in S : f[a] = f[b] => a = b
  <2> HIDE DEF S, T
  <2> QED
    BY <1>1, <1>2
<1>6. R = EndsUpTo(h, c, k)
  <2>1. ASSUME NEW e \in R PROVE e \in EndsUpTo(h, c, k)
    <3>1. PICK i \in S : e = c + i
      OBVIOUS
    <3>2. i \in 1..k /\ c + i \in h.ends
      BY <1>2
    <3> QED
      BY <1>1, <3>1, <3>2 DEF EndsUpTo
  <2>2. ASSUME NEW e \in EndsUpTo(h, c, k) PROVE e \in R
    <3>1. e \in h.ends /\ e > c /\ e <= c + k /\ e \in Nat
      BY <1>1 DEF EndsUpTo, HistOK
    <3>2. e - c \in 1..k /\ e - c \in 1..Len(r) /\ c + (e - c) = e
      BY <1>1, <3>1
    <3>3. e - c \in S
      BY <1>1, <3>1, <3>2 DEF LinesUpTo
    <3>4. f[e - c] = e
      BY <3>2, <3>3
    <3> QED
      BY <3>3, <3>4
  <2> HIDE DEF R
  <2> QED
    BY <2>1, <2>2
<1>7. Cardinality(R) = Cardinality(S)
  <2> HIDE DEF S, T, f
  <2> QED
    BY <1>3, <1>4, <1>5, ImageCount
<1> QED
  BY <1>6, <1>7

LEMMA EndsCount ==
  ASSUME NEW h, HistOK(h), NEW c \in Nat, NEW k \in Nat
  PROVE  /\ Cardinality(EndsAfter(h, c)) =
              Cardinality(EndsUpTo(h, c, k)) + Cardinality(EndsAfter(h, c + k))
         /\ Cardinality(EndsUpTo(h, c, k)) \in Nat /\ Cardinality(EndsAfter(h, c + k)) \in Nat
         /\ IsFiniteSet(EndsAfter(h, c + k))
<1> DEFINE A == EndsUpTo(h, c, k)
           B == EndsAfter(h, c + k)
<1>1. h.ends \subseteq 1..Len(h.bytes) /\ Len(h.bytes) \in Nat
  BY DEF HistOK
<1>2. IsFiniteSet(1..Len(h.bytes))
  BY <1>1, FS_Interval
<1>3. IsFiniteSet(h.ends)
  BY <1>1, <1>2, FS_Subset
<1>4. A \subseteq h.ends /\ B \subseteq h.ends
  BY DEF EndsUpTo, EndsAfter
<1>5. IsFiniteSet(A) /\ IsFiniteSet(B)
  BY <1>3, <1>4, FS_Subset
<1>6. A \cap B = {} /\ A \cup B = EndsAfter(h, c)
  <2>1. \A e \in h.ends : e \in Nat
    BY <1>1
  <2> QED
    BY <2>1 DEF EndsUpTo, EndsAfter
<1> HIDE DEF A, B
<1>7. Cardinality(A) \in Nat /\ Cardinality(B) \in Nat
  BY <1>5, FS_CardinalityType
<1>8. Cardinality(A \cup B) = Cardinality(A) + Cardinality(B) - Cardinality(A \cap B)
  BY <1>5, FS_Union
<1>9. Cardinality(A \cap B) = 0
  BY <1>6, FS_EmptySet
<1>10. Cardinality(A \cup B) = Cardinality(A) + Cardinality(B)
  BY <1>7, <1>8, <1>9
<1> QED
  BY <1>5, <1>6, <1>7, <1>10 DEF A, B

\* Texts of records: no line end in them, and none is ever cut.
Texts == {s \in Seq(Octets) : Len(s) <= IL_RING_SIZE - 2 /\ \A i \in 1..Len(s) : s[i] # "nl"}

LEMMA CutsNothing ==
  ASSUME NEW s \in Texts
  PROVE  Cut(s) = s
<1>1. s \in Seq(Octets) /\ Len(s) \in Nat /\ Len(s) <= IL_RING_SIZE - 2
  BY DEF Texts
<1>2. Min({Len(s), IL_RING_SIZE - 2}) = Len(s)
  BY <1>1, RingSizes DEF Min
<1> QED
  BY <1>1, <1>2 DEF Cut

\* After dropping the first k bytes, up to the end of a record, the text s is
\* behind what remains.
Drops(l, s, k) ==
  /\ k \in 0..Len(l.ring)
  /\ k = 0 \/ k = Len(l.ring) \/ l.ring[k] = "nl"
  /\ Len(l.ring) - k + Len(s) + 1 <= IL_RING_SIZE - 1
  /\ il_append(l, s).ring = SubSeq(l.ring, k + 1, Len(l.ring)) \o s \o <<"nl">>
  /\ il_append(l, s).records =
       Max({0, l.records - Cardinality({i \in Ends(l.ring) : i <= k /\ i > 0})}) + 1

LEMMA AppendDrops ==
  ASSUME NEW l, l.ring \in Seq(Octets), NEW s \in Texts
  PROVE  \E k : Drops(l, s, k)
<1> DEFINE r == l.ring
           K == {i \in {0} \cup Ends(r) : Len(r) - i + Len(s) + 1 <= IL_RING_SIZE - 1}
           k == Min(K)
<1>1. r \in Seq(Octets) /\ Len(r) \in Nat /\ DOMAIN r = 1..Len(r)
  OBVIOUS
<1>2. s \in Seq(Octets) /\ Len(s) \in Nat /\ Len(s) <= IL_RING_SIZE - 2
  BY DEF Texts
<1>3. Ends(r) \subseteq 0..Len(r) /\ Len(r) \in Ends(r)
  BY <1>1 DEF Ends
<1>4. K \subseteq 0..Len(r) /\ Len(r) \in K
  <2>1. Len(r) - Len(r) + Len(s) + 1 <= IL_RING_SIZE - 1
    BY <1>1, <1>2, RingSizes
  <2> QED
    BY <1>1, <1>3, <2>1
<1>5. K \in SUBSET Nat /\ K # {}
  BY <1>1, <1>4
<1> HIDE DEF K
<1>6. k \in K
  BY <1>5, FirstOf
<1>7. /\ k \in 0..Len(r) /\ k \in {0} \cup Ends(r)
      /\ Len(r) - k + Len(s) + 1 <= IL_RING_SIZE - 1
  BY <1>4, <1>6 DEF K
<1>8. k = 0 \/ k = Len(r) \/ r[k] = "nl"
  BY <1>7 DEF Ends
<1>9. /\ il_append(l, s).ring = SubSeq(r, k + 1, Len(r)) \o s \o <<"nl">>
      /\ il_append(l, s).records =
           Max({0, l.records - Cardinality({i \in Ends(r) : i <= k /\ i > 0})}) + 1
  BY CutsNothing DEF il_append, K
<1> HIDE DEF k
<1>10. Drops(l, s, k)
  BY <1>7, <1>8, <1>9 DEF Drops
<1> QED
  BY <1>10

\* What the history becomes with the record s.
HistWith(h, s) ==
  [bytes |-> h.bytes \o Append(s, "nl"), ends |-> h.ends \cup {Len(h.bytes) + (Len(s) + 1)}]

LEMMA HistExtends ==
  ASSUME NEW h, HistOK(h), NEW s \in Texts
  PROVE  HistOK(HistWith(h, s))
<1> DEFINE b == h.bytes
           n == Len(b)
           q == b \o Append(s, "nl")
           g == HistWith(h, s)
           z == n + (Len(s) + 1)
<1>1. b \in Seq(Octets) /\ n \in Nat /\ h.ends \subseteq 1..n /\ \A p \in 1..n : b[p] = "nl" <=> p \in h.ends
  BY DEF HistOK
<1>2. s \in Seq(Octets) /\ Len(s) \in Nat /\ \A i \in 1..Len(s) : s[i] # "nl"
  BY DEF Texts
<1>3. Extended(b, s, q)
  BY <1>1, <1>2, ExtendedHist
<1>4. g.bytes = q /\ g.ends = h.ends \cup {z}
  BY DEF HistWith
<1> HIDE DEF b, q, g
<1>5. /\ q \in Seq(Octets) /\ Len(q) = n + Len(s) + 1
      /\ \A j \in 1..n : q[j] = b[j]
      /\ \A j \in 1..Len(s) : q[n + j] = s[j]
      /\ q[n + Len(s) + 1] = "nl"
  BY <1>3 DEF Extended
<1>6. z = Len(q) /\ z \in 1..Len(q) /\ n \in Nat /\ n < z
  BY <1>1, <1>2, <1>5
<1>7. g.ends \subseteq 1..Len(q)
  BY <1>1, <1>2, <1>4, <1>5, <1>6
<1>8. ASSUME NEW p \in 1..Len(q) PROVE q[p] = "nl" <=> p \in g.ends
  <2>1. CASE p <= n
    <3>1. p \in 1..n /\ p # z
      BY <1>1, <1>6, <2>1
    <3> QED
      BY <1>1, <1>4, <1>5, <3>1
  <2>2. CASE p > n /\ p # z
    <3>1. p \in Nat /\ p < z /\ z = n + Len(s) + 1
      BY <1>1, <1>2, <1>6, <2>2
    <3>2. p - n \in 1..Len(s) /\ n + (p - n) = p
      <4> HIDE DEF n, z
      <4> QED
        BY <1>1, <1>2, <2>2, <3>1
    <3>3. q[p] # "nl"
      BY <1>2, <1>5, <3>2
    <3>4. p \notin h.ends
      BY <1>1, <2>2
    <3> QED
      BY <1>4, <2>2, <3>3, <3>4
  <2>3. CASE p = z
    <3>1. z = n + Len(s) + 1
      BY <1>1, <1>2
    <3> QED
      BY <1>4, <1>5, <2>3, <3>1
  <2> QED
    BY <1>1, <1>6, <2>1, <2>2, <2>3
<1>9. Len(q) \in g.ends
  BY <1>4, <1>6
<1>10. HistOK(g)
  BY <1>4, <1>5, <1>7, <1>8, <1>9 DEF HistOK
<1> QED
  BY <1>10 DEF g

LEMMA AppendTypes ==
  ASSUME NEW l, l.ring \in Seq(Octets), NEW s \in Texts
  PROVE  /\ il_append(l, s).ring \in Seq(Octets)
         /\ Len(il_append(l, s).ring) \in Nat /\ Len(il_append(l, s).ring) < IL_RING_SIZE
         /\ Len(il_append(l, s).ring) <= Len(l.ring) + (Len(s) + 1)
<1> DEFINE r == l.ring
           x == il_append(l, s).ring
<1>1. PICK k : Drops(l, s, k)
  BY AppendDrops
<1> DEFINE a == SubSeq(r, k + 1, Len(r))
<1>2. /\ k \in 0..Len(r) /\ x = a \o s \o <<"nl">>
      /\ Len(r) - k + Len(s) + 1 <= IL_RING_SIZE - 1
  BY <1>1 DEF Drops
<1>3. r \in Seq(Octets) /\ Len(r) \in Nat /\ s \in Seq(Octets) /\ Len(s) \in Nat
  BY DEF Texts
<1> HIDE DEF r
<1>4. a \in Seq(Octets) /\ Len(a) = Len(r) - k
  BY <1>2, <1>3
<1> HIDE DEF a, x
<1>5. Extended(a, s, x)
  BY <1>2, <1>3, <1>4, ExtendedLog
<1>6. x \in Seq(Octets) /\ Len(x) = Len(a) + Len(s) + 1
  BY <1>5 DEF Extended
<1>7. Len(x) \in Nat /\ Len(x) <= Len(r) + (Len(s) + 1)
  BY <1>2, <1>3, <1>4, <1>6
<1>8. Len(x) < IL_RING_SIZE
  BY <1>2, <1>3, <1>4, <1>6, RingSizes
<1> QED
  BY <1>6, <1>7, <1>8 DEF x, r

\* Two sequences that extend the same bytes by the same record.
LEMMA ExtendedSuffix ==
  ASSUME NEW b \in Seq(Octets), NEW c \in 0..Len(b), NEW s \in Seq(Octets), NEW q, NEW a, NEW x,
         Extended(b, s, q), a = SubSeq(b, c + 1, Len(b)), Extended(a, s, x)
  PROVE  x = SubSeq(q, c + 1, Len(q))
<1> DEFINE n == Len(b)
           m == Len(s)
           y == SubSeq(q, c + 1, Len(q))
<1>1. n \in Nat /\ c \in Nat /\ m \in Nat /\ 0 \in 0..(n - c)
  OBVIOUS
<1>2. a \in Seq(Octets) /\ Len(a) = n - c /\ \A j \in 1..Len(a) : a[j] = b[c + j]
  BY <1>1, SuffixOfSuffix
<1>3. /\ q \in Seq(Octets) /\ Len(q) = n + m + 1
      /\ \A j \in 1..n : q[j] = b[j]
      /\ \A j \in 1..m : q[n + j] = s[j]
      /\ q[n + m + 1] = "nl"
  BY DEF Extended
<1>4. /\ x \in Seq(Octets) /\ Len(x) = Len(a) + m + 1
      /\ \A j \in 1..Len(a) : x[j] = a[j]
      /\ \A j \in 1..m : x[Len(a) + j] = s[j]
      /\ x[Len(a) + m + 1] = "nl"
  BY DEF Extended
<1>5. c \in 0..Len(q) /\ 0 \in 0..(Len(q) - c)
  BY <1>1, <1>3
<1>6. y \in Seq(Octets) /\ Len(y) = Len(q) - c /\ \A j \in 1..Len(y) : y[j] = q[c + j]
  BY <1>3, <1>5, SuffixOfSuffix
<1> HIDE DEF n, m, y
<1>7. Len(x) = (n - c) + m + 1 /\ Len(y) = Len(x)
  BY <1>1, <1>2, <1>3, <1>4, <1>6
<1>8. ASSUME NEW j \in 1..Len(x) PROVE x[j] = y[j]
  <2>0. y[j] = q[c + j] /\ j \in Nat
    BY <1>6, <1>7
  <2>1. CASE j <= n - c
    <3>1. j \in 1..Len(a) /\ c + j \in 1..n
      BY <1>1, <1>2, <2>1, <2>0
    <3> QED
      BY <1>2, <1>3, <1>4, <2>0, <3>1
  <2>2. CASE j > n - c /\ j # (n - c) + m + 1
    <3> DEFINE i == j - (n - c)
    <3>0. Len(x) \in Nat /\ j <= Len(x)
      BY <1>4
    <3>1. j > n - c /\ j < (n - c) + m + 1
      BY <1>1, <1>7, <2>2, <2>0, <3>0
    <3>2. i \in 1..m /\ (n - c) + i = j /\ n + i = c + j
      BY <1>1, <2>0, <3>1
    <3>3. Len(a) + i = j
      BY <1>2, <3>2
    <3> HIDE DEF i
    <3>4. x[Len(a) + i] = s[i] /\ q[n + i] = s[i]
      BY <1>3, <1>4, <3>2
    <3> QED
      BY <2>0, <3>2, <3>3, <3>4
  <2>3. CASE j = (n - c) + m + 1
    <3>1. n + m + 1 = c + j
      BY <1>1, <2>3
    <3>2. Len(a) + m + 1 = j
      BY <1>2, <2>3
    <3>3. x[j] = "nl"
      BY <1>4, <3>2
    <3> QED
      BY <1>3, <2>0, <3>1, <3>3
  <2> QED
    BY <1>1, <2>0, <2>1, <2>2, <2>3
<1>9. x = y
  BY <1>4, <1>6, <1>7, <1>8, SeqEqual
<1> QED
  BY <1>9 DEF y

LEMMA AppendKeepsLog ==
  ASSUME NEW l, l.ring \in Seq(Octets), NEW h, HistOK(h), LogOK(l, h), NEW s \in Texts
  PROVE  LogOK(il_append(l, s), HistWith(h, s))
<1> DEFINE r == l.ring
           b == h.bytes
           n == Len(b)
           g == HistWith(h, s)
           q == b \o Append(s, "nl")
           z == n + (Len(s) + 1)
           x == il_append(l, s)
<1>1. PICK c \in {0} \cup h.ends : LastRecords(h, r, c) /\ l.records = Cardinality(EndsAfter(h, c))
  BY DEF LogOK
<1>2. PICK k : Drops(l, s, k)
  BY AppendDrops
<1>3. /\ x.ring = SubSeq(r, k + 1, Len(r)) \o s \o <<"nl">>
      /\ x.records = Max({0, l.records - Cardinality({i \in Ends(r) : i <= k /\ i > 0})}) + 1
  BY <1>2 DEF Drops
<1>4. k \in 0..Len(r)
  BY <1>2 DEF Drops
<1>5. /\ n \in Nat /\ c \in Nat /\ c <= n /\ r \in Seq(Octets) /\ Len(r) = n - c
      /\ Len(r) > 0 => r[Len(r)] = "nl"
  BY <1>1, LastFacts
<1> DEFINE d == c + k
           a == SubSeq(r, k + 1, Len(r))
<1>6. LastRecords(h, a, d) /\ d \in {0} \cup h.ends
  BY <1>1, <1>2, LastOfLast DEF Drops
<1>7. d \in Nat /\ d \in 0..n /\ k \in Nat
  BY <1>4, <1>5
<1>8. b \in Seq(Octets) /\ s \in Seq(Octets) /\ Len(s) \in Nat /\ h.ends \subseteq 1..n
  BY DEF HistOK, Texts
<1>9. a = SubSeq(b, d + 1, n) /\ a \in Seq(Octets)
  BY <1>6, LastFacts DEF LastRecords
<1>10. x.ring = SubSeq(q, d + 1, Len(q))
  <2>1. Extended(b, s, q)
    BY <1>8, ExtendedHist
  <2> HIDE DEF a, b, q, x, d, r
  <2>2. x.ring = a \o s \o <<"nl">>
    BY <1>2 DEF Drops, a, x, r
  <2>3. Extended(a, s, x.ring)
    BY <1>8, <1>9, <2>2, ExtendedLog
  <2> QED
    BY <1>7, <1>8, <1>9, <2>1, <2>3, ExtendedSuffix
<1>11. g.bytes = q /\ g.ends = h.ends \cup {z}
  BY DEF HistWith
<1>12. LastRecords(g, x.ring, d) /\ d \in {0} \cup g.ends
  <2> HIDE DEF g, q, x, d, z
  <2> QED
    BY <1>6, <1>10, <1>11 DEF LastRecords
<1>13. {i \in Ends(r) : i <= k /\ i > 0} = LinesUpTo(r, k)
  <2>1. DOMAIN r = 1..Len(r) /\ Len(r) \in Nat
    BY <1>5
  <2> HIDE DEF r
  <2> QED
    BY <1>4, <1>5, <2>1 DEF Ends, LinesUpTo
<1>14. Cardinality(LinesUpTo(r, k)) = Cardinality(EndsUpTo(h, c, k))
  BY <1>1, <1>4, LinesCount
<1>15. /\ Cardinality(EndsAfter(h, c)) = Cardinality(EndsUpTo(h, c, k)) + Cardinality(EndsAfter(h, d))
       /\ Cardinality(EndsUpTo(h, c, k)) \in Nat /\ Cardinality(EndsAfter(h, d)) \in Nat
       /\ IsFiniteSet(EndsAfter(h, d))
  BY <1>5, <1>7, EndsCount
<1>16. x.records = Cardinality(EndsAfter(h, d)) + 1
  <2> DEFINE E == Cardinality(EndsAfter(h, d))
             U == Cardinality(EndsUpTo(h, c, k))
  <2>1. x.records = Max({0, l.records - U}) + 1 /\ l.records = U + E
    BY <1>1, <1>2, <1>13, <1>14, <1>15 DEF Drops
  <2>2. E \in Nat /\ U \in Nat
    BY <1>15
  <2> HIDE DEF E, U
  <2>3. (U + E) - U = E
    BY <2>2
  <2>4. Max({0, E}) = E
    BY <2>2 DEF Max
  <2>5. x.records = E + 1
    BY <2>1, <2>3, <2>4
  <2> QED
    BY <2>5 DEF E
<1>17. EndsAfter(g, d) = EndsAfter(h, d) \cup {z} /\ z \notin EndsAfter(h, d)
  <2>0. z = n + (Len(s) + 1)
    OBVIOUS
  <2> HIDE DEF z, d, g, n
  <2>1. z > n /\ z \notin 1..n /\ z \in Nat
    BY <1>5, <1>8, <2>0
  <2>2. z > d
    BY <1>5, <1>7, <2>1
  <2>3. z \notin h.ends
    BY <1>8, <2>1
  <2> QED
    BY <1>11, <2>2, <2>3 DEF EndsAfter
<1>18. Cardinality(EndsAfter(g, d)) = Cardinality(EndsAfter(h, d)) + 1
  <2> HIDE DEF z, d, g
  <2> QED
    BY <1>15, <1>17, FS_AddElement
<1> HIDE DEF x, g, d
<1>19. LogOK(x, g)
  BY <1>12, <1>16, <1>18 DEF LogOK
<1> QED
  BY <1>19 DEF x, g

\* What a character becomes in a record: at most two, no line end.
LEMMA EscapeSpec ==
  ASSUME NEW c \in Octets
  PROVE  Escape(c) \in Seq(Octets \ {"nl"}) /\ Len(Escape(c)) <= 2
<1> DEFINE S == Octets \ {"nl"}
<1>1. "\\" \in S /\ "n" \in S /\ "r" \in S /\ "t" \in S
  BY DEF Octets
<1> HIDE DEF S
<1>2. CASE c \in {"\\", "nl", "cr", "tab", "ctl"}
  <2>1. /\ <<"\\", "\\">> \in Seq(S) /\ <<"\\", "n">> \in Seq(S) /\ <<"\\", "r">> \in Seq(S)
        /\ <<"\\", "t">> \in Seq(S) /\ <<>> \in Seq(S)
    BY <1>1
  <2>2. /\ Len(<<"\\", "\\">>) = 2 /\ Len(<<"\\", "n">>) = 2 /\ Len(<<"\\", "r">>) = 2
        /\ Len(<<"\\", "t">>) = 2 /\ Len(<<>>) = 0
    OBVIOUS
  <2>3. \/ Escape(c) = <<"\\", "\\">> \/ Escape(c) = <<"\\", "n">> \/ Escape(c) = <<"\\", "r">>
        \/ Escape(c) = <<"\\", "t">> \/ Escape(c) = <<>>
    BY <1>2 DEF Escape
  <2>4. Len(Escape(c)) = 2 \/ Len(Escape(c)) = 0
    BY <2>2, <2>3, Zenon
  <2>5. Escape(c) \in Seq(S)
    BY <2>1, <2>3, Zenon
  <2>6. Len(Escape(c)) <= 2
    BY <2>4
  <2> QED
    BY <2>5, <2>6 DEF S
<1>3. CASE c \notin {"\\", "nl", "cr", "tab", "ctl"}
  <2>1. Escape(c) = <<c>>
    BY <1>3 DEF Escape
  <2>2. c \in S
    BY <1>3 DEF S
  <2>3. <<c>> \in Seq(S) /\ Len(<<c>>) = 1
    BY <2>2
  <2>4. Escape(c) \in Seq(S) /\ Len(Escape(c)) <= 2
    BY <2>1, <2>3
  <2> QED
    BY <2>4 DEF S
<1> QED
  BY <1>2, <1>3

LEMMA TaggedText ==
  ASSUME NEW tag \in Octets \ {"nl"}, NEW s \in Seq(Octets), 2 * Len(s) + 1 <= IL_RING_SIZE - 2
  PROVE  Tagged(tag, s) \in Texts
<1> DEFINE S == Octets \ {"nl"}
           q == [i \in DOMAIN s |-> Escape(s[i])]
           f == FlattenSeq(q)
           t == <<tag>> \o f
<1>1. Len(s) \in Nat /\ DOMAIN s = 1..Len(s) /\ tag \in S
  OBVIOUS
<1>2. \A i \in 1..Len(s) : Escape(s[i]) \in Seq(S) /\ Len(Escape(s[i])) <= 2
  BY EscapeSpec
<1> HIDE DEF S
<1>3. q \in Seq(Seq(S)) /\ Len(q) = Len(s) /\ \A i \in 1..Len(q) : Len(q[i]) <= 2
  BY <1>1, <1>2
<1> HIDE DEF q
<1>4. f \in Seq(S) /\ Len(f) <= 2 * Len(q)
  BY <1>3, FlattenSpec
<1> HIDE DEF f
<1>5. t \in Seq(S) /\ Len(t) = 1 + Len(f) /\ Len(f) \in Nat
  BY <1>1, <1>4
<1> HIDE DEF t
<1>6. Len(t) <= IL_RING_SIZE - 2
  BY <1>1, <1>3, <1>4, <1>5, RingSizes
<1>7. t \in Seq(Octets) /\ \A i \in 1..Len(t) : t[i] # "nl"
  BY <1>5 DEF S
<1>8. t \in Texts
  BY <1>6, <1>7 DEF Texts
<1> QED
  BY <1>8 DEF t, f, q, Tagged

LEMMA TagText ==
  ASSUME NEW tag \in Octets \ {"nl"}
  PROVE  <<tag>> \in Texts
<1>1. 1 <= IL_RING_SIZE - 2
  BY RingSizes
<1>2. <<tag>> \in Seq(Octets) /\ Len(<<tag>>) = 1 /\ <<tag>>[1] = tag
  OBVIOUS
<1>3. \A i \in 1..1 : <<tag>>[i] # "nl"
  BY <1>2
<1> QED
  BY <1>1, <1>2, <1>3 DEF Texts

LEMMA AppendedKeeps ==
  ASSUME NEW g, NEW mk \in [Models -> Nat], NEW ok, LogGood(g, mk, ok), NEW s \in Texts
  PROVE  LogGood(Appended(g, s), mk, ok)
<1> DEFINE a == Appended(g, s)
           l == il_append(g.il, s)
           n == Len(s) + 1
<1>1. /\ a.il = l /\ a.hist = HistWith(g.hist, s)
      /\ a.fresh = [m \in Models |-> g.fresh[m] + n]
  BY DEF Appended, HistWith
<1>2. g.il.ring \in Seq(Octets) /\ HistOK(g.hist) /\ (ok => LogOK(g.il, g.hist)) /\ Gated(g.il, mk, g.fresh)
  BY DEF LogGood
<1>3. /\ l.ring \in Seq(Octets) /\ Len(l.ring) \in Nat /\ Len(l.ring) <= Len(g.il.ring) + n
      /\ Len(l.ring) < IL_RING_SIZE
  BY <1>2, AppendTypes
<1>4. n \in Nat /\ Len(g.il.ring) \in Nat
  BY <1>2 DEF Texts
<1>5. HistOK(HistWith(g.hist, s))
  BY <1>2, HistExtends
<1>6. ok => LogOK(l, HistWith(g.hist, s))
  BY <1>2, AppendKeepsLog
<1> HIDE DEF a, l, n
<1>7. ASSUME NEW m \in Models
      PROVE  a.fresh[m] \in Nat /\ Len(l.ring) <= mk[m] + a.fresh[m]
  <2>1. g.fresh[m] \in Nat /\ Len(g.il.ring) <= mk[m] + g.fresh[m]
    BY <1>2 DEF Gated
  <2>2. a.fresh[m] = g.fresh[m] + n
    BY <1>1
  <2> DEFINE L == Len(l.ring)
             G == Len(g.il.ring)
             F == g.fresh[m]
             M == mk[m]
             X == a.fresh[m]
  <2>3. /\ L \in Nat /\ G \in Nat /\ F \in Nat /\ M \in Nat /\ n \in Nat
        /\ X = F + n /\ G <= M + F /\ L <= G + n
    BY <1>3, <1>4, <2>1, <2>2
  <2> HIDE DEF L, G, F, M, X
  <2>4. X \in Nat /\ L <= M + X
    BY <2>3
  <2> QED
    BY <2>4, Zenon DEF L, M, X
<1>8. Gated(l, mk, a.fresh)
  BY <1>7, Zenon DEF Gated
<1>9. LogGood(a, mk, ok)
  BY <1>1, <1>3, <1>5, <1>6, <1>8, Zenon DEF LogGood
<1> QED
  BY <1>9 DEF a

LEMMA CapturedGood ==
  ASSUME CapGood, NEW s \in Seq(Octets)
  PROVE  Captured(s) \in Seq(Octets) /\ Len(Captured(s)) < IL_CAP_MAX
<1> DEFINE q == cap \o s
           n == Min({Len(cap) + Len(s), IL_CAP_MAX - 1})
<1>1. cap \in Seq(Octets) /\ Len(cap) \in Nat /\ Len(s) \in Nat /\ Len(cap) < IL_CAP_MAX
  BY DEF CapGood
<1>2. q \in Seq(Octets) /\ Len(q) = Len(cap) + Len(s)
  BY <1>1, ConcatProperties
<1>3. n \in Nat /\ n <= Len(q) /\ n <= IL_CAP_MAX - 1
  <2>1. Len(cap) + Len(s) \in Nat /\ IL_CAP_MAX - 1 \in Nat
    BY <1>1, RingSizes
  <2>2. {Len(cap) + Len(s), IL_CAP_MAX - 1} \in SUBSET Nat
    BY <2>1
  <2>3. /\ n \in {Len(cap) + Len(s), IL_CAP_MAX - 1}
        /\ \A j \in {Len(cap) + Len(s), IL_CAP_MAX - 1} : n <= j
    BY <2>2, FirstOf
  <2> QED
    BY <1>2, <2>1, <2>3
<1> HIDE DEF q, n
<1>4. SubSeq(q, 1, n) \in Seq(Octets) /\ Len(SubSeq(q, 1, n)) = n
  BY <1>2, <1>3
<1>5. CASE cap_on
  <2>1. Captured(s) = SubSeq(q, 1, n)
    BY <1>5 DEF Captured, q, n
  <2> QED
    BY <1>3, <1>4, <2>1, RingSizes
<1>6. CASE ~cap_on
  BY <1>1, <1>6 DEF Captured
<1> QED
  BY <1>5, <1>6

LEMMA WindowGood ==
  ASSUME il.ring \in Seq(Octets), HistOK(hist)
  PROVE  /\ Window \in Seq(Octets) /\ Len(Window) <= IL_FILE_MAX
         /\ LogOK(il, hist) => \E k \in {0} \cup hist.ends : LastRecords(hist, Window, k)
<1> DEFINE r == il.ring
           n == Len(r)
           off == n - Min({n, IL_FILE_MAX})
           ends == {i \in (off + 1)..n : r[i] = "nl"}
           j == IF n > IL_FILE_MAX /\ ends # {} THEN Min(ends) ELSE off
<1>1. r \in Seq(Octets) /\ n \in Nat
  OBVIOUS
<1>2. /\ off \in Nat /\ off <= n
      /\ n <= IL_FILE_MAX => off = 0
      /\ n > IL_FILE_MAX => off < n
      /\ n - off <= IL_FILE_MAX
  <2>1. {n, IL_FILE_MAX} \in SUBSET Nat
    BY <1>1, RingSizes
  <2>2. Min({n, IL_FILE_MAX}) \in {n, IL_FILE_MAX} /\ \A i \in {n, IL_FILE_MAX} : Min({n, IL_FILE_MAX}) <= i
    BY <2>1, FirstOf
  <2> DEFINE z == Min({n, IL_FILE_MAX})
  <2>3. (z = n \/ z = IL_FILE_MAX) /\ z <= n /\ z <= IL_FILE_MAX /\ off = n - z
    BY <2>2
  <2> HIDE DEF z, off
  <2> QED
    BY <1>1, <2>3, RingSizes
<1> HIDE DEF off
<1>3. ASSUME ends # {} PROVE Min(ends) \in ends /\ Min(ends) \in 1..n /\ Min(ends) > off
  <2>1. ends \in SUBSET Nat
    BY <1>1, <1>2
  <2>2. Min(ends) \in ends
    BY <1>3, <2>1, FirstOf
  <2> QED
    BY <1>1, <1>2, <2>2
<1>4. Window = SubSeq(r, j + 1, n)
  BY DEF Window, Len0, off
<1>5. j \in 0..n /\ j >= off
  BY <1>1, <1>2, <1>3
<1>6. Window \in Seq(Octets) /\ Len(Window) <= IL_FILE_MAX
  <2> HIDE DEF j, n
  <2>1. n - j <= IL_FILE_MAX
    BY <1>1, <1>2, <1>5, RingSizes
  <2>2. SubSeq(r, j + 1, n) \in Seq(Octets) /\ Len(SubSeq(r, j + 1, n)) = n - j
    BY <1>1, <1>5 DEF n
  <2> QED
    BY <1>4, <2>1, <2>2
<1>7. ASSUME LogOK(il, hist) PROVE \E k \in {0} \cup hist.ends : LastRecords(hist, Window, k)
  <2>1. PICK c \in {0} \cup hist.ends : LastRecords(hist, r, c)
    BY <1>7 DEF LogOK
  <2>2. n > 0 => r[n] = "nl"
    BY <2>1, LastFacts
  <2>3. j = 0 \/ j = n \/ r[j] = "nl"
    <3>1. CASE n <= IL_FILE_MAX
      BY <1>1, <1>2, <3>1, RingSizes
    <3>2. CASE n > IL_FILE_MAX
      <4>1. n \in (off + 1)..n /\ r[n] = "nl"
        BY <1>1, <1>2, <2>2, <3>2, RingSizes
      <4>2. ends # {}
        BY <4>1
      <4>3. r[Min(ends)] = "nl"
        BY <1>3, <4>2
      <4> QED
        BY <3>2, <4>2, <4>3
    <3>3. n <= IL_FILE_MAX \/ n > IL_FILE_MAX
      BY <1>1, RingSizes
    <3> HIDE DEF j, n
    <3> QED
      BY <3>1, <3>2, <3>3
  <2> HIDE DEF j
  <2>4. LastRecords(hist, SubSeq(r, j + 1, n), c + j) /\ c + j \in {0} \cup hist.ends
    BY <1>5, <2>1, <2>3, LastOfLast
  <2> QED
    BY <1>4, <2>4
<1> QED
  BY <1>6, <1>7

LEMMA EmptyLog ==
  ASSUME NEW l, l.ring = <<>>, l.records = 0
  PROVE  HistOK(NoBytes) /\ LogOK(l, NoBytes)
<1>1. NoBytes.bytes = <<>> /\ NoBytes.ends = {}
  BY DEF NoBytes
<1>2. HistOK(NoBytes)
  BY <1>1 DEF HistOK
<1>3. EndsAfter(NoBytes, 0) = {}
  BY <1>1 DEF EndsAfter
<1>4. Cardinality(EndsAfter(NoBytes, 0)) = 0
  BY <1>3, FS_EmptySet
<1>5. LastRecords(NoBytes, <<>>, 0)
  BY <1>1 DEF LastRecords
<1> QED
  BY <1>2, <1>4, <1>5 DEF LogOK

\* il_load counts the records of a checkpoint by their line ends.
LEMMA LoadedLog ==
  ASSUME NEW h, HistOK(h), NEW r, NEW k \in {0} \cup h.ends, LastRecords(h, r, k),
         NEW l, l.ring = r, l.records = Cardinality({i \in DOMAIN r : r[i] = "nl"})
  PROVE  LogOK(l, h)
<1> DEFINE n == Len(r)
<1>0. r \in Seq(Octets) /\ k \in Nat /\ Len(r) = Len(h.bytes) - k /\ Len(h.bytes) \in Nat
  BY LastFacts
<1>1. r \in Seq(Octets) /\ n \in Nat /\ k \in Nat /\ n = Len(h.bytes) - k /\ Len(h.bytes) \in Nat
  BY <1>0
<1>2. {i \in DOMAIN r : r[i] = "nl"} = LinesUpTo(r, n)
  BY <1>1 DEF LinesUpTo
<1>3. Cardinality(LinesUpTo(r, n)) = Cardinality(EndsUpTo(h, k, n))
  BY <1>1, LinesCount
<1>4. k + n = Len(h.bytes)
  BY <1>1
<1>5. EndsUpTo(h, k, n) = EndsAfter(h, k)
  <2>1. \A e \in h.ends : e <= k + n
    BY <1>1, <1>4 DEF HistOK
  <2> QED
    BY <2>1 DEF EndsUpTo, EndsAfter
<1> QED
  BY <1>2, <1>3, <1>5 DEF LogOK

\* What is captured of a message of the shell is good.
LEMMA MessageGood ==
  ASSUME CapGood, cap' = Captured(<<"x">>)
  PROVE  CapGood'
<1>1. "x" \in Octets
  BY DEF Octets
<1>2. <<"x">> \in Seq(Octets)
  BY <1>1
<1> QED
  BY <1>2, CapturedGood DEF CapGood

LEMMA BeginGood ==
  ASSUME LogInv, NEW c \in Commands, Begin(c)
  PROVE  LogInv'
<1>1. CapGood'
  BY RingSizes DEF Begin, CapGood
<1>2. typed' \in Commands \cup {<<>>}
  BY DEF Begin
<1>3. UNCHANGED <<il, hist, fresh, mark, whole, file, saved>>
  BY DEF Begin, Idle, Rest
<1> QED
  BY <1>1, <1>2, <1>3, Zenon DEF LogInv, LogState

LEMMA PutGood ==
  ASSUME LogInv, NEW c \in Output, Put(c)
  PROVE  LogInv'
<1>1. CapGood'
  <2>1. <<c>> \in Seq(Octets) /\ CapGood
    BY DEF Octets, LogInv
  <2> QED
    BY <2>1, CapturedGood DEF Put, CapGood
<1>2. UNCHANGED <<typed, il, hist, fresh, mark, whole, file, saved>>
  BY DEF Put, Idle, Rest
<1> QED
  BY <1>1, <1>2, Zenon DEF LogInv, LogState

LEMMA StrippedGood ==
  ASSUME CapGood, Stripped # <<>>
  PROVE  OutputRecord(Stripped) \in Texts
<1> DEFINE I == {i \in DOMAIN cap : cap[i] \notin {"nl", "cr"}}
           n == Max({0} \cup I)
           t == Stripped
<1>1. cap \in Seq(Octets) /\ Len(cap) \in Nat /\ Len(cap) < IL_CAP_MAX
  BY DEF CapGood
<1>2. {0} \cup I \subseteq 0..Len(cap) /\ {0} \cup I # {}
  BY <1>1
<1>3. n \in 0..Len(cap)
  <2> DEFINE J == {0} \cup I
  <2>1. J \in SUBSET (0..Len(cap)) /\ J # {}
    BY <1>2
  <2> HIDE DEF J
  <2>2. Max(J) \in J
    BY <1>1, <2>1, LastOf
  <2> QED
    BY <2>1, <2>2 DEF J
<1>4. t = SubSeq(cap, 1, n)
  BY DEF Stripped
<1> HIDE DEF n, t
<1>5. t \in Seq(Octets) /\ Len(t) = n /\ n \in Nat
  BY <1>1, <1>3, <1>4
<1>6. 2 * Len(t) + 1 <= IL_RING_SIZE - 2
  <2>1. n + 1 <= IL_CAP_MAX
    BY <1>1, <1>3, RingSizes
  <2> QED
    BY <1>5, <2>1, RingSizes
<1>7. "ERR" \in Octets \ {"nl"} /\ "OUT" \in Octets \ {"nl"}
  BY DEF Octets
<1>8. t # <<>>
  BY DEF t
<1>9. Tail(t) \in Seq(Octets) /\ Len(Tail(t)) = Len(t) - 1
  BY <1>5, <1>8
<1>10. 2 * Len(Tail(t)) + 1 <= IL_RING_SIZE - 2
  BY <1>5, <1>6, <1>9, RingSizes
<1>11. Tagged("ERR", Tail(t)) \in Texts /\ Tagged("OUT", t) \in Texts
  BY <1>5, <1>6, <1>7, <1>9, <1>10, TaggedText
<1> QED
  BY <1>11 DEF OutputRecord, t

LEMMA EndGood ==
  ASSUME LogInv, End
  PROVE  LogInv'
<1> DEFINE g0 == LogState
           g1 == Appended(g0, <<"TICK">>)
           g2 == Appended(g1, Tagged("CMD", typed))
           g3 == Appended(g2, OutputRecord(Stripped))
           ok == whole.log
<1>1. /\ CapGood /\ mark \in [Models -> Nat] /\ LogGood(g0, mark, ok) /\ typed \in Commands
  BY DEF LogInv, End, Running
<1>2. "TICK" \in Octets \ {"nl"} /\ "CMD" \in Octets \ {"nl"}
  BY DEF Octets
<1>3. typed \in Seq(Octets) /\ 2 * Len(typed) + 1 <= IL_RING_SIZE - 2
  BY <1>1, InteractAssumption DEF InteractAssumption
<1>4. <<"TICK">> \in Texts /\ Tagged("CMD", typed) \in Texts
  BY <1>2, <1>3, TagText, TaggedText
<1> HIDE DEF g0, ok
<1>5. LogGood(g1, mark, ok)
  BY <1>1, <1>4, AppendedKeeps
<1> HIDE DEF g1
<1>6. LogGood(g2, mark, ok)
  BY <1>1, <1>4, <1>5, AppendedKeeps
<1> HIDE DEF g2
<1>7. ASSUME Stripped # <<>> PROVE LogGood(g3, mark, ok)
  BY <1>1, <1>6, <1>7, StrippedGood, AppendedKeeps
<1> HIDE DEF g3
<1> DEFINE e == IF Stripped = <<>> THEN g2 ELSE g3
<1>8. LogGood(e, mark, ok)
  BY <1>6, <1>7
<1>9. il' = e.il /\ hist' = e.hist /\ fresh' = e.fresh
  BY DEF End, LogBecomes, g0, g1, g2, g3
<1>10. UNCHANGED <<mark, whole, file, saved>> /\ typed' = <<>> /\ cap' = <<>>
  BY DEF End, Idle, Rest
<1> HIDE DEF e
<1>11. LogGood(LogState, mark, whole.log)'
  BY <1>8, <1>9, <1>10 DEF LogGood, LogState, ok
<1>12. CapGood'
  BY <1>10, RingSizes DEF CapGood
<1> QED
  BY <1>10, <1>11, <1>12, Zenon DEF LogInv

LEMMA EventGood ==
  ASSUME LogInv, NEW tag \in {"SPAWN", "EXIT"}, Event(tag)
  PROVE  LogInv'
<1> DEFINE g == LogState
           e == Appended(g, <<tag>>)
           ok == whole.log
<1>1. CapGood /\ mark \in [Models -> Nat] /\ LogGood(g, mark, ok)
  BY DEF LogInv
<1>2. tag \in Octets \ {"nl"}
  BY DEF Octets
<1>3. <<tag>> \in Texts
  BY <1>2, TagText
<1> HIDE DEF g, ok
<1>4. LogGood(e, mark, ok)
  BY <1>1, <1>3, AppendedKeeps
<1>5. il' = e.il /\ hist' = e.hist /\ fresh' = e.fresh
  BY DEF Event, LogBecomes, g
<1>6. UNCHANGED <<mark, whole, file, saved, typed, cap>>
  BY DEF Event, Idle, Rest
<1> HIDE DEF e
<1>7. LogGood(LogState, mark, whole.log)'
  BY <1>4, <1>5, <1>6 DEF LogGood, LogState, ok
<1> QED
  BY <1>6, <1>7, Zenon DEF LogInv, CapGood

LEMMA SaveGood ==
  ASSUME LogInv, LogSave
  PROVE  LogInv'
<1>1. il.ring \in Seq(Octets) /\ HistOK(hist) /\ (whole.log => LogOK(il, hist)) /\ CapGood
  BY DEF LogInv, LogGood, LogState
<1>2. /\ file' = Window /\ saved' = hist /\ cap' = Captured(<<"x">>)
      /\ whole' = [whole EXCEPT !.file = whole.log]
      /\ UNCHANGED <<il, hist, fresh, mark, typed>>
  BY DEF LogSave, Idle
<1>3. CapGood'
  BY <1>1, <1>2, MessageGood
<1>4. whole' \in [log : BOOLEAN, file : BOOLEAN] /\ whole'.log = whole.log /\ whole'.file = whole.log
  BY <1>2 DEF LogInv
<1>5. FileGood(Window, hist, whole.log)
  BY <1>1, WindowGood, Zenon DEF FileGood
<1>6. FileGood(file, saved, whole.file)'
  BY <1>2, <1>4, <1>5, Zenon
<1>7. LogGood(LogState, mark, whole.log)'
  BY <1>2, <1>4, Zenon DEF LogInv, LogState
<1> QED
  BY <1>2, <1>3, <1>4, <1>6, <1>7, Zenon DEF LogInv

LEMMA SaveFailsGood ==
  ASSUME LogInv, LogSaveFails
  PROVE  LogInv'
<1>1. il.ring \in Seq(Octets) /\ HistOK(hist) /\ CapGood /\ file \in Seq(Octets) /\ HistOK(saved)
  BY DEF LogInv, LogGood, LogState, FileGood
<1>2. /\ cap' = Captured(<<"x">>) /\ UNCHANGED <<il, hist, fresh, mark, typed, saved>>
      /\ \/ UNCHANGED <<file, whole>>
         \/ /\ Len(Window) > Len(file) /\ file' = SubSeq(Window, 1, Len(file))
            /\ whole' = [whole EXCEPT !.file = FALSE]
  BY DEF LogSaveFails, Idle
<1>3. CapGood'
  BY <1>1, <1>2, MessageGood
<1>4. CASE UNCHANGED <<file, whole>>
  BY <1>2, <1>3, <1>4, Zenon DEF LogInv, LogState
<1>5. CASE /\ Len(Window) > Len(file) /\ file' = SubSeq(Window, 1, Len(file))
           /\ whole' = [whole EXCEPT !.file = FALSE]
  <2>1. whole' \in [log : BOOLEAN, file : BOOLEAN] /\ whole'.log = whole.log /\ whole'.file = FALSE
    BY <1>5 DEF LogInv
  <2>2. file' \in Seq(Octets)
    <3> DEFINE win == Window
               n == Len(file)
    <3>1. win \in Seq(Octets) /\ n \in Nat /\ n < Len(win) /\ Len(win) \in Nat
      BY <1>1, <1>5, WindowGood
    <3> HIDE DEF win, n
    <3>2. SubSeq(win, 1, n) \in Seq(Octets)
      BY <3>1
    <3> QED
      BY <1>5, <3>2 DEF win, n
  <2>3. FileGood(file, saved, whole.file)'
    BY <1>1, <1>2, <2>1, <2>2, Zenon DEF FileGood
  <2>4. LogGood(LogState, mark, whole.log)'
    BY <1>2, <2>1, Zenon DEF LogInv, LogState
  <2> QED
    BY <1>2, <1>3, <2>1, <2>3, <2>4, Zenon DEF LogInv
<1> QED
  BY <1>2, <1>4, <1>5

LEMMA ClearGood ==
  ASSUME LogInv, LogClear
  PROVE  LogInv'
<1>1. /\ il.ring \in Seq(Octets) /\ CapGood /\ Gated(il, mark, fresh)
      /\ mark \in [Models -> Nat]
  BY DEF LogInv, LogGood, LogState
<1>2. /\ il' = NoLog /\ hist' = NoBytes /\ whole' = [whole EXCEPT !.log = TRUE]
      /\ cap' = Captured(<<"x">>) /\ UNCHANGED <<file, saved, fresh, mark, typed>>
  BY DEF LogClear, Idle
<1>3. CapGood'
  BY <1>1, <1>2, MessageGood
<1>4. whole' \in [log : BOOLEAN, file : BOOLEAN] /\ whole'.log = TRUE /\ whole'.file = whole.file
  BY <1>2 DEF LogInv
<1>5. il'.ring = <<>> /\ il'.records = 0 /\ Len(<<>>) = 0 /\ <<>> \in Seq(Octets)
  BY <1>2 DEF NoLog
<1>6. HistOK(hist') /\ LogOK(il', hist')
  BY <1>2, <1>5, EmptyLog
<1>7. ASSUME NEW m \in Models
      PROVE  fresh'[m] \in Nat /\ 0 <= mark'[m] + fresh'[m]
  <2>1. fresh[m] \in Nat
    BY <1>1 DEF Gated
  <2>2. mark[m] \in Nat /\ fresh'[m] = fresh[m] /\ mark'[m] = mark[m]
    BY <1>1, <1>2
  <2> QED
    BY <2>1, <2>2
<1>8. Gated(il', mark', fresh')
  BY <1>5, <1>7, Zenon DEF Gated
<1>9. 0 < IL_RING_SIZE
  BY RingSizes
<1>10. LogGood(LogState, mark, whole.log)'
  <2>1. LogState'.il = il' /\ LogState'.hist = hist' /\ LogState'.fresh = fresh'
    BY DEF LogState
  <2> QED
    BY <1>5, <1>6, <1>8, <1>9, <2>1, Zenon DEF LogGood
<1> QED
  BY <1>2, <1>3, <1>4, <1>10, Zenon DEF LogInv

LEMMA RebootGood ==
  ASSUME LogInv, Reboot
  PROVE  LogInv'
<1> DEFINE r == IF file = NoFile \/ Len(file) > IL_FILE_MAX THEN <<>> ELSE file
<1>1. /\ file \in Seq(Octets) /\ HistOK(saved) /\ whole \in [log : BOOLEAN, file : BOOLEAN]
      /\ file # NoFile /\ whole.file => \E k \in {0} \cup saved.ends : LastRecords(saved, file, k)
  BY DEF LogInv, FileGood
<1>2. /\ il' = [ring |-> r, records |-> Cardinality({i \in DOMAIN r : r[i] = "nl"})]
      /\ cap' = <<>> /\ typed' = <<>>
      /\ mark' = [m \in Models |-> Len(r)]
      /\ hist' = (IF r = <<>> THEN NoBytes ELSE saved)
      /\ whole' = [whole EXCEPT !.log = r = <<>> \/ whole.file]
      /\ fresh' = [m \in Models |-> 0]
      /\ UNCHANGED <<file, saved>>
  BY DEF Reboot
<1>3. r \in Seq(Octets) /\ Len(r) \in Nat /\ Len(r) <= IL_FILE_MAX /\ (r # <<>> => r = file /\ file # NoFile)
  BY <1>1, RingSizes
<1> HIDE DEF r
<1>4. Len(r) < IL_RING_SIZE
  BY <1>3, InteractAssumption DEF InteractAssumption
<1>5. whole' \in [log : BOOLEAN, file : BOOLEAN] /\ whole'.file = whole.file /\ (whole'.log => r = <<>> \/ whole.file)
  BY <1>1, <1>2
<1>6. il'.ring = r /\ il'.records = Cardinality({i \in DOMAIN r : r[i] = "nl"})
  BY <1>2
<1>7. HistOK(hist') /\ (whole'.log => LogOK(il', hist'))
  <2>1. CASE r = <<>>
    <3>1. {i \in DOMAIN r : r[i] = "nl"} = {}
      BY <2>1
    <3>2. il'.ring = <<>> /\ il'.records = 0
      BY <1>6, <2>1, <3>1, FS_EmptySet
    <3>3. HistOK(NoBytes) /\ LogOK(il', NoBytes)
      BY <3>2, EmptyLog
    <3> QED
      BY <1>2, <2>1, <3>3
  <2>2. CASE r # <<>>
    <3>1. hist' = saved /\ r = file /\ file # NoFile
      BY <1>2, <1>3, <2>2
    <3>2. ASSUME whole'.log PROVE LogOK(il', saved)
      <4>1. PICK k \in {0} \cup saved.ends : LastRecords(saved, file, k)
        BY <1>1, <1>5, <2>2, <3>1, <3>2, Zenon
      <4> QED
        BY <1>1, <1>6, <3>1, <4>1, LoadedLog
    <3> QED
      BY <1>1, <3>1, <3>2
  <2> QED
    BY <2>1, <2>2
<1>8. Gated(il', mark', fresh') /\ mark' \in [Models -> Nat]
  <2>1. ASSUME NEW m \in Models PROVE fresh'[m] = 0 /\ mark'[m] = Len(r)
    BY <1>2
  <2>2. \A m \in Models : fresh'[m] \in Nat /\ Len(il'.ring) <= mark'[m] + fresh'[m]
    BY <1>3, <1>6, <2>1
  <2>3. mark' \in [Models -> Nat]
    BY <1>2, <1>3
  <2> QED
    BY <2>2, <2>3, Zenon DEF Gated
<1>9. LogGood(LogState, mark, whole.log)'
  <2>1. LogState'.il = il' /\ LogState'.hist = hist' /\ LogState'.fresh = fresh'
    BY DEF LogState
  <2> QED
    BY <1>3, <1>4, <1>6, <1>7, <1>8, <2>1, Zenon DEF LogGood
<1>10. CapGood'
  BY <1>2, RingSizes DEF CapGood
<1>11. FileGood(file, saved, whole.file)'
  BY <1>2, <1>5, Zenon DEF LogInv
<1> QED
  BY <1>2, <1>5, <1>8, <1>9, <1>10, <1>11, Zenon DEF LogInv

\* Training, or trying to, keeps the watermarks in step.
LEMMA TrainsGood ==
  ASSUME LogInv, NEW ms \in SUBSET Models, NEW able \in BOOLEAN, Trains(ms, able),
         UNCHANGED <<il, hist, whole, file, saved, typed>>
  PROVE  LogInv'
<1> DEFINE done == {m \in ms : Len0 >= TRAIN_MIN /\ (m = "trans" => able)}
           n == Cardinality(done)
           q == [k \in 1..n |-> "x"]
<1>1. /\ il.ring \in Seq(Octets) /\ Len(il.ring) \in Nat /\ CapGood /\ Gated(il, mark, fresh)
      /\ mark \in [Models -> Nat]
  BY DEF LogInv, LogGood, LogState
<1>2. /\ mark' = [m \in Models |-> IF m \in ms THEN Len0 ELSE mark[m]]
      /\ fresh' = [m \in Models |-> IF m \in done THEN 0 ELSE fresh[m]]
      /\ cap' = Captured(q)
  BY DEF Trains
<1>3. n \in Nat
  <2>1. IsFiniteSet({"bigram"}) /\ IsFiniteSet({"trans"})
    BY FS_Singleton
  <2>2. IsFiniteSet({"bigram"} \cup {"trans"})
    BY <2>1, FS_Union
  <2>3. done \subseteq {"bigram"} \cup {"trans"}
    BY DEF Models
  <2>4. IsFiniteSet(done)
    BY <2>2, <2>3, FS_Subset
  <2> QED
    BY <2>4, FS_CardinalityType
<1> HIDE DEF n
<1>4. "x" \in Octets
  BY DEF Octets
<1>5. q \in Seq(Octets)
  BY <1>3, <1>4
<1>6. CapGood'
  BY <1>1, <1>2, <1>5, CapturedGood DEF CapGood
<1>7. done \subseteq ms
  OBVIOUS
<1> HIDE DEF done
<1>8. mark' \in [Models -> Nat]
  BY <1>1, <1>2 DEF Len0
<1>9. ASSUME NEW m \in Models
      PROVE  fresh'[m] \in Nat /\ Len(il.ring) <= mark'[m] + fresh'[m]
  <2>1. fresh[m] \in Nat /\ Len(il.ring) <= mark[m] + fresh[m]
    BY <1>1 DEF Gated
  <2>2. CASE m \in done
    <3>1. fresh'[m] = 0 /\ mark'[m] = Len(il.ring)
      BY <1>2, <1>7, <2>2 DEF Len0
    <3> QED
      BY <1>1, <3>1
  <2>3. CASE m \in ms /\ m \notin done
    <3>1. fresh'[m] = fresh[m] /\ mark'[m] = Len(il.ring)
      BY <1>2, <2>3 DEF Len0
    <3> QED
      BY <1>1, <2>1, <3>1
  <2>4. CASE m \notin ms
    <3>1. fresh'[m] = fresh[m] /\ mark'[m] = mark[m]
      BY <1>2, <1>7, <2>4
    <3> QED
      BY <2>1, <3>1, Zenon
  <2> QED
    BY <2>2, <2>3, <2>4
<1>10. Gated(il', mark', fresh')
  BY <1>9, Zenon DEF Gated
<1>11. LogGood(LogState, mark, whole.log)'
  <2>1. LogState'.il = il' /\ LogState'.hist = hist' /\ LogState'.fresh = fresh'
    BY DEF LogState
  <2>2. /\ il.ring \in Seq(Octets) /\ Len(il.ring) < IL_RING_SIZE /\ HistOK(hist)
        /\ whole.log => LogOK(il, hist)
    BY DEF LogInv, LogGood, LogState
  <2> QED
    BY <1>10, <2>1, <2>2, Zenon DEF LogGood
<1> QED
  BY <1>6, <1>8, <1>11, Zenon DEF LogInv

LEMMA LogInitGood == LogInit => LogInv
<1> SUFFICES ASSUME LogInit PROVE LogInv
  OBVIOUS
<1>1. /\ il = NoLog /\ cap = <<>> /\ typed = <<>> /\ file = NoFile /\ hist = NoBytes /\ saved = NoBytes
      /\ mark = [m \in Models |-> 0] /\ fresh = [m \in Models |-> 0]
      /\ whole = [log |-> TRUE, file |-> TRUE]
  BY DEF LogInit
<1>2. il.ring = <<>> /\ il.records = 0 /\ <<>> \in Seq(Octets) /\ Len(<<>>) = 0 /\ 0 < IL_RING_SIZE
  BY <1>1, RingSizes DEF NoLog
<1>3. HistOK(hist) /\ HistOK(saved) /\ LogOK(il, hist)
  BY <1>1, <1>2, EmptyLog
<1>4. Gated(il, mark, fresh) /\ mark \in [Models -> Nat]
  <2>1. \A m \in Models : fresh[m] = 0 /\ mark[m] = 0
    BY <1>1
  <2>2. \A m \in Models : fresh[m] \in Nat /\ 0 <= mark[m] + fresh[m]
    BY <2>1
  <2>3. mark \in [Models -> Nat]
    BY <1>1
  <2> QED
    BY <1>2, <2>2, <2>3, Zenon DEF Gated
<1>5. LogGood(LogState, mark, whole.log)
  <2>1. LogState.il = il /\ LogState.hist = hist /\ LogState.fresh = fresh
    BY DEF LogState
  <2> QED
    BY <1>2, <1>3, <1>4, <2>1, Zenon DEF LogGood
<1>6. FileGood(file, saved, whole.file)
  <2>1. "none" \in Octets
    BY DEF Octets
  <2>2. file \in Seq(Octets)
    BY <1>1, <2>1 DEF NoFile
  <2> QED
    BY <1>1, <1>3, <2>2, Zenon DEF FileGood
<1>7. CapGood
  BY <1>1, RingSizes DEF CapGood
<1>8. whole \in [log : BOOLEAN, file : BOOLEAN] /\ typed \in Commands \cup {<<>>}
  BY <1>1
<1> QED
  BY <1>4, <1>5, <1>6, <1>7, <1>8, Zenon DEF LogInv

LEMMA LogNextGood == LogInv /\ [LogNext]_logVars => LogInv'
<1> SUFFICES ASSUME LogInv, [LogNext]_logVars PROVE LogInv'
  OBVIOUS
<1>1. ASSUME NEW c \in Commands, Begin(c) PROVE LogInv'
  BY <1>1, BeginGood
<1>2. ASSUME NEW c \in Output, Put(c) PROVE LogInv'
  BY <1>2, PutGood
<1>3. CASE End
  BY <1>3, EndGood
<1>4. ASSUME NEW tag \in {"SPAWN", "EXIT"}, Event(tag) PROVE LogInv'
  BY <1>4, EventGood
<1>5. CASE LogSave
  BY <1>5, SaveGood
<1>6. CASE LogSaveFails
  BY <1>6, SaveFailsGood
<1>7. CASE LogClear
  BY <1>7, ClearGood
<1>8. CASE Reboot
  BY <1>8, RebootGood
<1>9. ASSUME NEW m \in Models, Train(m) PROVE LogInv'
  <2>1. PICK able \in BOOLEAN : Trains({m}, able)
    BY <1>9 DEF Train
  <2>2. UNCHANGED <<il, hist, whole, file, saved, typed>>
    BY <1>9 DEF Train, Rest
  <2>3. {m} \in SUBSET Models
    OBVIOUS
  <2> QED
    BY <2>1, <2>2, <2>3, TrainsGood
<1>10. ASSUME NEW m \in Models, NEW secs \in Seconds, SetIdle(m, secs) PROVE LogInv'
  <2>1. UNCHANGED <<il, hist, whole, file, saved, typed, mark, fresh>>
    BY <1>10 DEF SetIdle, Rest
  <2>2. CapGood'
    BY <1>10, MessageGood DEF SetIdle, LogInv
  <2> QED
    BY <2>1, <2>2, Zenon DEF LogInv, LogState
<1>11. CASE PollIdle
  <2> DEFINE ms == {m \in Models : Due(m)}
  <2>1. PICK able \in BOOLEAN : Trains(ms, able)
    BY <1>11 DEF PollIdle
  <2>2. UNCHANGED <<il, hist, whole, file, saved, typed>>
    BY <1>11 DEF PollIdle, Rest
  <2>3. ms \in SUBSET Models
    OBVIOUS
  <2> HIDE DEF ms
  <2> QED
    BY <2>1, <2>2, <2>3, TrainsGood
<1>12. CASE Second \/ Key \/ UNCHANGED logVars
  <2>1. UNCHANGED <<il, hist, whole, file, saved, typed, mark, fresh, cap>>
    BY <1>12 DEF Second, Key, Rest, logVars
  <2> QED
    BY <2>1, Zenon DEF LogInv, LogState, CapGood
<1> QED
  BY <1>1, <1>2, <1>3, <1>4, <1>5, <1>6, <1>7, <1>8, <1>9, <1>10, <1>11, <1>12 DEF LogNext

\* LogInv holds in every state of the log: among others, what il_append and
\* il_capture_putc write never outgrows the log or the capture buffer.
THEOREM LogInvariant == LogSpec => []LogInv
<1> QED
  BY LogInitGood, LogNextGood, PTL DEF LogSpec

LEMMA LogInvSuffix == LogInv => LogIsSuffix
<1> SUFFICES ASSUME LogInv PROVE LogIsSuffix
  OBVIOUS
<1>1. /\ whole.log => LogOK(il, hist)
      /\ file # NoFile /\ whole.file => \E k \in {0} \cup saved.ends : LastRecords(saved, file, k)
  BY DEF LogInv, LogGood, LogState, FileGood
<1>2. ASSUME whole.log
      PROVE  \E k \in {0} \cup hist.ends : /\ LastRecords(hist, il.ring, k)
                                          /\ il.records = Cardinality({e \in hist.ends : e > k})
  BY <1>1, <1>2 DEF LogOK, EndsAfter
<1> QED
  BY <1>1, <1>2, Zenon DEF LogIsSuffix

\* Whatever was printed, evicted, saved, cleared and loaded again: the log
\* and the checkpoint consist of the most recent records, none cut or merged
\* (il_append, il_save, il_load).
THEOREM LogHoldsLastRecords == LogSpec => []LogIsSuffix
<1> QED
  BY LogInvariant, LogInvSuffix, PTL

LEMMA LogInvNew == LogInv => OnlyGenuinelyNew
<1> SUFFICES ASSUME LogInv, NEW m \in Models
             PROVE  Due(m) => fresh[m] >= NEW_MIN
  BY DEF OnlyGenuinelyNew
<1>1. fresh[m] \in Nat /\ Len0 <= mark[m] + fresh[m] /\ mark[m] \in Nat /\ Len0 \in Nat
  BY DEF LogInv, LogGood, LogState, Gated, Len0
<1> QED
  BY <1>1, RingSizes DEF Due

\* A model that train_poll_idle or trans_poll_idle finds due has that many
\* bytes it has not trained on.  (The converse, that so many bytes make it
\* due, is false: NewBytesTrigger.)
THEOREM TrainsOnNewBytes == LogSpec => []OnlyGenuinelyNew
<1> QED
  BY LogInvariant, LogInvNew, PTL

\* il_records is the number of line ends in the log, whether or not its
\* first and last records are whole.
Counts(l) == l.records = Cardinality(LinesUpTo(l.ring, Len(l.ring)))

LEMMA LinesFinite ==
  ASSUME NEW r, NEW k \in Nat
  PROVE  /\ IsFiniteSet(LinesUpTo(r, k))
         /\ Cardinality(LinesUpTo(r, k)) \in Nat /\ Cardinality(LinesUpTo(r, k)) <= k
<1>1. IsFiniteSet(1..k) /\ Cardinality(1..k) = k
  BY FS_Interval
<1>2. LinesUpTo(r, k) \subseteq 1..k
  BY DEF LinesUpTo
<1>3. /\ IsFiniteSet(LinesUpTo(r, k)) /\ Cardinality(LinesUpTo(r, k)) <= Cardinality(1..k)
  BY <1>1, <1>2, FS_Subset
<1>4. Cardinality(LinesUpTo(r, k)) \in Nat
  BY <1>3, FS_CardinalityType
<1> QED
  BY <1>1, <1>3, <1>4

\* The line ends of a log are those of what is dropped and of what remains.
LEMMA LinesSplit ==
  ASSUME NEW r \in Seq(Octets), NEW k \in 0..Len(r)
  PROVE  Cardinality(LinesUpTo(r, Len(r))) =
           Cardinality(LinesUpTo(r, k)) + Cardinality(LinesUpTo(SubSeq(r, k + 1, Len(r)), Len(r) - k))
<1> DEFINE n == Len(r)
           a == SubSeq(r, k + 1, n)
           S == LinesUpTo(a, n - k)
           T == 1..n
           f == [i \in S |-> k + i]
           R == {f[i] : i \in S}
           U == LinesUpTo(r, k)
<1>1. n \in Nat /\ k \in Nat /\ k <= n /\ n - k \in Nat
  OBVIOUS
<1>2. \A i \in 1..(n - k) : a[i] = r[k + i]
  OBVIOUS
<1> HIDE DEF n, a
<1>3. ASSUME NEW i \in S PROVE i \in 1..(n - k) /\ r[k + i] = "nl" /\ k + i \in T /\ i \in Nat
  BY <1>1, <1>2 DEF LinesUpTo
<1>4. IsFiniteSet(T)
  BY <1>1, FS_Interval
<1>5. f \in [S -> T] /\ \A x, y \in S : f[x] = f[y] => x = y
  <2> HIDE DEF S, T
  <2> QED
    BY <1>1, <1>3
<1>6. Cardinality(R) = Cardinality(S)
  <2> HIDE DEF S, T, f
  <2> QED
    BY <1>4, <1>5, ImageCount
<1>7. \A e : e \in R <=> e \in 1..n /\ e > k /\ r[e] = "nl"
  <2>1. ASSUME NEW e \in R PROVE e \in 1..n /\ e > k /\ r[e] = "nl"
    <3>1. PICK i \in S : e = k + i
      OBVIOUS
    <3>2. i \in 1..(n - k) /\ r[k + i] = "nl"
      BY <1>3
    <3> QED
      BY <1>1, <3>1, <3>2
  <2>2. ASSUME NEW e \in 1..n, e > k, r[e] = "nl" PROVE e \in R
    <3>1. e - k \in 1..(n - k) /\ k + (e - k) = e
      BY <1>1, <2>2
    <3>2. e - k \in S
      BY <1>2, <2>2, <3>1 DEF LinesUpTo
    <3>3. f[e - k] = e
      BY <3>1, <3>2
    <3> QED
      BY <3>2, <3>3
  <2> HIDE DEF R
  <2> QED
    BY <2>1, <2>2
<1> HIDE DEF R
<1>8. U \cup R = LinesUpTo(r, n) /\ U \cap R = {}
  BY <1>1, <1>7 DEF LinesUpTo
<1>9. IsFiniteSet(U) /\ IsFiniteSet(R) /\ IsFiniteSet(S)
  <2>1. R \subseteq 1..n
    BY <1>7
  <2>2. IsFiniteSet(R)
    BY <1>4, <2>1, FS_Subset
  <2> QED
    BY <1>1, <2>2, LinesFinite
<1> HIDE DEF U, S
<1>10. Cardinality(U \cup R) = Cardinality(U) + Cardinality(R) - Cardinality(U \cap R)
  BY <1>9, FS_Union
<1>11. Cardinality(U \cap R) = 0 /\ Cardinality(U) \in Nat /\ Cardinality(R) \in Nat
  BY <1>8, <1>9, FS_EmptySet, FS_CardinalityType
<1>12. Cardinality(U \cup R) = Cardinality(U) + Cardinality(S)
  BY <1>6, <1>10, <1>11
<1> QED
  BY <1>8, <1>12 DEF U, S, n, a

LEMMA AppendCounts ==
  ASSUME NEW l, l.ring \in Seq(Octets), Counts(l), NEW s \in Texts
  PROVE  Counts(il_append(l, s))
<1> DEFINE r == l.ring
           n == Len(r)
           x == il_append(l, s)
<1>1. PICK k : Drops(l, s, k)
  BY AppendDrops
<1> DEFINE a == SubSeq(r, k + 1, n)
           E == {i \in Ends(r) : i <= k /\ i > 0}
           U == Cardinality(LinesUpTo(r, k))
           A == Cardinality(LinesUpTo(a, n - k))
           e == Cardinality(E)
<1>2. /\ k \in 0..n /\ x.ring = a \o s \o <<"nl">>
      /\ x.records = Max({0, l.records - e}) + 1
  BY <1>1 DEF Drops
<1>3. r \in Seq(Octets) /\ n \in Nat /\ k \in Nat /\ k <= n /\ n - k \in Nat /\ DOMAIN r = 1..n
      /\ s \in Seq(Octets) /\ Len(s) \in Nat /\ \A i \in 1..Len(s) : s[i] # "nl"
  BY <1>2 DEF Texts
<1>4. a \in Seq(Octets) /\ Len(a) = n - k
  BY <1>2, <1>3
<1>5. l.records = U + A /\ U \in Nat /\ A \in Nat
  BY <1>2, <1>3, LinesSplit, LinesFinite DEF Counts
<1>6. Extended(a, s, x.ring)
  <2> HIDE DEF a, x
  <2> QED
    BY <1>2, <1>3, <1>4, ExtendedLog
<1> HIDE DEF r, n, a, x
<1>7. Max({0, l.records - e}) = A
  <2>1. CASE k < n
    <3>1. E = LinesUpTo(r, k)
      BY <1>3, <2>1 DEF Ends, LinesUpTo, n
    <3>2. l.records - e = A
      <4> HIDE DEF A, E
      <4> QED
        BY <1>5, <3>1
    <3> HIDE DEF A, e
    <3> QED
      BY <1>5, <3>2 DEF Max
  <2>2. CASE k = n
    <3>1. A = 0
      <4>1. LinesUpTo(a, n - k) = {}
        BY <1>3, <2>2 DEF LinesUpTo
      <4> QED
        BY <4>1, FS_EmptySet
    <3>2. LinesUpTo(r, k) \subseteq E /\ E \subseteq 1..n
      BY <1>3, <2>2 DEF Ends, LinesUpTo, n
    <3>3. IsFiniteSet(1..n)
      BY <1>3, FS_Interval
    <3>4. IsFiniteSet(E)
      BY <3>2, <3>3, FS_Subset
    <3>5. e \in Nat /\ U <= e
      <4> HIDE DEF E
      <4> QED
        BY <3>2, <3>4, FS_Subset, FS_CardinalityType
    <3> HIDE DEF A, e, U
    <3>6. l.records - e \in Int /\ l.records - e <= 0
      BY <1>5, <3>1, <3>5
    <3> QED
      BY <3>1, <3>6 DEF Max
  <2> QED
    BY <1>3, <2>1, <2>2
<1>8. Cardinality(LinesUpTo(x.ring, Len(x.ring))) = A + 1
  <2> DEFINE y == x.ring
             m == Len(a)
             z == m + Len(s) + 1
  <2>1. /\ y \in Seq(Octets) /\ Len(y) = z /\ m \in Nat /\ z \in Nat
        /\ \A j \in 1..m : y[j] = a[j]
        /\ \A j \in 1..Len(s) : y[m + j] = s[j]
        /\ y[z] = "nl"
    BY <1>3, <1>4, <1>6 DEF Extended
  <2> HIDE DEF y, m
  <2>2. \A i \in (m + 1)..(z - 1) : y[i] # "nl"
    <3> SUFFICES ASSUME NEW i \in (m + 1)..(z - 1) PROVE y[i] # "nl"
      OBVIOUS
    <3>1. i - m \in 1..Len(s) /\ m + (i - m) = i
      BY <1>3, <2>1
    <3> QED
      BY <1>3, <2>1, <3>1
  <2>3. LinesUpTo(y, z) = LinesUpTo(a, m) \cup {z} /\ z \notin LinesUpTo(a, m)
    <3>1. z > m
      BY <1>3, <2>1
    <3> HIDE DEF z
    <3>2. \A i \in 1..z : i \in 1..m \/ i \in (m + 1)..(z - 1) \/ i = z
      BY <2>1, <3>1
    <3>3. z \in 1..z /\ \A i \in 1..m : i \in 1..z /\ i # z
      BY <2>1, <3>1
    <3> QED
      BY <2>1, <2>2, <3>2, <3>3 DEF LinesUpTo
  <2>4. IsFiniteSet(LinesUpTo(a, m))
    BY <2>1, LinesFinite
  <2>5. Cardinality(LinesUpTo(a, m) \cup {z}) = Cardinality(LinesUpTo(a, m)) + 1
    <3> HIDE DEF z
    <3> QED
      BY <2>3, <2>4, FS_AddElement
  <2> QED
    BY <1>4, <2>1, <2>3, <2>5 DEF y, m
<1>9. x.records = A + 1
  <2> HIDE DEF A, e
  <2> QED
    BY <1>2, <1>7
<1> QED
  BY <1>8, <1>9 DEF Counts, x

\* The sizes that the log and the checkpoint keep to, next to LogInv.
LogSized ==
  /\ Counts(il)
  /\ file = NoFile \/ Len(file) \in 1..IL_FILE_MAX
  /\ mark \in [Models -> 0..(IL_RING_SIZE - 1)] /\ idle \in [Models -> Nat \ {0}]

LEMMA EmptyCounts ==
  ASSUME NEW l, l.ring = <<>>, l.records = 0
  PROVE  Counts(l)
<1>1. LinesUpTo(l.ring, Len(l.ring)) = {}
  BY DEF LinesUpTo
<1> QED
  BY <1>1, FS_EmptySet DEF Counts

LEMMA LogSizedInit == LogInit => LogSized
<1> SUFFICES ASSUME LogInit PROVE LogSized
  OBVIOUS
<1>1. il = NoLog /\ file = NoFile
  BY DEF LogInit
<1>2. Counts(il)
  BY <1>1, EmptyCounts DEF NoLog
<1>3. mark \in [Models -> 0..(IL_RING_SIZE - 1)] /\ idle \in [Models -> Nat \ {0}]
  BY RingSizes DEF LogInit, IdleDefault
<1> QED
  BY <1>1, <1>2, <1>3 DEF LogSized

\* The records that a command leaves are counted.
LEMMA EndCounts ==
  ASSUME LogInv, Counts(il), End
  PROVE  Counts(il')
<1> DEFINE g0 == LogState
           g1 == Appended(g0, <<"TICK">>)
           g2 == Appended(g1, Tagged("CMD", typed))
           g3 == Appended(g2, OutputRecord(Stripped))
<1>1. CapGood /\ il.ring \in Seq(Octets) /\ typed \in Commands
  BY DEF LogInv, LogGood, LogState, End, Running
<1>2. "TICK" \in Octets \ {"nl"} /\ "CMD" \in Octets \ {"nl"}
  BY DEF Octets
<1>3. typed \in Seq(Octets) /\ 2 * Len(typed) + 1 <= IL_RING_SIZE - 2
  BY <1>1, InteractAssumption DEF InteractAssumption
<1>4. <<"TICK">> \in Texts /\ Tagged("CMD", typed) \in Texts
  BY <1>2, <1>3, TagText, TaggedText
<1>5. /\ g0.il = il /\ g1.il = il_append(g0.il, <<"TICK">>)
      /\ g2.il = il_append(g1.il, Tagged("CMD", typed))
      /\ g3.il = il_append(g2.il, OutputRecord(Stripped))
  BY DEF Appended, LogState
<1>6. il' = IF Stripped = <<>> THEN g2.il ELSE g3.il
  BY DEF End, LogBecomes
<1> HIDE DEF g0, g1, g2, g3
<1>7. Counts(g1.il) /\ g1.il.ring \in Seq(Octets)
  BY <1>1, <1>4, <1>5, AppendCounts, AppendTypes
<1>8. Counts(g2.il) /\ g2.il.ring \in Seq(Octets)
  BY <1>4, <1>5, <1>7, AppendCounts, AppendTypes
<1>9. ASSUME Stripped # <<>> PROVE Counts(g3.il)
  BY <1>1, <1>5, <1>8, <1>9, StrippedGood, AppendCounts
<1> QED
  BY <1>6, <1>8, <1>9

LEMMA EventCounts ==
  ASSUME LogInv, Counts(il), NEW tag \in {"SPAWN", "EXIT"}, Event(tag)
  PROVE  Counts(il')
<1>1. il.ring \in Seq(Octets)
  BY DEF LogInv, LogGood, LogState
<1>2. tag \in Octets \ {"nl"}
  BY DEF Octets
<1>3. <<tag>> \in Texts
  BY <1>2, TagText
<1>4. il' = il_append(il, <<tag>>)
  BY DEF Event, LogBecomes, Appended, LogState
<1> QED
  BY <1>1, <1>3, <1>4, AppendCounts

LEMMA SaveSized ==
  ASSUME LogInv, LogSized, LogSave \/ LogSaveFails
  PROVE  file' = NoFile \/ Len(file') \in 1..IL_FILE_MAX
<1>1. il.ring \in Seq(Octets) /\ HistOK(hist)
  BY DEF LogInv, LogGood, LogState
<1>2. Window \in Seq(Octets) /\ Len(Window) <= IL_FILE_MAX
  BY <1>1, WindowGood
<1>3. CASE LogSave
  <2>1. file' = Window /\ Window # <<>>
    BY <1>3 DEF LogSave
  <2> DEFINE win == Window
  <2>2. win \in Seq(Octets) /\ Len(win) <= IL_FILE_MAX /\ win # <<>> /\ file' = win
    BY <1>2, <2>1
  <2> HIDE DEF win
  <2> QED
    BY <2>2, RingSizes
<1>4. CASE LogSaveFails
  <2>1. CASE file = NoFile /\ UNCHANGED file
    BY <2>1
  <2>2. CASE file # NoFile /\ Len(Window) > Len(file) /\ file' = SubSeq(Window, 1, Len(file))
    <3> DEFINE win == Window
               n == Len(file)
    <3>1. n \in 1..IL_FILE_MAX
      BY <2>2 DEF LogSized
    <3>2. win \in Seq(Octets) /\ n \in Nat /\ n < Len(win) /\ Len(win) \in Nat /\ file' = SubSeq(win, 1, n)
      BY <1>2, <2>2, <3>1, RingSizes
    <3> HIDE DEF win, n
    <3>3. Len(SubSeq(win, 1, n)) = n
      BY <3>2
    <3> QED
      BY <3>1, <3>2, <3>3
  <2> QED
    BY <1>4, <2>1, <2>2 DEF LogSaveFails
<1> QED
  BY <1>3, <1>4

LEMMA TrainsSized ==
  ASSUME LogInv, LogSized, NEW ms \in SUBSET Models, NEW able \in BOOLEAN, Trains(ms, able)
  PROVE  mark' \in [Models -> 0..(IL_RING_SIZE - 1)]
<1>1. il.ring \in Seq(Octets) /\ Len(il.ring) < IL_RING_SIZE
  BY DEF LogInv, LogGood, LogState
<1>2. Len0 \in 0..(IL_RING_SIZE - 1)
  BY <1>1, RingSizes DEF Len0
<1>3. mark' = [m \in Models |-> IF m \in ms THEN Len0 ELSE mark[m]]
  BY DEF Trains
<1> QED
  BY <1>2, <1>3 DEF LogSized

LEMMA LogSizedNext == LogInv /\ LogSized /\ [LogNext]_logVars => LogSized'
<1> SUFFICES ASSUME LogInv, LogSized, [LogNext]_logVars PROVE LogSized'
  OBVIOUS
<1>1. /\ Counts(il) /\ (file = NoFile \/ Len(file) \in 1..IL_FILE_MAX)
      /\ mark \in [Models -> 0..(IL_RING_SIZE - 1)] /\ idle \in [Models -> Nat \ {0}]
  BY DEF LogSized
<1>2. ASSUME NEW c \in Commands, Begin(c) PROVE LogSized'
  BY <1>1, <1>2 DEF Begin, Idle, Rest, LogSized
<1>3. ASSUME NEW c \in Output, Put(c) PROVE LogSized'
  BY <1>1, <1>3 DEF Put, Idle, Rest, LogSized
<1>4. CASE End
  <2>1. UNCHANGED <<mark, idle, file>>
    BY <1>4 DEF End, Idle, Rest
  <2>2. Counts(il')
    BY <1>1, <1>4, EndCounts
  <2> QED
    BY <1>1, <2>1, <2>2 DEF LogSized
<1>5. ASSUME NEW tag \in {"SPAWN", "EXIT"}, Event(tag) PROVE LogSized'
  <2>1. UNCHANGED <<mark, idle, file>>
    BY <1>5 DEF Event, Idle, Rest
  <2>2. Counts(il')
    BY <1>1, <1>5, EventCounts
  <2> QED
    BY <1>1, <2>1, <2>2 DEF LogSized
<1>6. CASE LogSave \/ LogSaveFails
  <2>1. UNCHANGED <<il, mark, idle>>
    BY <1>6 DEF LogSave, LogSaveFails, Idle
  <2>2. file' = NoFile \/ Len(file') \in 1..IL_FILE_MAX
    BY <1>6, SaveSized
  <2> QED
    BY <1>1, <2>1, <2>2 DEF LogSized
<1>7. CASE LogClear
  <2>1. il' = NoLog /\ UNCHANGED <<mark, idle, file>>
    BY <1>7 DEF LogClear, Idle
  <2>2. Counts(il')
    BY <2>1, EmptyCounts DEF NoLog
  <2> QED
    BY <1>1, <2>1, <2>2 DEF LogSized
<1>8. CASE Reboot
  <2> DEFINE r == IF file = NoFile \/ Len(file) > IL_FILE_MAX THEN <<>> ELSE file
  <2>1. /\ il' = [ring |-> r, records |-> Cardinality({i \in DOMAIN r : r[i] = "nl"})]
        /\ mark' = [m \in Models |-> Len(r)] /\ idle' = [m \in Models |-> IdleDefault]
        /\ UNCHANGED file
    BY <1>8 DEF Reboot
  <2>2. file \in Seq(Octets)
    BY DEF LogInv, FileGood
  <2>3. r \in Seq(Octets) /\ Len(r) \in Nat /\ Len(r) <= IL_FILE_MAX
    BY <2>2, RingSizes
  <2> HIDE DEF r
  <2>4. DOMAIN r = 1..Len(r)
    BY <2>3
  <2>5. Counts(il')
    <3>1. il'.ring = r /\ il'.records = Cardinality({i \in DOMAIN r : r[i] = "nl"})
      BY <2>1
    <3> QED
      BY <2>4, <3>1 DEF Counts, LinesUpTo
  <2>6. Len(r) \in 0..(IL_RING_SIZE - 1)
    BY <2>3, InteractAssumption DEF InteractAssumption
  <2>7. mark' \in [Models -> 0..(IL_RING_SIZE - 1)] /\ idle' \in [Models -> Nat \ {0}]
    BY <2>1, <2>6 DEF IdleDefault
  <2> QED
    BY <1>1, <2>1, <2>5, <2>7 DEF LogSized
<1>9. ASSUME NEW m \in Models, Train(m) PROVE LogSized'
  <2>1. PICK able \in BOOLEAN : Trains({m}, able)
    BY <1>9 DEF Train
  <2>2. UNCHANGED <<il, idle, file>>
    BY <1>9 DEF Train, Rest
  <2>3. {m} \in SUBSET Models
    OBVIOUS
  <2>4. mark' \in [Models -> 0..(IL_RING_SIZE - 1)]
    BY <2>1, <2>3, TrainsSized
  <2> QED
    BY <1>1, <2>2, <2>4 DEF LogSized
<1>10. ASSUME NEW m \in Models, NEW secs \in Seconds, SetIdle(m, secs) PROVE LogSized'
  <2>1. idle' = [idle EXCEPT ![m] = Max({1, secs})] /\ UNCHANGED <<il, file, mark>>
    BY <1>10 DEF SetIdle, Rest
  <2>2. secs \in Nat
    BY InteractAssumption DEF InteractAssumption
  <2>3. Max({1, secs}) \in Nat \ {0}
    BY <2>2 DEF Max
  <2> QED
    BY <1>1, <2>1, <2>3 DEF LogSized
<1>11. CASE PollIdle
  <2> DEFINE ms == {m \in Models : Due(m)}
  <2>1. PICK able \in BOOLEAN : Trains(ms, able)
    BY <1>11 DEF PollIdle
  <2>2. UNCHANGED <<il, idle, file>>
    BY <1>11 DEF PollIdle, Rest
  <2>3. ms \in SUBSET Models
    OBVIOUS
  <2> HIDE DEF ms
  <2>4. mark' \in [Models -> 0..(IL_RING_SIZE - 1)]
    BY <2>1, <2>3, TrainsSized
  <2> QED
    BY <1>1, <2>2, <2>4 DEF LogSized
<1>12. CASE Second \/ Key \/ UNCHANGED logVars
  <2>1. UNCHANGED <<il, file, mark, idle>>
    BY <1>12 DEF Second, Key, Rest, logVars
  <2> QED
    BY <1>1, <2>1 DEF LogSized
<1> QED
  BY <1>2, <1>3, <1>4, <1>5, <1>6, <1>7, <1>8, <1>9, <1>10, <1>11, <1>12 DEF LogNext

LEMMA LogWithinSizes == LogInv /\ LogSized => LogTypeOK
<1> SUFFICES ASSUME LogInv, LogSized PROVE LogTypeOK
  OBVIOUS
<1>1. il.ring \in Seq(Octets) /\ Len(il.ring) < IL_RING_SIZE /\ CapGood
  BY DEF LogInv, LogGood, LogState
<1>2. Len(il.ring) \in Nat /\ Counts(il)
  BY <1>1 DEF LogSized
<1>3. il.records \in 0..Len(il.ring)
  BY <1>2, LinesFinite DEF Counts
<1> QED
  BY <1>1, <1>3 DEF LogTypeOK, LogSized, Len0, CapGood

-----------------------------------------------------------------------------
(* The bigram model *)

\* The powers of two that a u32 holds, one by one.
LEMMA PowerAt ==
  ASSUME NEW c
  PROVE
  /\ (c = 0 => 2^c = 2^0) /\ (c = 1 => 2^c = 2^1) /\ (c = 2 => 2^c = 2^2) /\ (c = 3 => 2^c = 2^3)
  /\ (c = 4 => 2^c = 2^4) /\ (c = 5 => 2^c = 2^5) /\ (c = 6 => 2^c = 2^6) /\ (c = 7 => 2^c = 2^7)
  /\ (c = 8 => 2^c = 2^8) /\ (c = 9 => 2^c = 2^9) /\ (c = 10 => 2^c = 2^10) /\ (c = 11 => 2^c = 2^11)
  /\ (c = 12 => 2^c = 2^12) /\ (c = 13 => 2^c = 2^13) /\ (c = 14 => 2^c = 2^14) /\ (c = 15 => 2^c = 2^15)
  /\ (c = 16 => 2^c = 2^16) /\ (c = 17 => 2^c = 2^17) /\ (c = 18 => 2^c = 2^18) /\ (c = 19 => 2^c = 2^19)
  /\ (c = 20 => 2^c = 2^20) /\ (c = 21 => 2^c = 2^21) /\ (c = 22 => 2^c = 2^22) /\ (c = 23 => 2^c = 2^23)
  /\ (c = 24 => 2^c = 2^24) /\ (c = 25 => 2^c = 2^25) /\ (c = 26 => 2^c = 2^26) /\ (c = 27 => 2^c = 2^27)
  /\ (c = 28 => 2^c = 2^28) /\ (c = 29 => 2^c = 2^29) /\ (c = 30 => 2^c = 2^30) /\ (c = 31 => 2^c = 2^31)
  /\ (c = 32 => 2^c = 2^32)
BY Zenon

LEMMA PowersDouble ==
  ASSUME NEW b \in 0..31
  PROVE  2^b \in Nat \ {0} /\ 2^(b + 1) = 2 * 2^b
<1> DEFINE c == b + 1   p == 2^b   q == 2^c
<1>1.
      /\ (b = 0 => p = 2^0) /\ (b = 1 => p = 2^1) /\ (b = 2 => p = 2^2) /\ (b = 3 => p = 2^3)
      /\ (b = 4 => p = 2^4) /\ (b = 5 => p = 2^5) /\ (b = 6 => p = 2^6) /\ (b = 7 => p = 2^7)
      /\ (b = 8 => p = 2^8) /\ (b = 9 => p = 2^9) /\ (b = 10 => p = 2^10) /\ (b = 11 => p = 2^11)
      /\ (b = 12 => p = 2^12) /\ (b = 13 => p = 2^13) /\ (b = 14 => p = 2^14) /\ (b = 15 => p = 2^15)
      /\ (b = 16 => p = 2^16) /\ (b = 17 => p = 2^17) /\ (b = 18 => p = 2^18) /\ (b = 19 => p = 2^19)
      /\ (b = 20 => p = 2^20) /\ (b = 21 => p = 2^21) /\ (b = 22 => p = 2^22) /\ (b = 23 => p = 2^23)
      /\ (b = 24 => p = 2^24) /\ (b = 25 => p = 2^25) /\ (b = 26 => p = 2^26) /\ (b = 27 => p = 2^27)
      /\ (b = 28 => p = 2^28) /\ (b = 29 => p = 2^29) /\ (b = 30 => p = 2^30) /\ (b = 31 => p = 2^31)
      /\ (b = 32 => p = 2^32)
  BY PowerAt
<1>2.
      /\ (c = 0 => q = 2^0) /\ (c = 1 => q = 2^1) /\ (c = 2 => q = 2^2) /\ (c = 3 => q = 2^3)
      /\ (c = 4 => q = 2^4) /\ (c = 5 => q = 2^5) /\ (c = 6 => q = 2^6) /\ (c = 7 => q = 2^7)
      /\ (c = 8 => q = 2^8) /\ (c = 9 => q = 2^9) /\ (c = 10 => q = 2^10) /\ (c = 11 => q = 2^11)
      /\ (c = 12 => q = 2^12) /\ (c = 13 => q = 2^13) /\ (c = 14 => q = 2^14) /\ (c = 15 => q = 2^15)
      /\ (c = 16 => q = 2^16) /\ (c = 17 => q = 2^17) /\ (c = 18 => q = 2^18) /\ (c = 19 => q = 2^19)
      /\ (c = 20 => q = 2^20) /\ (c = 21 => q = 2^21) /\ (c = 22 => q = 2^22) /\ (c = 23 => q = 2^23)
      /\ (c = 24 => q = 2^24) /\ (c = 25 => q = 2^25) /\ (c = 26 => q = 2^26) /\ (c = 27 => q = 2^27)
      /\ (c = 28 => q = 2^28) /\ (c = 29 => q = 2^29) /\ (c = 30 => q = 2^30) /\ (c = 31 => q = 2^31)
      /\ (c = 32 => q = 2^32)
  <2> HIDE DEF c
  <2> QED
    BY PowerAt
<1> HIDE DEF p, q
<1>3. p \in Nat \ {0} /\ q = 2 * p
  BY <1>1, <1>2
<1> QED
  BY <1>3 DEF p, q

LEMMA PowersEight ==
  ASSUME NEW b \in 8..31
  PROVE  2^b = 256 * 2^(b - 8)
<1> DEFINE c == b - 8   p == 2^b   q == 2^c
<1>1.
      /\ (b = 8 => p = 2^8) /\ (b = 9 => p = 2^9) /\ (b = 10 => p = 2^10) /\ (b = 11 => p = 2^11)
      /\ (b = 12 => p = 2^12) /\ (b = 13 => p = 2^13) /\ (b = 14 => p = 2^14) /\ (b = 15 => p = 2^15)
      /\ (b = 16 => p = 2^16) /\ (b = 17 => p = 2^17) /\ (b = 18 => p = 2^18) /\ (b = 19 => p = 2^19)
      /\ (b = 20 => p = 2^20) /\ (b = 21 => p = 2^21) /\ (b = 22 => p = 2^22) /\ (b = 23 => p = 2^23)
      /\ (b = 24 => p = 2^24) /\ (b = 25 => p = 2^25) /\ (b = 26 => p = 2^26) /\ (b = 27 => p = 2^27)
      /\ (b = 28 => p = 2^28) /\ (b = 29 => p = 2^29) /\ (b = 30 => p = 2^30) /\ (b = 31 => p = 2^31)
  BY PowerAt
<1>2.
      /\ (c = 0 => q = 2^0) /\ (c = 1 => q = 2^1) /\ (c = 2 => q = 2^2) /\ (c = 3 => q = 2^3)
      /\ (c = 4 => q = 2^4) /\ (c = 5 => q = 2^5) /\ (c = 6 => q = 2^6) /\ (c = 7 => q = 2^7)
      /\ (c = 8 => q = 2^8) /\ (c = 9 => q = 2^9) /\ (c = 10 => q = 2^10) /\ (c = 11 => q = 2^11)
      /\ (c = 12 => q = 2^12) /\ (c = 13 => q = 2^13) /\ (c = 14 => q = 2^14) /\ (c = 15 => q = 2^15)
      /\ (c = 16 => q = 2^16) /\ (c = 17 => q = 2^17) /\ (c = 18 => q = 2^18) /\ (c = 19 => q = 2^19)
      /\ (c = 20 => q = 2^20) /\ (c = 21 => q = 2^21) /\ (c = 22 => q = 2^22) /\ (c = 23 => q = 2^23)
  <2> HIDE DEF c
  <2> QED
    BY PowerAt
<1> HIDE DEF p, q
<1>3. p = 256 * q
  BY <1>1, <1>2
<1> QED
  BY <1>3 DEF p, q

LEMMA PowersOrdered ==
  ASSUME NEW a \in 0..31, NEW b \in 0..31, a < b
  PROVE  2^(a + 1) <= 2^b
<1> DEFINE pow == [k \in 0..32 |-> 2^k]
           G == {k \in Nat : k + (a + 1) <= b => pow[a + 1] <= pow[k + (a + 1)]}
           n == b - (a + 1)
<1>1. \A k \in 0..31 : pow[k] \in Nat /\ pow[k + 1] = 2 * pow[k]
  <2> SUFFICES ASSUME NEW k \in 0..31 PROVE pow[k] \in Nat /\ pow[k + 1] = 2 * pow[k]
    OBVIOUS
  <2>1. k \in 0..32 /\ k + 1 \in 0..32
    OBVIOUS
  <2>2. pow[k] = 2^k /\ pow[k + 1] = 2^(k + 1)
    BY <2>1, Zenon
  <2>3. 2^k \in Nat \ {0} /\ 2^(k + 1) = 2 * 2^k
    BY PowersDouble
  <2> HIDE DEF pow
  <2> QED
    BY <2>2, <2>3
<1>2. pow[a + 1] = 2^(a + 1) /\ pow[b] = 2^b
  OBVIOUS
<1> HIDE DEF pow
<1>3. n \in Nat /\ 0 \in G
  BY <1>1
<1>4. ASSUME NEW k \in 0..(n - 1), k \in G PROVE k + 1 \in G
  <2>1. k + (a + 1) \in 0..31 /\ (k + 1) + (a + 1) = (k + (a + 1)) + 1 /\ a + 1 \in 0..31
    OBVIOUS
  <2>2. pow[a + 1] <= pow[k + (a + 1)]
    BY <1>4
  <2>3. pow[k + (a + 1)] \in Nat /\ pow[(k + 1) + (a + 1)] = 2 * pow[k + (a + 1)]
        /\ pow[a + 1] \in Nat
    BY <1>1, <2>1
  <2>4. pow[a + 1] <= pow[(k + 1) + (a + 1)]
    BY <2>2, <2>3
  <2> QED
    BY <2>4
<1>5. n \in G
  <2> HIDE DEF G, n
  <2>1. \A k \in 0..n : k \in G
    BY <1>3, <1>4, UpTo
  <2> QED
    BY <1>3, <2>1
<1>6. n + (a + 1) = b
  OBVIOUS
<1> QED
  BY <1>2, <1>5, <1>6

\* Where floor(log2(n)) lies.
LEMMA FloorSpec ==
  ASSUME NEW n \in Nat \ {0}, n < 2^30
  PROVE  Floor2(n) \in 0..29 /\ 2^Floor2(n) <= n /\ n < 2^(Floor2(n) + 1)
<1> DEFINE P(b) == 2^b <= n /\ n < 2^(b + 1)
           S == {b \in 0..29 : n < 2^(b + 1)}
           f == CHOOSE b \in 0..31 : P(b)
<1>1. 2^(29 + 1) = 2^30
  <2>1. 29 + 1 = 30
    OBVIOUS
  <2> QED
    BY <2>1, Zenon
<1>2. 29 \in S /\ S \in SUBSET Nat
  BY <1>1
<1>3. PICK b \in S : \A y \in S : b <= y
  <2> HIDE DEF S
  <2> QED
    BY <1>2, LeastExists
<1>4. 2^b <= n
  <2>1. CASE b = 0
    <3>1. 2^b = 2^0
      BY <2>1, PowerAt
    <3>2. 2^0 = 1
      OBVIOUS
    <3> QED
      BY <3>1, <3>2
  <2>2. CASE b # 0
    <3> DEFINE a == b - 1
    <3>1. a \in 0..29 /\ a \notin S /\ a + 1 = b
      BY <1>3, <2>2
    <3>2. ~ (n < 2^(a + 1))
      BY <3>1
    <3> HIDE DEF a
    <3>3. 2^(a + 1) = 2^b
      BY <3>1, Zenon
    <3>4. 2^b \in Nat \ {0}
      <4>1. b \in 0..31
        OBVIOUS
      <4> QED
        BY <4>1, PowersDouble
    <3> QED
      BY <3>2, <3>3, <3>4
  <2> QED
    BY <2>1, <2>2
<1>5. b \in 0..31 /\ P(b)
  BY <1>4
<1>6. f \in 0..31 /\ P(f)
  <2> HIDE DEF P
  <2> QED
    BY <1>5
<1>7. Floor2(n) = f
  BY DEF Floor2
<1> HIDE DEF f
<1>8. f \in 0..29
  <2>1. ASSUME f > 29 PROVE FALSE
    <3>1. 2^(29 + 1) <= 2^f
      <4> DEFINE e == 29
      <4>1. e \in 0..31 /\ f \in 0..31 /\ e < f
        BY <1>6, <2>1
      <4> HIDE DEF e
      <4>2. 2^(e + 1) <= 2^f
        BY <4>1, PowersOrdered
      <4> QED
        BY <4>2 DEF e
    <3>2. 2^f \in Nat \ {0} /\ 2^f <= n
      BY <1>6, PowersDouble
    <3> DEFINE z == 2^f
    <3> HIDE DEF z
    <3>3. 2^30 <= z /\ z \in Nat /\ z <= n
      BY <1>1, <3>1, <3>2 DEF z
    <3> QED
      BY <3>3
  <2> QED
    BY <1>6, <2>1
<1> QED
  BY <1>6, <1>7, <1>8

LEMMA FloorMonotone ==
  ASSUME NEW m \in Nat \ {0}, NEW n \in Nat \ {0}, m <= n, n < 2^30
  PROVE  Floor2(m) <= Floor2(n)
<1> DEFINE a == Floor2(n)   b == Floor2(m)
<1>1. a \in 0..29 /\ n < 2^(a + 1) /\ b \in 0..29 /\ 2^b <= m
  <2>1. m < 2^30
    OBVIOUS
  <2> QED
    BY <2>1, FloorSpec
<1> HIDE DEF a, b
<1>2. ASSUME a < b PROVE FALSE
  <2> DEFINE p == 2^(a + 1)   q == 2^b
  <2>1. p <= q
    <3>1. a \in 0..31 /\ b \in 0..31
      BY <1>1
    <3> QED
      BY <1>2, <3>1, PowersOrdered
  <2>2. p \in Nat /\ q \in Nat
    <3>1. a + 1 \in 0..31 /\ b \in 0..31
      BY <1>1
    <3> QED
      BY <3>1, PowersDouble
  <2>3. n < p /\ q <= m
    BY <1>1
  <2> HIDE DEF p, q
  <2> QED
    BY <2>1, <2>2, <2>3
<1>3. b <= a
  BY <1>1, <1>2
<1> QED
  BY <1>3 DEF a, b

\* The mantissa has nine bits, the first of them set.
LEMMA MantissaSpec ==
  ASSUME NEW n \in Nat \ {0}, n < 2^30
  PROVE  Mantissa(n) \in 256..511
<1> DEFINE f == Floor2(n)
<1>1. f \in 0..29 /\ 2^f <= n /\ n < 2^(f + 1)
  BY FloorSpec
<1>2. Mantissa(n) = IF f >= 8 THEN n \div 2^(f - 8) ELSE n * 2^(8 - f)
  BY DEF Mantissa
<1> HIDE DEF f
<1>3. CASE f >= 8
  <2> DEFINE d == 2^(f - 8)   p == 2^f   q == 2^(f + 1)
  <2>1. d \in Nat \ {0}
    <3>1. f - 8 \in 0..31
      BY <1>1, <1>3
    <3> QED
      BY <3>1, PowersDouble
  <2>2. p = 256 * d
    <3>1. f \in 8..31
      BY <1>1, <1>3
    <3> QED
      BY <3>1, PowersEight
  <2>3. q = 2 * p
    <3>1. f \in 0..31
      BY <1>1
    <3> QED
      BY <3>1, PowersDouble
  <2>4. p <= n /\ n < q /\ Mantissa(n) = n \div d
    BY <1>1, <1>2, <1>3
  <2> HIDE DEF d, p, q
  <2>5. d * 256 <= n /\ n < d * 512
    BY <2>1, <2>2, <2>3, <2>4
  <2>6. 256 <= n \div d /\ n \div d < 512 /\ n \div d \in Nat
    BY <2>1, <2>5, DivExact, DivRange
  <2> QED
    BY <2>4, <2>6
<1>4. CASE f < 8
  <2> DEFINE c == 8 - f   g == f + 1   d == 2^c   p == 2^f   q == 2^g
  <2>1. /\ (f = 0 => p = 2^0) /\ (f = 1 => p = 2^1) /\ (f = 2 => p = 2^2)
        /\ (f = 3 => p = 2^3) /\ (f = 4 => p = 2^4) /\ (f = 5 => p = 2^5)
        /\ (f = 6 => p = 2^6) /\ (f = 7 => p = 2^7)
    BY PowerAt
  <2>2. /\ (c = 1 => d = 2^1) /\ (c = 2 => d = 2^2) /\ (c = 3 => d = 2^3)
        /\ (c = 4 => d = 2^4) /\ (c = 5 => d = 2^5) /\ (c = 6 => d = 2^6)
        /\ (c = 7 => d = 2^7) /\ (c = 8 => d = 2^8)
    <3> HIDE DEF c
    <3> QED
      BY PowerAt
  <2>3. /\ (g = 1 => q = 2^1) /\ (g = 2 => q = 2^2) /\ (g = 3 => q = 2^3)
        /\ (g = 4 => q = 2^4) /\ (g = 5 => q = 2^5) /\ (g = 6 => q = 2^6)
        /\ (g = 7 => q = 2^7) /\ (g = 8 => q = 2^8)
    <3> HIDE DEF g
    <3> QED
      BY PowerAt
  <2>4. p <= n /\ n < q /\ Mantissa(n) = n * d
    BY <1>1, <1>2, <1>4
  <2> HIDE DEF p, q, d
  <2>5. f \in 0..7
    BY <1>1, <1>4
  <2>6. n * d \in 256..511
    BY <2>1, <2>2, <2>3, <2>4, <2>5
  <2> QED
    BY <2>4, <2>6
<1> QED
  BY <1>1, <1>3, <1>4

LEMMA MantissaMonotone ==
  ASSUME NEW m \in Nat \ {0}, NEW n \in Nat \ {0}, m <= n, n < 2^30, Floor2(m) = Floor2(n)
  PROVE  Mantissa(m) <= Mantissa(n)
<1> DEFINE f == Floor2(n)
<1>1. f \in 0..29
  BY FloorSpec
<1>2. /\ Mantissa(n) = IF f >= 8 THEN n \div 2^(f - 8) ELSE n * 2^(8 - f)
      /\ Mantissa(m) = IF f >= 8 THEN m \div 2^(f - 8) ELSE m * 2^(8 - f)
  BY DEF Mantissa
<1> HIDE DEF f
<1>3. CASE f >= 8
  <2>1. 2^(f - 8) \in Nat \ {0}
    <3>1. f - 8 \in 0..31
      BY <1>1, <1>3
    <3> QED
      BY <3>1, PowersDouble
  <2> QED
    BY <1>2, <1>3, <2>1, DivMonotone
<1>4. CASE f < 8
  <2>1. 2^(8 - f) \in Nat
    <3>1. 8 - f \in 0..31
      BY <1>1, <1>4
    <3> QED
      BY <3>1, PowersDouble
  <2>2. m * 2^(8 - f) <= n * 2^(8 - f)
    BY <2>1, ProductMonotone
  <2> QED
    BY <1>1, <1>2, <1>4, <2>2
<1> QED
  BY <1>1, <1>3, <1>4

LEMMA TableMonotone ==
  ASSUME NEW i \in 1..16, NEW j \in 1..16, i <= j
  PROVE  log2t[i] \in 0..954 /\ log2t[i] <= log2t[j]
BY DEF log2t

\* The logarithm of the code is monotone.
LEMMA LogMonotone ==
  ASSUME NEW m \in Nat \ {0}, NEW n \in Nat \ {0}, m <= n, n < 2^30
  PROVE  log2_mbit(m) <= log2_mbit(n)
<1> DEFINE a == Floor2(m)   b == Floor2(n)   x == Mantissa(m)   y == Mantissa(n)
           i == ((x - 256) \div 16) + 1   j == ((y - 256) \div 16) + 1
<1>1. m < 2^30
  OBVIOUS
<1>2. a \in 0..29 /\ b \in 0..29 /\ a <= b /\ x \in 256..511 /\ y \in 256..511
  BY <1>1, FloorSpec, FloorMonotone, MantissaSpec
<1>3. a = b => x <= y
  BY MantissaMonotone
<1>4. log2_mbit(m) = a * 1000 + log2t[i] /\ log2_mbit(n) = b * 1000 + log2t[j]
  BY DEF log2_mbit
<1> HIDE DEF a, b, x, y
<1>5. i \in 1..16 /\ j \in 1..16 /\ (x <= y => i <= j)
  BY <1>2
<1> HIDE DEF i, j
<1>6. log2t[i] \in 0..954 /\ log2t[j] \in 0..954 /\ (i <= j => log2t[i] <= log2t[j])
  <2>1. log2t[i] \in 0..954 /\ log2t[j] \in 0..954
    <3>1. i <= i /\ j <= j
      BY <1>5
    <3> QED
      BY <1>5, <3>1, TableMonotone
  <2>2. ASSUME i <= j PROVE log2t[i] <= log2t[j]
    BY <1>5, <2>2, TableMonotone
  <2> QED
    BY <2>1, <2>2
<1> DEFINE u == log2t[i]   v == log2t[j]
<1> HIDE DEF u, v
<1>7. u \in 0..954 /\ v \in 0..954 /\ (i <= j => u <= v)
  BY <1>6 DEF u, v
<1>8. a * 1000 + u <= b * 1000 + v
  BY <1>2, <1>3, <1>5, <1>7
<1> QED
  BY <1>4, <1>8 DEF u, v

-----------------------------------------------------------------------------
(* Counting and scoring *)

Transitions == Bytes \X Bytes
Tables == [Transitions -> 0..WMax]
Accs == [w : Tables, sat : Nat]

LEMMA CountKeeps ==
  ASSUME NEW acc \in Accs, NEW p \in Transitions
  PROVE  Count(acc, p) \in Accs
<1>1. WMax \in Nat \ {0}
  BY BigramAssumption
<1>2. acc.w \in Tables /\ acc.sat \in Nat /\ acc.w[p] \in 0..WMax
  BY DEF Accs, Tables
<1> DEFINE x == acc.w[p]
<1>3. CASE x < WMax
  <2> DEFINE v == [acc.w EXCEPT ![p] = x + 1]   n == acc.sat + (IF x + 1 = WMax THEN 1 ELSE 0)
  <2>1. Count(acc, p) = [w |-> v, sat |-> n]
    BY <1>3 DEF Count
  <2>2. x + 1 \in 0..WMax /\ n \in Nat
    BY <1>1, <1>2, <1>3
  <2>3. v \in Tables
    BY <1>2, <2>2 DEF Tables
  <2> HIDE DEF v, n
  <2> QED
    BY <2>1, <2>2, <2>3 DEF Accs
<1>4. CASE ~ (x < WMax)
  BY <1>4 DEF Count
<1> QED
  BY <1>3, <1>4

\* All transitions of a batch: weights stay within a byte.
LEMMA CountedKeeps ==
  ASSUME w \in Tables, NEW ps \in Seq(Transitions)
  PROVE  Counted(ps) \in Accs
<1> DEFINE n == Len(ps)
           a == [w |-> w, sat |-> 0]
           step == [z \in (1..n) \X Accs |-> Count(z[2], ps[z[1]])]
           Body(f) == [i \in 0..n |-> IF i = 0 THEN a ELSE Count(f[i - 1], ps[i])]
           acc == CHOOSE f : f = Body(f)
<1>1. n \in Nat /\ a \in Accs /\ \A i \in 1..n : ps[i] \in Transitions
  BY DEF Accs
<1>2. \A i \in 1..n, s \in Accs : step[<<i, s>>] = Count(s, ps[i]) /\ step[<<i, s>>] \in Accs
  <2> SUFFICES ASSUME NEW i \in 1..n, NEW s \in Accs
               PROVE  step[<<i, s>>] = Count(s, ps[i]) /\ step[<<i, s>>] \in Accs
    OBVIOUS
  <2>1. step[<<i, s>>] = Count(s, ps[i])
    OBVIOUS
  <2> QED
    BY <1>1, <2>1, CountKeeps
<1>3. Counted(ps) = acc[n]
  BY DEF Counted
<1> HIDE DEF n, a, step
<1>4. PICK f : Recursive(f, n, a, step)
  BY <1>1, RecursionExists
<1>5. \A i \in 0..n : f[i] \in Accs
  BY <1>1, <1>2, <1>4, RecursionTyped
<1>6. f = Body(f)
  <2>1. \A i \in 0..n : f[i] = IF i = 0 THEN a ELSE Count(f[i - 1], ps[i])
    <3> SUFFICES ASSUME NEW i \in 0..n PROVE f[i] = IF i = 0 THEN a ELSE Count(f[i - 1], ps[i])
      OBVIOUS
    <3>1. CASE i = 0
      BY <1>4, <3>1 DEF Recursive
    <3>2. CASE i # 0
      <4>1. i \in 1..n /\ i - 1 \in 0..n
        BY <1>1, <3>2
      <4>2. f[i] = step[<<i, f[i - 1]>>]
        BY <1>4, <4>1 DEF Recursive
      <4> QED
        BY <1>2, <1>5, <3>2, <4>1, <4>2
    <3> QED
      BY <3>1, <3>2
  <2>2. f = [i \in 0..n |-> f[i]]
    BY <1>4 DEF Recursive
  <2> QED
    BY <2>1, <2>2
<1>7. acc = Body(acc)
  <2> HIDE DEF Body
  <2> QED
    BY <1>6
<1> HIDE DEF acc
<1>8. acc[0] = a /\ \A i \in 1..n : acc[i] = Count(acc[i - 1], ps[i])
  <2>1. \A i \in 0..n : acc[i] = IF i = 0 THEN a ELSE Count(acc[i - 1], ps[i])
    BY <1>7
  <2> QED
    BY <1>1, <2>1
<1> DEFINE G == {k \in Nat : acc[k] \in Accs}
<1>9. 0 \in G
  BY <1>1, <1>8
<1>10. ASSUME NEW k \in 0..(n - 1), k \in G PROVE k + 1 \in G
  <2>1. k + 1 \in 1..n /\ (k + 1) - 1 = k /\ k + 1 \in Nat
    BY <1>1
  <2>2. acc[k + 1] = Count(acc[k], ps[k + 1]) /\ ps[k + 1] \in Transitions
    BY <1>1, <1>8, <2>1
  <2>3. acc[k] \in Accs
    BY <1>10
  <2>4. acc[k + 1] \in Accs
    BY <2>2, <2>3, CountKeeps
  <2> QED
    BY <2>1, <2>4
<1>11. n \in G
  <2> HIDE DEF G
  <2>1. \A k \in 0..n : k \in G
    BY <1>1, <1>9, <1>10, UpTo
  <2> QED
    BY <1>1, <2>1
<1> QED
  BY <1>3, <1>11 DEF n

\* The sum of a row bounds each weight in it, and is far from 2^32.
LEMMA RowSumBounds ==
  ASSUME NEW v \in Tables, NEW r \in Bytes
  PROVE  /\ RowSum(v, r) \in Nat /\ RowSum(v, r) < 2^30
         /\ \A c \in Bytes : v[<<r, c>>] <= RowSum(v, r)
<1> DEFINE n == LastByte
           x == [c \in 0..n |-> v[<<r, c>>]]
           a == x[0]
           step == [z \in (1..n) \X Nat |-> x[z[1]] + z[2]]
           Body(f) == [c \in Bytes |-> v[<<r, c>>] + (IF c = 0 THEN 0 ELSE f[c - 1])]
           sum == CHOOSE f : f = Body(f)
<1>1. n \in Nat /\ WMax \in Nat /\ Bytes = 0..n
  BY BigramAssumption DEF Bytes
<1>2. \A c \in 0..n : x[c] = v[<<r, c>>] /\ x[c] \in 0..WMax /\ x[c] \in Nat
  BY <1>1 DEF Tables, Transitions
<1>3. RowSum(v, r) = sum[n]
  BY DEF RowSum
<1>4. ASSUME NEW f PROVE Body(f) = [c \in 0..n |-> x[c] + (IF c = 0 THEN 0 ELSE f[c - 1])]
  BY <1>1, <1>2
<1> HIDE DEF Body, x, n
<1>4a. \A c \in 0..n : x[c] \in Nat
  BY <1>2
<1>5. 0 \in 0..n /\ a \in Nat
  <2>1. 0 \in 0..n
    BY <1>1
  <2> QED
    BY <1>4a, <2>1
<1>6. \A i \in 1..n, s \in Nat : step[<<i, s>>] = x[i] + s /\ step[<<i, s>>] \in Nat
  <2> SUFFICES ASSUME NEW i \in 1..n, NEW s \in Nat
               PROVE  step[<<i, s>>] = x[i] + s /\ step[<<i, s>>] \in Nat
    OBVIOUS
  <2>1. step[<<i, s>>] = x[i] + s
    OBVIOUS
  <2>2. i \in 0..n
    BY <1>1
  <2>3. x[i] \in Nat
    BY <1>4a, <2>2
  <2> QED
    BY <2>1, <2>3
<1> HIDE DEF step
<1>7. PICK f : Recursive(f, n, a, step)
  BY <1>1, RecursionExists
<1>8. \A i \in 0..n : f[i] \in Nat
  <2> DEFINE S == Nat
  <2>1. a \in S /\ \A i \in 1..n, s \in S : step[<<i, s>>] \in S
    BY <1>5, <1>6
  <2> HIDE DEF S, a
  <2>2. \A i \in 0..n : f[i] \in S
    BY <1>1, <1>7, <2>1, RecursionTyped
  <2> QED
    BY <2>2 DEF S
<1>9. f = Body(f)
  <2>1. \A c \in 0..n : f[c] = x[c] + (IF c = 0 THEN 0 ELSE f[c - 1])
    <3> SUFFICES ASSUME NEW c \in 0..n PROVE f[c] = x[c] + (IF c = 0 THEN 0 ELSE f[c - 1])
      OBVIOUS
    <3>1. CASE c = 0
      <4>1. f[c] = x[0]
        BY <1>7, <3>1 DEF Recursive
      <4> QED
        BY <1>5, <3>1, <4>1
    <3>2. CASE c # 0
      <4>1. c \in 1..n /\ c - 1 \in 0..n
        BY <1>1, <3>2
      <4>2. f[c] = step[<<c, f[c - 1]>>]
        BY <1>7, <4>1 DEF Recursive
      <4> QED
        BY <1>6, <1>8, <3>2, <4>1, <4>2
    <3> QED
      BY <3>1, <3>2
  <2>2. f = [i \in 0..n |-> f[i]]
    BY <1>7 DEF Recursive
  <2> QED
    BY <1>4, <2>1, <2>2
<1>10. sum = Body(sum)
  BY <1>9
<1> HIDE DEF sum
<1>11. \A c \in 0..n : sum[c] = x[c] + (IF c = 0 THEN 0 ELSE sum[c - 1])
  <2>1. sum = [c \in 0..n |-> x[c] + (IF c = 0 THEN 0 ELSE sum[c - 1])]
    BY <1>4, <1>10
  <2> QED
    BY <2>1
<1> DEFINE G == {k \in Nat : /\ sum[k] \in Nat /\ sum[k] <= (k + 1) * WMax
                             /\ \A c \in 0..k : x[c] <= sum[k]}
<1>12. 0 \in G
  <2>1. sum[0] = x[0] + 0 /\ x[0] \in 0..WMax
    BY <1>2, <1>5, <1>11
  <2> QED
    BY <1>1, <2>1
<1>13. ASSUME NEW k \in 0..(n - 1), k \in G PROVE k + 1 \in G
  <2>1. k + 1 \in 0..n /\ (k + 1) - 1 = k /\ k + 1 # 0
    BY <1>1
  <2> DEFINE s == sum[k]   t == sum[k + 1]   y == x[k + 1]
  <2>2. t = y + s /\ y \in 0..WMax
    BY <1>2, <1>11, <2>1
  <2>3. s \in Nat /\ s <= (k + 1) * WMax /\ \A c \in 0..k : x[c] <= s
    BY <1>13
  <2>4. t \in Nat /\ t >= s /\ t >= y
    BY <1>1, <2>2, <2>3
  <2>5. t <= ((k + 1) + 1) * WMax
    <3>1. ((k + 1) + 1) * WMax = (k + 1) * WMax + WMax /\ (k + 1) * WMax \in Nat
      BY <1>1
    <3> HIDE DEF s, t, y
    <3> QED
      BY <1>1, <2>2, <2>3, <3>1
  <2>6. ASSUME NEW c \in 0..(k + 1) PROVE x[c] <= t
    <3>1. CASE c = k + 1
      BY <2>4, <3>1
    <3>2. CASE c \in 0..k
      <4>1. x[c] \in Nat /\ x[c] <= s
        <5>1. c \in 0..n
          BY <1>1, <2>1
        <5> QED
          BY <1>2, <2>3, <3>2, <5>1
      <4> HIDE DEF s, t
      <4> QED
        BY <2>3, <2>4, <4>1
    <3> QED
      BY <3>1, <3>2
  <2> QED
    BY <2>1, <2>4, <2>5, <2>6
<1>14. n \in G
  <2> HIDE DEF G
  <2>1. \A k \in 0..n : k \in G
    BY <1>1, <1>12, <1>13, UpTo
  <2> QED
    BY <1>1, <2>1
<1>15. (n + 1) * WMax < 2^30 /\ (n + 1) * WMax \in Nat
  BY <1>1, BigramAssumption DEF n
<1>16. sum[n] \in Nat /\ sum[n] < 2^30 /\ \A c \in 0..n : x[c] <= sum[n]
  <2>1. sum[n] \in Nat /\ sum[n] <= (n + 1) * WMax /\ \A c \in 0..n : x[c] <= sum[n]
    BY <1>14
  <2> QED
    BY <1>15, <2>1
<1> QED
  BY <1>1, <1>2, <1>3, <1>16

BigramInv ==
  /\ BigramTypeOK /\ LossNeverWraps
  /\ batch \in Seq(Bytes) /\ (pass > 0 => Len(batch) >= 2)

LEMMA PairsTyped ==
  ASSUME NEW b \in Seq(Bytes), Len(b) >= 2
  PROVE  Pairs(b) \in Seq(Transitions)
<1> DEFINE n == Len(b) - 1   ps == [i \in 1..n |-> <<b[i], b[i + 1]>>]
<1>1. n \in Nat /\ \A i \in 1..n : b[i] \in Bytes /\ b[i + 1] \in Bytes
  <2>1. \A i \in 1..n : i \in 1..Len(b) /\ i + 1 \in 1..Len(b)
    OBVIOUS
  <2> QED
    BY <2>1
<1>2. ps \in [1..n -> Transitions]
  BY <1>1 DEF Transitions
<1> HIDE DEF n, ps
<1>3. ps \in Seq(Transitions)
  BY <1>1, <1>2
<1> QED
  BY <1>3 DEF ps, n, Pairs

\* The scores by a table: a weight is part of the sum of its row.
LEMMA ScoresOrdered ==
  ASSUME NEW v \in Tables, batch \in Seq(Bytes), Len(batch) >= 2, NEW s \in Scored(v), s.cnt >= 1
  PROVE  s.rt >= s.cnt /\ log2_mbit(s.rt) >= log2_mbit(s.cnt)
<1> DEFINE ps == Pairs(batch)
<1>1. ps \in Seq(Transitions)
  BY PairsTyped
<1>2. PICK p \in ToSet(ps) : s = [rt |-> RowSum(v, p[1]), cnt |-> v[p]]
  BY DEF Scored
<1>3. PICK j \in 1..Len(ps) : p = ps[j]
  BY <1>1, <1>2 DEF ToSet
<1> HIDE DEF ps
<1>4. p \in Transitions
  BY <1>1, <1>3
<1>5. p[1] \in Bytes /\ p[2] \in Bytes /\ p = <<p[1], p[2]>>
  BY <1>4 DEF Transitions
<1>6. v[p] \in Nat
  <2>1. v[p] \in 0..WMax
    BY <1>4 DEF Tables
  <2> QED
    BY <2>1, BigramAssumption
<1> DEFINE rt == RowSum(v, p[1])   cnt == v[p]
<1>7. rt \in Nat /\ rt < 2^30 /\ cnt <= rt
  BY <1>5, RowSumBounds
<1>8. s.rt = rt /\ s.cnt = cnt
  BY <1>2
<1> HIDE DEF rt, cnt
<1>9. cnt \in Nat /\ cnt >= 1
  BY <1>6, <1>8 DEF cnt
<1>10. cnt \in Nat \ {0} /\ rt \in Nat \ {0} /\ rt >= cnt
  BY <1>7, <1>9
<1>11. log2_mbit(cnt) <= log2_mbit(rt)
  BY <1>7, <1>10, LogMonotone
<1>12. log2_mbit(rt) >= log2_mbit(cnt)
  BY <1>11
<1> QED
  BY <1>8, <1>10, <1>12

LEMMA TrainPassKeeps ==
  ASSUME BigramInv, TrainPass
  PROVE  BigramInv'
<1> DEFINE acc == Counted(Pairs(batch))
           v == IF Decays(acc) THEN [p \in Bytes \X Bytes |-> acc.w[p] \div 2] ELSE acc.w
<1>1. /\ w \in Tables /\ pass \in 0..MaxPasses /\ pass > 0
      /\ batch \in Seq(Bytes) /\ Len(batch) >= 2
  BY DEF BigramInv, BigramTypeOK, TrainPass, Tables, Transitions
<1>2. /\ w' = v /\ pass' = pass - 1 /\ batch' = batch
      /\ score' = (IF pass = 1 THEN Scored(v) ELSE {})
  BY DEF TrainPass
<1>3. acc \in Accs
  BY <1>1, PairsTyped, CountedKeeps
<1>4. v \in Tables
  <2>1. acc.w \in Tables
    BY <1>3 DEF Accs
  <2>2. WMax \in Nat
    BY BigramAssumption
  <2>3. \A x \in 0..WMax : x \div 2 \in 0..WMax
    BY <2>2
  <2> HIDE DEF acc
  <2>4. [p \in Bytes \X Bytes |-> acc.w[p] \div 2] \in Tables
    BY <2>1, <2>3 DEF Tables, Transitions
  <2> QED
    BY <2>1, <2>4
<1>5. LossNeverWraps'
  <2> HIDE DEF v
  <2> SUFFICES ASSUME NEW s \in score', s.cnt >= 1
               PROVE  s.rt >= s.cnt /\ log2_mbit(s.rt) >= log2_mbit(s.cnt)
    BY DEF LossNeverWraps
  <2>1. s \in Scored(v)
    BY <1>2
  <2> QED
    BY <1>1, <1>4, <2>1, ScoresOrdered
<1>6. BigramTypeOK'
  <2>1. MaxPasses \in Nat
    BY BigramAssumption
  <2>2. pass' \in 0..MaxPasses
    BY <1>1, <1>2, <2>1
  <2> HIDE DEF v
  <2> QED
    BY <1>2, <1>4, <2>2 DEF BigramTypeOK, Tables, Transitions
<1> QED
  BY <1>1, <1>2, <1>5, <1>6 DEF BigramInv

LEMMA TrainStartKeeps ==
  ASSUME BigramInv, TrainStart
  PROVE  BigramInv'
<1>1. PICK b \in Batches : batch' = b /\ pass' = Min({MaxPasses, (Len(b) \div PassBytes) + 1})
  BY DEF TrainStart
<1>2. b \in Seq(Bytes) /\ Len(b) >= 2
  BY BigramAssumption
<1> DEFINE x == MaxPasses   y == (Len(b) \div PassBytes) + 1
<1>3. x \in Nat /\ y \in Nat
  <2>1. Len(b) \in Nat /\ PassBytes \in Nat \ {0} /\ MaxPasses \in Nat
    BY <1>2, BigramAssumption
  <2>2. Len(b) \div PassBytes \in Nat
    BY <2>1, DivRange
  <2> QED
    BY <2>1, <2>2
<1> HIDE DEF x, y
<1>4. Min({x, y}) \in Nat /\ Min({x, y}) <= x
  <2>1. \E m \in {x, y} : \A k \in {x, y} : m <= k
    BY <1>3
  <2>2. Min({x, y}) \in {x, y} /\ \A k \in {x, y} : Min({x, y}) <= k
    BY <2>1 DEF Min
  <2> QED
    BY <1>3, <2>2
<1>5. pass' \in 0..MaxPasses
  BY <1>1, <1>3, <1>4 DEF x, y
<1>6. BigramTypeOK' /\ LossNeverWraps'
  BY <1>5 DEF BigramInv, BigramTypeOK, LossNeverWraps, TrainStart
<1> QED
  BY <1>1, <1>2, <1>6 DEF BigramInv

LEMMA BigramInvariant ==
  BigramSpec => []BigramInv
<1>1. ASSUME BigramInit PROVE BigramInv
  <2>1. w \in [Bytes \X Bytes -> 0..WMax] /\ pass \in 0..MaxPasses
    <3>1. 0 \in 0..WMax /\ 0 \in 0..MaxPasses
      BY BigramAssumption
    <3> QED
      BY <1>1, <3>1 DEF BigramInit
  <2> QED
    BY <1>1, <2>1 DEF BigramInit, BigramInv, BigramTypeOK, LossNeverWraps
<1>2. ASSUME BigramInv, [BigramNext]_bigramVars PROVE BigramInv'
  <2>1. CASE TrainStart
    BY <1>2, <2>1, TrainStartKeeps
  <2>2. CASE TrainPass
    BY <1>2, <2>2, TrainPassKeeps
  <2>3. CASE train_reset
    <3>1. w' \in [Bytes \X Bytes -> 0..WMax]
      <4>1. 0 \in 0..WMax
        BY BigramAssumption
      <4> QED
        BY <2>3, <4>1 DEF train_reset
    <3> QED
      BY <1>2, <2>3, <3>1 DEF train_reset, BigramInv, BigramTypeOK, LossNeverWraps
  <2>4. ASSUME NEW seed \in Seeds, train_generate(seed) PROVE BigramInv'
    BY <1>2, <2>4 DEF train_generate, BigramInv, BigramTypeOK, LossNeverWraps
  <2>5. CASE UNCHANGED bigramVars
    BY <1>2, <2>5 DEF bigramVars, BigramInv, BigramTypeOK, LossNeverWraps
  <2> QED
    BY <1>2, <2>1, <2>2, <2>3, <2>4, <2>5 DEF BigramNext
<1>3. BigramInit => BigramInv
  BY <1>1
<1>4. BigramInv /\ [BigramNext]_bigramVars => BigramInv'
  BY <1>2
<1> QED
  BY <1>3, <1>4, PTL DEF BigramSpec

\* In the loss that train_run reports no unsigned difference of logarithms
\* wraps around, for every table size, weight cap and batch, and also after a
\* pass that halved the weights: a weight is part of the sum of its row, and
\* log2_mbit is monotone.  (That a row may be empty then is LogDefined.)
THEOREM LossDoesNotWrap ==
  BigramSpec => []LossNeverWraps
<1>1. BigramInv => LossNeverWraps
  BY DEF BigramInv
<1> QED
  BY <1>1, BigramInvariant, PTL

-----------------------------------------------------------------------------
(* The parts together *)

\* A behaviour of the system of parts is one of each part: what is proved of
\* a part holds in every run of the whole.
THEOREM PartsRun ==
  Spec => LogSpec /\ BigramSpec /\ CorpusSpec /\ PredictorSpec /\ TransSpec /\ LineSpec
<1>1. Init => LogInit /\ BigramInit /\ CorpusInit /\ PredictorInit /\ TransInit /\ LineInit
  BY DEF Init
<1>2. [Next]_vars => /\ [LogNext]_logVars /\ [BigramNext]_bigramVars /\ [CorpusNext]_corpusVars
                     /\ [PredictorNext]_predictorVars /\ [TransNext]_transVars /\ [LineNext]_lineVars
  <2> SUFFICES ASSUME [Next]_vars
               PROVE  /\ [LogNext]_logVars /\ [BigramNext]_bigramVars /\ [CorpusNext]_corpusVars
                      /\ [PredictorNext]_predictorVars /\ [TransNext]_transVars /\ [LineNext]_lineVars
    OBVIOUS
  <2>1. CASE UNCHANGED vars
    BY <2>1 DEF vars
  <2>2. CASE Next
    BY <2>2 DEF Next
  <2> QED
    BY <2>1, <2>2
<1> QED
  BY <1>1, <1>2, PTL DEF Spec, LogSpec, BigramSpec, CorpusSpec, PredictorSpec, TransSpec, LineSpec

\* LearnTypeOK: the log always leaves room for its terminator and il_records
\* fits it, also when a checkpoint was cut off; a capture fits its buffer and
\* a checkpoint its file; weights fit a byte; a version file, torn or not,
\* holds a draft with a number; the rings of the predictors and the cursor
\* and history of the line editor stay in their bounds.
THEOREM LearnKeepsSizes == Spec => []LearnTypeOK
<1>1. LogSpec => []LogTypeOK
  BY LogInitGood, LogNextGood, LogSizedInit, LogSizedNext, LogWithinSizes, PTL DEF LogSpec
<1>2. BigramSpec => []BigramTypeOK
  <2>1. BigramInv => BigramTypeOK
    BY DEF BigramInv
  <2> QED
    BY <2>1, BigramInvariant, PTL
<1>3. CorpusSpec => []CorpusTypeOK
  <2>1. CorpusTyped => CorpusTypeOK
    BY DEF CorpusTyped, CorpusTypeOK
  <2> QED
    BY <2>1, CorpusTypedInit, CorpusTypedNext, PTL DEF CorpusSpec
<1>4. PredictorSpec => []PredictorTypeOK
  <2>1. PInv => PredictorTypeOK
    <3> SUFFICES ASSUME PInv PROVE PredictorTypeOK
      OBVIOUS
    <3>1. Len(seen) \in Nat /\ wr \in 0..(HIST_MAX - 1)
      BY DEF PInv
    <3>2. count \in 0..HIST_MAX
      BY <3>1, RingSize DEF PInv
    <3> QED
      BY <3>1, <3>2 DEF PredictorTypeOK
  <2> QED
    BY <2>1, PredictorInitInv, PredictorNextInv, PTL DEF PredictorSpec
<1>5. LineSpec => []LineTypeOK
  BY LineInitInv, LineSizesInit, LineSizesNext, PTL DEF LineSpec
<1>6. LogTypeOK /\ BigramTypeOK /\ CorpusTypeOK /\ PredictorTypeOK /\ LineTypeOK => LearnTypeOK
  BY DEF LearnTypeOK
<1> QED
  BY <1>1, <1>2, <1>3, <1>4, <1>5, <1>6, PartsRun, PTL
=============================================================================
