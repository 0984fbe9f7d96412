------------------------------ MODULE NocProofs ------------------------------
(***************************************************************************)
(* The machine of module NocVM runs well-formed code safely: for every     *)
(* parser and compiler whose code satisfies CodeWellFormed, every table of *)
(* builtins and every session, no instruction finds too little on the      *)
(* stack, leaves its code, or touches the locals of another frame.         *)
(***************************************************************************)
EXTENDS NocVM, Lemmas

(* The invariant *)

\* There are at least n values where x does not ask for exactly n.
Meets(m, n, x) == m >= n /\ (x => m = n)

Depth(f) == Depths(f.fn.code)[f.pc]

\* A frame whose next instruction finds what it expects in a stack of m.
Placed(f, m, x) ==
  /\ DOMAIN f = {"fn", "pc", "vbase"}
  /\ f.vbase \in Nat /\ f.pc \in DOMAIN f.fn.code /\ Depth(f) # Dead
  /\ Meets(m, f.vbase + f.fn.nlocals + Depth(f), x)

\* What frame k will find: the stack of n values if it is the top one, else
\* the values below the next frame, and that frame's result.
Ceiling(fs, n, k) == IF k = Len(fs) THEN n ELSE fs[k + 1].vbase + 1

\* The frames of a line c on a stack of n values, running or suspended.
Thread(fs, n, c, x) ==
  /\ fs \in Seq(Range(fs)) /\ Len(fs) \in 1..MaxFrames
  /\ fs[1].fn = c
  /\ \A k \in 1..Len(fs) : Placed(fs[k], Ceiling(fs, n, k), x)
  /\ \A k \in 1..(Len(fs) - 1) : fs[k].vbase + fs[k].fn.nlocals <= fs[k + 1].vbase

\* A line suspended in Run, which will find the result of Run on its stack.
Suspended(up, x) ==
  /\ DOMAIN up = {"vstack", "frames", "chunk", "rest", "over"}
  /\ up.vstack \in Seq(Word) /\ Len(up.vstack) < StackSize
  /\ Thread(up.frames, Len(up.vstack) + 1, up.chunk, x)

Exactly == settled /\ PlainSession

Running ==
  /\ phase \in {"idle", "lexed", "parsed", "running", "trap", "wild", "overrun"}
  /\ vstack \in Seq(Word) /\ Len(vstack) <= StackSize
  /\ phase = "running" => Thread(frames, Len(vstack), chunk, Exactly)
  /\ phase \in {"idle", "lexed", "parsed", "overrun"} => vstack = <<>> /\ frames = <<>>
  /\ phase \in {"trap", "wild"} =>
       Len(frames) <= MaxFrames /\ \A k \in DOMAIN frames : frames[k].vbase \in 0..Len(vstack)

MInv ==
  /\ Running
  /\ outer \in Seq(Range(outer)) /\ Len(outer) <= MaxNest /\ (phase = "idle" => outer = <<>>)
  /\ \A j \in 1..Len(outer) : Suspended(outer[j], Exactly)
  /\ settled \in BOOLEAN /\ NoInternalFault

------------------------------------------------------------------------------
(* Words *)

LEMMA Remainder ==
  ASSUME NEW n \in Int, NEW m \in Nat \ {0}
  PROVE  n % m \in 0..(m - 1)
OBVIOUS

LEMMA Words ==
  /\ 0 \in Word /\ 1 \in Word /\ MinusOne \in Word
  /\ \A n \in Int : Wrap(n) \in Word
  /\ \A b \in BOOLEAN : Truth(b) \in Word
  /\ \A v \in Word : v \in Nat /\ MinusOne - v \in Word /\ Wrap(-v) \in Word
<1> DEFINE M == 2^W
<1>1. M \in Nat /\ M >= 2
  BY WordAssumption
<1>2. Word = 0..(M - 1) /\ MinusOne = M - 1 /\ \A n \in Int : Wrap(n) = n % M
  BY DEF Word, MinusOne, Wrap
<1> HIDE DEF M
<1>3. \A n \in Int : n % M \in 0..(M - 1)
  BY <1>1, Remainder
<1>4. \A n \in Int : Wrap(n) \in Word
  BY <1>2, <1>3
<1>5. 0 \in Word /\ 1 \in Word /\ MinusOne \in Word
  BY <1>1, <1>2
<1>6. \A b \in BOOLEAN : Truth(b) \in Word
  BY <1>5 DEF Truth
<1>7. \A v \in Word : v \in Nat /\ MinusOne - v \in Word /\ -v \in Int
  BY <1>1, <1>2
<1> QED
  BY <1>4, <1>5, <1>6, <1>7

LEMMA SignedSpec ==
  ASSUME NEW v \in Word
  PROVE  Signed(v) \in Int /\ (v # 0 => Signed(v) # 0)
<1> DEFINE M == 2^W   h == 2^(W - 1)
<1>1. M \in Nat /\ h \in Nat \ {0}
  <2>1. W - 1 \in 0..(W - 1)
    BY WordAssumption
  <2> QED
    BY <2>1, WordAssumption
<1>2. v \in 0..(M - 1) /\ Signed(v) = IF v >= h THEN v - M ELSE v
  BY DEF Word, Signed
<1> HIDE DEF M, h
<1> QED
  BY <1>1, <1>2

LEMMA QuotientTyped ==
  ASSUME NEW a \in Int, NEW b \in Int, b # 0
  PROVE  Quotient(a, b) \in Int
<1> DEFINE x == Abs(a)   y == Abs(b)
<1>1. x \in Nat /\ y \in Nat \ {0}
  BY DEF Abs
<1>2. Quotient(a, b) = IF (a < 0) # (b < 0) THEN -(x \div y) ELSE x \div y
  BY DEF Quotient
<1> HIDE DEF x, y
<1>3. x \div y \in Int
  BY <1>1
<1> QED
  BY <1>2, <1>3

\* What an operator computes is a word again.
LEMMA BinaryTyped ==
  ASSUME NEW op \in BinaryOps, NEW a \in Word, NEW b \in Word, op \in {"/", "%"} => b # 0
  PROVE  binary(op, a, b) \in Word
<1>1. a \in Nat /\ b \in Nat /\ (\A n \in Int : Wrap(n) \in Word) /\ Signed(a) \in Int /\ Signed(b) \in Int
  BY Words, SignedSpec
<1>2. CASE op \in {"+", "-", "*"}
  <2>1. a + b \in Int /\ a - b \in Int /\ a * b \in Int
    BY <1>1
  <2> QED
    BY <1>1, <1>2, <2>1 DEF binary
<1>3. CASE op \in {"/", "%"}
  <2> DEFINE x == Signed(a)   y == Signed(b)   q == Quotient(x, y)
  <2>1. q \in Int
    BY <1>1, <1>3, SignedSpec, QuotientTyped
  <2>2. binary(op, a, b) = Wrap(q) \/ binary(op, a, b) = Wrap(x - y * q)
    BY <1>3 DEF binary
  <2> HIDE DEF q
  <2>3. x - y * q \in Int
    BY <1>1, <2>1
  <2> QED
    BY <1>1, <2>1, <2>2, <2>3
<1>4. CASE op \in {"==", "!=", "<", "<=", ">", ">="}
  <2>1. binary(op, a, b) \in {0, 1}
    BY <1>4 DEF binary, Truth
  <2> QED
    BY <2>1, Words
<1>5. CASE op \in {"&", "|", "^"}
  BY <1>5, VMAssumption DEF binary
<1>6. CASE op \in {"<<", ">>"}
  <2> DEFINE k == b % W   p == 2^k
  <2>1. k \in 0..(W - 1)
    BY <1>1, WordAssumption, Remainder
  <2>2. p \in Nat \ {0}
    BY <2>1, WordAssumption
  <2>3. binary(op, a, b) = Wrap(a * p) \/ binary(op, a, b) = a \div p
    BY <1>6 DEF binary
  <2> HIDE DEF p
  <2>4. a * p \in Int /\ a \div p \in 0..a
    BY <1>1, <2>2, DivRange
  <2>5. a \div p \in Word
    BY <1>1, <2>4, WordAssumption DEF Word
  <2> QED
    BY <1>1, <2>3, <2>4, <2>5
<1> QED
  BY <1>2, <1>3, <1>4, <1>5, <1>6 DEF BinaryOps

------------------------------------------------------------------------------
(* Frames *)

\* A sequence is one over its own elements.
LEMMA OwnElements ==
  ASSUME NEW S, NEW s \in Seq(S)
  PROVE  s \in Seq(Range(s))
<1>1. s \in [1..Len(s) -> S] /\ Len(s) \in Nat
  OBVIOUS
<1>2. s \in [1..Len(s) -> Range(s)]
  BY <1>1 DEF Range
<1> QED
  BY <1>1, <1>2

LEMMA Appended ==
  ASSUME NEW S, NEW s \in Seq(S), NEW e
  PROVE  /\ Append(s, e) \in Seq(Range(Append(s, e))) /\ Len(Append(s, e)) = Len(s) + 1
         /\ \A k \in 1..Len(s) : Append(s, e)[k] = s[k]
         /\ Append(s, e)[Len(s) + 1] = e
<1> DEFINE T == S \cup {e}
<1>1. s \in Seq(T) /\ e \in T
  OBVIOUS
<1> HIDE DEF T
<1>2. /\ Append(s, e) \in Seq(T) /\ Len(Append(s, e)) = Len(s) + 1
      /\ \A k \in 1..Len(s) : Append(s, e)[k] = s[k]
      /\ Append(s, e)[Len(s) + 1] = e
  BY <1>1
<1>3. Append(s, e) \in Seq(Range(Append(s, e)))
  BY <1>2, OwnElements
<1> QED
  BY <1>2, <1>3

LEMMA Shortened ==
  ASSUME NEW S, NEW s \in Seq(S), Len(s) > 0
  PROVE  /\ Front(s) \in Seq(Range(Front(s))) /\ Len(Front(s)) = Len(s) - 1
         /\ \A k \in 1..(Len(s) - 1) : Front(s)[k] = s[k]
<1> DEFINE j == Len(s) - 1
<1>1. Len(s) \in Nat /\ 1 \in 1..(Len(s) + 1) /\ j \in 0..Len(s) /\ 1 <= j + 1 /\ j - 1 + 1 = j
  OBVIOUS
<1>2. Front(s) = SubSeq(s, 1, j)
  BY DEF Front
<1> HIDE DEF j
<1>3. /\ SubSeq(s, 1, j) \in Seq(S) /\ Len(SubSeq(s, 1, j)) = j - 1 + 1
      /\ \A k \in 1..(j - 1 + 1) : SubSeq(s, 1, j)[k] = s[1 + k - 1]
  BY <1>1, Slice
<1>4. \A k \in 1..j : SubSeq(s, 1, j)[k] = s[k]
  BY <1>1, <1>3
<1>5. SubSeq(s, 1, j) \in Seq(Range(SubSeq(s, 1, j)))
  BY <1>3, OwnElements
<1> QED
  BY <1>1, <1>2, <1>3, <1>4, <1>5 DEF j

LEMMA Replaced ==
  ASSUME NEW S, NEW s \in Seq(S), NEW i \in 1..Len(s), NEW e
  PROVE  /\ [s EXCEPT ![i] = e] \in Seq(Range([s EXCEPT ![i] = e]))
         /\ Len([s EXCEPT ![i] = e]) = Len(s)
         /\ \A k \in 1..Len(s) : [s EXCEPT ![i] = e][k] = IF k = i THEN e ELSE s[k]
<1> DEFINE T == S \cup {e}   t == [s EXCEPT ![i] = e]
<1>1. s \in Seq(T) /\ e \in T
  OBVIOUS
<1> HIDE DEF T
<1>2. t \in Seq(T) /\ Len(t) = Len(s)
  BY <1>1
<1>3. \A k \in 1..Len(s) : t[k] = IF k = i THEN e ELSE s[k]
  BY <1>1
<1> QED
  BY <1>2, <1>3, OwnElements

\* A thread that was exact may be looked at as one that need not be.
LEMMA Loosened ==
  ASSUME NEW fs, NEW n, NEW c, NEW x, Thread(fs, n, c, x), NEW y, y => x
  PROVE  Thread(fs, n, c, y)
BY DEF Thread, Placed, Meets

\* The top frame goes on at p with a stack of m.
LEMMA GoOn ==
  ASSUME NEW fs, NEW n, NEW c, NEW x, Thread(fs, n, c, x),
         NEW p, p \in DOMAIN fs[Len(fs)].fn.code, Depths(fs[Len(fs)].fn.code)[p] # Dead,
         NEW m, Meets(m, fs[Len(fs)].vbase + fs[Len(fs)].fn.nlocals + Depths(fs[Len(fs)].fn.code)[p], x)
  PROVE  Thread([fs EXCEPT ![Len(fs)].pc = p], m, c, x)
<1> DEFINE N == Len(fs)   f == fs[N]   g == [f EXCEPT !.pc = p]   gs == [fs EXCEPT ![N] = g]
<1>1. fs \in Seq(Range(fs)) /\ N \in 1..MaxFrames /\ N \in Nat
  BY DEF Thread
<1>2. /\ gs \in Seq(Range(gs)) /\ Len(gs) = N
      /\ \A k \in 1..N : gs[k] = IF k = N THEN g ELSE fs[k]
  <2> HIDE DEF g
  <2> QED
    BY <1>1, Replaced
<1>3. [fs EXCEPT ![Len(fs)].pc = p] = gs
  BY <1>1
<1>4. Placed(f, n, x)
  BY <1>1 DEF Thread, Ceiling
<1>5. DOMAIN g = {"fn", "pc", "vbase"} /\ g.fn = f.fn /\ g.vbase = f.vbase /\ g.pc = p
  BY <1>4 DEF Placed
<1>6. Placed(g, m, x)
  <2> HIDE DEF g, f
  <2>1. f = fs[Len(fs)]
    BY DEF f
  <2> QED
    BY <1>4, <1>5, <2>1 DEF Placed, Depth
<1> HIDE DEF g, gs
<1>7. ASSUME NEW k \in 1..N PROVE Placed(gs[k], Ceiling(gs, m, k), x)
  <2>1. CASE k = N
    BY <1>1, <1>2, <1>6, <2>1 DEF Ceiling
  <2>2. CASE k # N
    <3>1. gs[k] = fs[k] /\ k + 1 \in 1..N /\ gs[k + 1].vbase = fs[k + 1].vbase
      BY <1>1, <1>2, <1>5, <2>2
    <3>2. Ceiling(gs, m, k) = Ceiling(fs, n, k)
      BY <1>1, <1>2, <2>2, <3>1 DEF Ceiling
    <3> QED
      BY <3>1, <3>2 DEF Thread
  <2> QED
    BY <2>1, <2>2
<1>8. ASSUME NEW k \in 1..(N - 1) PROVE gs[k].vbase + gs[k].fn.nlocals <= gs[k + 1].vbase
  <2>1. gs[k] = fs[k] /\ k + 1 \in 1..N /\ gs[k + 1].vbase = fs[k + 1].vbase
    BY <1>1, <1>2, <1>5
  <2> QED
    BY <2>1 DEF Thread
<1>9. gs[1].fn = c
  BY <1>1, <1>2, <1>5 DEF Thread
<1> QED
  BY <1>1, <1>2, <1>3, <1>7, <1>8, <1>9 DEF Thread

\* A frame is added: the frame below it will find its result.
LEMMA Entered ==
  ASSUME NEW fs, NEW b \in Nat, NEW c, NEW x, Thread(fs, b + 1, c, x), Len(fs) < MaxFrames,
         fs[Len(fs)].vbase + fs[Len(fs)].fn.nlocals <= b,
         NEW g, g.vbase = b, NEW m, Placed(g, m, x)
  PROVE  Thread(Append(fs, g), m, c, x)
<1> DEFINE N == Len(fs)   gs == Append(fs, g)
<1>1. fs \in Seq(Range(fs)) /\ N \in 1..MaxFrames /\ N \in Nat
  BY DEF Thread
<1>2. /\ gs \in Seq(Range(gs)) /\ Len(gs) = N + 1 /\ gs[N + 1] = g
      /\ \A k \in 1..N : gs[k] = fs[k]
  BY <1>1, Appended
<1>3. Len(gs) \in 1..MaxFrames
  BY <1>1, <1>2, VMAssumption
<1> HIDE DEF gs
<1>4. ASSUME NEW k \in 1..(N + 1) PROVE Placed(gs[k], Ceiling(gs, m, k), x)
  <2>1. CASE k = N + 1
    BY <1>2, <2>1 DEF Ceiling
  <2>2. CASE k # N + 1
    <3>1. k \in 1..N /\ gs[k] = fs[k] /\ k # Len(gs)
      BY <1>1, <1>2, <2>2
    <3>2. Ceiling(gs, m, k) = Ceiling(fs, b + 1, k)
      <4>1. CASE k = N
        BY <1>2, <3>1, <4>1 DEF Ceiling
      <4>2. CASE k # N
        <5>1. k + 1 \in 1..N
          BY <1>1, <3>1, <4>2
        <5> QED
          BY <1>2, <3>1, <4>2, <5>1 DEF Ceiling
      <4> QED
        BY <4>1, <4>2
    <3> QED
      BY <3>1, <3>2 DEF Thread
  <2> QED
    BY <2>1, <2>2
<1>5. ASSUME NEW k \in 1..N PROVE gs[k].vbase + gs[k].fn.nlocals <= gs[k + 1].vbase
  <2>1. CASE k = N
    BY <1>2, <2>1
  <2>2. CASE k # N
    <3>1. k \in 1..(N - 1) /\ k + 1 \in 1..N
      BY <1>1, <2>2
    <3> QED
      BY <1>2, <3>1 DEF Thread
  <2> QED
    BY <2>1, <2>2
<1>6. gs[1].fn = c
  BY <1>1, <1>2 DEF Thread
<1> QED
  BY <1>1, <1>2, <1>3, <1>4, <1>5, <1>6 DEF Thread, gs

\* The top frame is left, and its result stands where its locals were.
LEMMA Left ==
  ASSUME NEW fs, NEW n, NEW c, NEW x, Thread(fs, n, c, x), Len(fs) # 1
  PROVE  Thread(Front(fs), fs[Len(fs)].vbase + 1, c, x)
<1> DEFINE N == Len(fs)   gs == Front(fs)   m == fs[N].vbase + 1
<1>1. fs \in Seq(Range(fs)) /\ N \in 1..MaxFrames /\ N \in Nat /\ N > 1
  <2>1. fs \in Seq(Range(fs)) /\ N \in 1..MaxFrames
    BY DEF Thread
  <2> HIDE DEF N
  <2>2. N # 1
    BY DEF N
  <2> QED
    BY <2>1, <2>2, VMAssumption
<1>2. /\ gs \in Seq(Range(gs)) /\ Len(gs) = N - 1
      /\ \A k \in 1..(N - 1) : gs[k] = fs[k]
  BY <1>1, Shortened
<1>3. Len(gs) \in 1..MaxFrames
  BY <1>1, <1>2, VMAssumption
<1> HIDE DEF gs
<1>4. ASSUME NEW k \in 1..(N - 1) PROVE Placed(gs[k], Ceiling(gs, m, k), x)
  <2>1. gs[k] = fs[k] /\ k # N /\ k \in 1..N
    BY <1>1, <1>2
  <2>2. Ceiling(gs, m, k) = Ceiling(fs, n, k)
    <3>1. CASE k = N - 1
      BY <1>1, <1>2, <2>1, <3>1 DEF Ceiling
    <3>2. CASE k # N - 1
      <4>1. k + 1 \in 1..(N - 1)
        BY <1>1, <3>2
      <4> QED
        BY <1>2, <2>1, <3>2, <4>1 DEF Ceiling
    <3> QED
      BY <3>1, <3>2
  <2> QED
    BY <2>1, <2>2 DEF Thread
<1>5. ASSUME NEW k \in 1..(N - 2) PROVE gs[k].vbase + gs[k].fn.nlocals <= gs[k + 1].vbase
  <2>1. k \in 1..(N - 1) /\ k + 1 \in 1..(N - 1)
    BY <1>1
  <2> QED
    BY <1>2, <2>1 DEF Thread
<1>6. gs[1].fn = c
  BY <1>1, <1>2 DEF Thread
<1>7. (N - 1) - 1 = N - 2
  BY <1>1
<1> QED
  BY <1>1, <1>2, <1>3, <1>4, <1>5, <1>6, <1>7 DEF Thread, gs

------------------------------------------------------------------------------
(* The end of a line *)

Internal == {"stack underflow", "bad local slot", "program counter ran off end of code",
             "return at top level", "call with too few arguments on stack",
             "unknown function at runtime"}

\* A reason that may end a line.
Allowed(o) == o.why \notin Internal /\ (o.why = "bad callee frame" => ~settled)

LEMMA LoosenedUp ==
  ASSUME NEW up, NEW x, Suspended(up, x), NEW y, y => x
  PROVE  Suspended(up, y)
BY Loosened DEF Suspended

\* Within a line, a run that was not exact does not become so.
LEMMA StillExact ==
  ASSUME line' = line, defs' = defs, settled' => settled
  PROVE  Exactly' => Exactly
BY DEF Exactly, PlainSession

LEMMA EndLineKeeps ==
  ASSUME MInv, NEW o, NEW e \in BOOLEAN, EndLine(o, e), Allowed(o), line' = line, defs' = defs
  PROVE  MInv'
<1>1. /\ outer \in Seq(Range(outer)) /\ Len(outer) <= MaxNest /\ Len(outer) \in Nat
      /\ \A j \in 1..Len(outer) : Suspended(outer[j], Exactly)
  BY DEF MInv
<1>2. settled' \in BOOLEAN /\ (settled' => settled) /\ NoInternalFault'
  <2>1. settled' = (settled /\ e) /\ res' = o
    BY DEF EndLine
  <2>2. settled \in BOOLEAN
    BY DEF MInv
  <2> QED
    BY <2>1, <2>2 DEF Allowed, Internal, NoInternalFault
<1>3. Exactly' => Exactly
  BY <1>2, StillExact
<1>4. <<>> \in Seq(Word) /\ Len(<<>>) = 0
  OBVIOUS
<1>5. CASE outer = <<>>
  <2>1. phase' = "idle" /\ vstack' = <<>> /\ frames' = <<>> /\ outer' = outer
    BY <1>5 DEF EndLine
  <2>2. Running'
    BY <1>4, <2>1, VMAssumption DEF Running
  <2>3. \A j \in 1..Len(outer') : Suspended(outer'[j], Exactly')
    BY <1>1, <1>3, <2>1, LoosenedUp
  <2> QED
    BY <1>1, <1>2, <1>5, <2>1, <2>2, <2>3 DEF MInv
<1>6. CASE outer # <<>>
  <2> DEFINE n == Len(outer)   up == outer[n]   rest == [up EXCEPT !.rest = Tail(@)]
  <2>1. n \in 1..n /\ n > 0 /\ up = Last(outer)
    BY <1>1, <1>6 DEF Last
  <2>2. /\ Front(outer) \in Seq(Range(Front(outer))) /\ Len(Front(outer)) = n - 1
        /\ \A k \in 1..(n - 1) : Front(outer)[k] = outer[k]
    BY <1>1, <2>1, Shortened
  <2>3. Suspended(up, Exactly')
    BY <1>1, <1>3, <2>1, LoosenedUp
  <2>4. \A k \in 1..(n - 1) : Suspended(Front(outer)[k], Exactly')
    BY <1>1, <1>3, <2>1, <2>2, LoosenedUp
  <2>5. CASE up.rest # <<>>
    <3>1. /\ phase' = "lexed" /\ vstack' = <<>> /\ frames' = <<>>
          /\ outer' = Append(Front(outer), rest)
      BY <1>6, <2>1, <2>5 DEF EndLine
    <3>2. Running'
      BY <1>4, <3>1, VMAssumption DEF Running
    <3>3. Suspended(rest, Exactly')
      <4>1. /\ DOMAIN rest = DOMAIN up
            /\ (DOMAIN up = {"vstack", "frames", "chunk", "rest", "over"} =>
                  rest.vstack = up.vstack /\ rest.frames = up.frames /\ rest.chunk = up.chunk)
        OBVIOUS
      <4> HIDE DEF rest, up
      <4> QED
        BY <2>3, <4>1 DEF Suspended
    <3> HIDE DEF rest
    <3>4. /\ outer' \in Seq(Range(outer')) /\ Len(outer') = n
          /\ \A k \in 1..(n - 1) : outer'[k] = Front(outer)[k]
          /\ outer'[n] = rest
      <4>1. /\ outer' \in Seq(Range(outer')) /\ Len(outer') = (n - 1) + 1
            /\ \A k \in 1..(n - 1) : outer'[k] = Front(outer)[k]
            /\ outer'[(n - 1) + 1] = rest
        BY <2>2, <3>1, Appended
      <4>2. (n - 1) + 1 = n
        BY <1>1
      <4> QED
        BY <4>1, <4>2
    <3>5. ASSUME NEW j \in 1..Len(outer') PROVE Suspended(outer'[j], Exactly')
      <4>1. j = n \/ j \in 1..(n - 1)
        BY <1>1, <3>4
      <4> QED
        BY <2>4, <3>3, <3>4, <4>1
    <3> QED
      BY <1>1, <1>2, <3>1, <3>2, <3>4, <3>5 DEF MInv
  <2>6. CASE up.rest = <<>> /\ phase' = "overrun"
    <3>1. vstack' = <<>> /\ frames' = <<>> /\ outer' = outer
      BY <1>6, <2>1, <2>6 DEF EndLine
    <3>2. Running'
      BY <1>4, <2>6, <3>1, VMAssumption DEF Running
    <3>3. \A j \in 1..Len(outer') : Suspended(outer'[j], Exactly')
      BY <1>1, <1>3, <3>1, LoosenedUp
    <3> QED
      BY <1>1, <1>2, <2>6, <3>1, <3>2, <3>3 DEF MInv
  <2>7. CASE up.rest = <<>> /\ phase' # "overrun"
    <3>1. /\ phase' = "running" /\ vstack' = Append(up.vstack, 0)
          /\ frames' = up.frames /\ chunk' = up.chunk /\ outer' = Front(outer)
      BY <1>6, <2>1, <2>7 DEF EndLine
    <3>2. up.vstack \in Seq(Word) /\ Len(up.vstack) < StackSize
      BY <2>3 DEF Suspended
    <3>3. vstack' \in Seq(Word) /\ Len(vstack') = Len(up.vstack) + 1 /\ Len(vstack') <= StackSize
      BY <3>1, <3>2, Words, VMAssumption
    <3>4. Thread(frames', Len(vstack'), chunk', Exactly')
      BY <2>3, <3>1, <3>3 DEF Suspended
    <3>5. Running'
      BY <3>1, <3>3, <3>4 DEF Running
    <3>6. Len(outer') <= MaxNest /\ Len(outer') = n - 1
      BY <1>1, <2>2, <3>1, VMAssumption
    <3> QED
      BY <1>2, <2>2, <2>4, <3>1, <3>5, <3>6 DEF MInv
  <2> QED
    BY <2>5, <2>6, <2>7
<1> QED
  BY <1>5, <1>6

------------------------------------------------------------------------------
(* The instruction that is run *)

LEMMA Found ==
  ASSUME CodeWellFormed, NEW x, noc_lookup(funcs, x) # 0
  PROVE  noc_lookup(funcs, x) \in 1..Len(funcs)
<1> DEFINE I == {i \in 1..Len(funcs) : Lower[funcs[i].name] = Lower[x]}
<1>1. I \in SUBSET Nat /\ I \subseteq 1..Len(funcs)
  BY DEF CodeWellFormed
<1>2. noc_lookup(funcs, x) = IF I # {} THEN Min(I) ELSE 0
  BY DEF noc_lookup, SelectInSeq
<1> HIDE DEF I
<1> QED
  BY <1>1, <1>2, FirstOf

Leave == IF Len(frames) = 1 THEN "HALT" ELSE "RET"
Result == IF Len(frames) = 1 THEN IF chunk.last_expr THEN 1 ELSE 0 ELSE 1

LEMMA TopCode ==
  ASSUME MInv, CodeWellFormed, phase = "running"
  PROVE  /\ Thread(frames, Len(vstack), chunk, Exactly) /\ fr = frames[Len(frames)]
         /\ WellFormed(fr.fn, Leave, Result)
<1>1. Thread(frames, Len(vstack), chunk, Exactly) /\ fr = frames[Len(frames)]
  BY DEF MInv, Running, fr, Last
<1>2. CASE Len(frames) = 1
  <2>1. fr.fn = chunk /\ chunk \in LinesInUse
    BY <1>1, <1>2 DEF Thread, LinesInUse
  <2> QED
    BY <1>1, <1>2, <2>1 DEF CodeWellFormed, Leave, Result
<1>3. CASE Len(frames) # 1
  <2>1. Len(frames) \in 2..Len(frames)
    <3> DEFINE N == Len(frames)
    <3>1. N \in 1..MaxFrames /\ N # 1
      BY <1>1, <1>3 DEF Thread
    <3> HIDE DEF N
    <3>2. N \in 2..N
      BY <3>1, VMAssumption
    <3> QED
      BY <3>2 DEF N
  <2>2. fr.fn \in FnsInUse
    BY <1>1, <2>1 DEF FnsInUse, Callees
  <2> QED
    BY <1>1, <1>3, <2>2 DEF CodeWellFormed, Leave, Result
<1> QED
  BY <1>2, <1>3

\* The instruction is there, its operands are right, and the stack holds the
\* locals and what it takes.
LEMMA TopInstr ==
  ASSUME MInv, CodeWellFormed, phase = "running"
  PROVE  /\ instr = fr.fn.code[fr.pc] /\ OperandsOK(instr, fr.fn)
         /\ instr[1] \in {"RET", "HALT"} => instr[1] = Leave
         /\ fr.vbase \in Nat /\ fr.fn.nlocals \in 0..MaxLocals
         /\ Depth(fr) \in Int /\ Len(vstack) \in Nat /\ Pops(instr) \in Nat /\ Pushes(instr) \in Nat
         /\ Meets(Len(vstack), fr.vbase + fr.fn.nlocals + Depth(fr), Exactly)
         /\ FlowOK(fr.fn, Depths(fr.fn.code), fr.pc, Result)
         /\ Depth(fr) >= Pops(instr)
         /\ fr.fn.code \in Seq(Range(fr.fn.code)) /\ Depths(fr.fn.code) \in Seq(Int)
         /\ Len(fr.fn.code) = Len(Depths(fr.fn.code))
<1> DEFINE f == fr   code == f.fn.code   d == Depths(code)
<1>1. /\ Thread(frames, Len(vstack), chunk, Exactly) /\ f = frames[Len(frames)]
      /\ WellFormed(f.fn, Leave, Result)
  BY TopCode
<1>2. Placed(f, Len(vstack), Exactly)
  <2>1. Len(frames) \in 1..Len(frames)
    BY <1>1, VMAssumption DEF Thread
  <2> QED
    BY <1>1, <2>1 DEF Thread, Ceiling
<1>3. /\ f.fn.nlocals \in 0..MaxLocals
      /\ code \in Seq(Range(code)) /\ d \in Seq(Int) /\ Len(d) = Len(code)
      /\ \A k \in DOMAIN code :
           /\ OperandsOK(code[k], f.fn)
           /\ code[k][1] \in {"RET", "HALT"} => code[k][1] = Leave
           /\ d[k] # Dead => FlowOK(f.fn, d, k, Result)
  BY <1>1 DEF WellFormed
<1>4. f.pc \in DOMAIN code /\ d[f.pc] # Dead /\ f.vbase \in Nat
  BY <1>2 DEF Placed, Depth
<1>5. f.pc \in 1..Len(code) /\ f.pc \in 1..Len(d)
  <2> HIDE DEF code, d
  <2> QED
    BY <1>3, <1>4
<1>6. instr = code[f.pc]
  <2>1. Len(code) \in Nat
    BY <1>3
  <2>2. ~ (f.pc > Len(code))
    BY <1>5, <2>1
  <2> QED
    BY <2>2 DEF instr
<1>7. /\ OperandsOK(instr, f.fn) /\ (instr[1] \in {"RET", "HALT"} => instr[1] = Leave)
      /\ FlowOK(f.fn, d, f.pc, Result)
  BY <1>3, <1>4, <1>6
<1>8. d[f.pc] \in Int
  <2> HIDE DEF d
  <2> QED
    BY <1>3, <1>5
<1>9. Pops(instr) \in Nat /\ Pushes(instr) \in Nat
  BY <1>7 DEF Pops, Pushes, OperandsOK, BinaryOps
<1>10. d[f.pc] >= Pops(instr)
  BY <1>6, <1>7 DEF FlowOK
<1>11. vstack \in Seq(Word)
  BY DEF MInv, Running
<1> QED
  BY <1>2, <1>3, <1>4, <1>6, <1>7, <1>8, <1>9, <1>10, <1>11 DEF Placed, Depth

\* The locals of the top frame and the operands are on the stack.
LEMMA Room ==
  ASSUME MInv, CodeWellFormed, phase = "running"
  PROVE  /\ Len(vstack) \in Nat /\ fr.vbase \in Nat /\ fr.fn.nlocals \in Nat /\ Pops(instr) \in Nat
         /\ fr.vbase + fr.fn.nlocals + Pops(instr) <= Len(vstack)
<1> DEFINE d == Depth(fr)   p == Pops(instr)   l == fr.fn.nlocals   v == fr.vbase   m == Len(vstack)
<1>1. /\ v \in Nat /\ l \in 0..MaxLocals /\ d \in Int /\ m \in Nat /\ p \in Nat
      /\ Meets(m, v + l + d, Exactly) /\ d >= p
  BY TopInstr
<1>2. m >= v + l + d
  BY <1>1 DEF Meets
<1>3. l \in Nat
  BY <1>1, VMAssumption
<1> HIDE DEF d, p, l, v, m
<1>4. v + l + p <= m
  BY <1>1, <1>2, <1>3
<1> QED
  BY <1>1, <1>3, <1>4 DEF p, l, v, m

\* Where the instruction goes on, the frame finds what it expects.
LEMMA NextPlace ==
  ASSUME MInv, CodeWellFormed, phase = "running", NEW p \in Targets(instr, fr.pc),
         NEW m, m = Len(vstack) - Pops(instr) + Pushes(instr)
  PROVE  Thread(goto(p), m, chunk, Exactly)
<1> DEFINE f == fr   D == Depths(f.fn.code)   d == Depth(f)   e == D[p]   a == Pops(instr)   b == Pushes(instr)
           l == f.fn.nlocals   v == f.vbase   n == Len(vstack)
<1>1. Thread(frames, n, chunk, Exactly) /\ f = frames[Len(frames)]
  BY TopCode
<1>2. /\ instr = f.fn.code[f.pc] /\ v \in Nat /\ l \in 0..MaxLocals
      /\ d \in Int /\ n \in Nat /\ a \in Nat /\ b \in Nat
      /\ Meets(n, v + l + d, Exactly)
      /\ FlowOK(f.fn, D, f.pc, Result)
      /\ f.fn.code \in Seq(Range(f.fn.code)) /\ D \in Seq(Int) /\ Len(f.fn.code) = Len(D)
  BY TopInstr
<1>3. p \in DOMAIN f.fn.code /\ e # Dead /\ e <= d - a + b /\ (Exactly => e = d - a + b)
  <2>1. D[f.pc] = d
    BY DEF Depth
  <2> QED
    BY <1>2, <2>1 DEF FlowOK, Exactly
<1>4. e \in Int
  <2> DEFINE C == f.fn.code
  <2>1. C \in Seq(Range(C)) /\ p \in DOMAIN C /\ D \in Seq(Int) /\ Len(C) = Len(D)
    BY <1>2, <1>3
  <2> HIDE DEF C, D
  <2>2. p \in 1..Len(D)
    BY <2>1
  <2> QED
    BY <2>1, <2>2
<1>5. n >= v + l + d /\ (Exactly => n = v + l + d)
  BY <1>2 DEF Meets
<1>6. m = n - a + b
  OBVIOUS
<1>7. Meets(m, v + l + e, Exactly)
  <2> HIDE DEF d, e, a, b, l, v, n
  <2>1. l \in Nat
    BY <1>2, VMAssumption
  <2>2. m >= v + l + e
    BY <1>2, <1>3, <1>4, <1>5, <1>6, <2>1
  <2>3. Exactly => m = v + l + e
    BY <1>2, <1>3, <1>4, <1>5, <1>6, <2>1
  <2> QED
    BY <2>2, <2>3 DEF Meets
<1> QED
  BY <1>1, <1>3, <1>7, GoOn DEF goto

\* The machine goes on with other frames and another stack.
LEMMA Keeps ==
  ASSUME MInv, phase' = "running", outer' = outer, res' = res, line' = line, defs' = defs,
         settled' \in BOOLEAN, settled' => settled,
         vstack' \in Seq(Word), Len(vstack') <= StackSize,
         Thread(frames', Len(vstack'), chunk', Exactly)
  PROVE  MInv'
<1>1. Exactly' => Exactly
  BY StillExact
<1>2. Running'
  BY <1>1, Loosened DEF Running
<1>3. \A j \in 1..Len(outer') : Suspended(outer'[j], Exactly')
  BY <1>1, LoosenedUp DEF MInv
<1> QED
  BY <1>2, <1>3 DEF MInv, NoInternalFault

LEMMA FaultKeeps ==
  ASSUME MInv, NEW why, Fault(why), why \notin Internal, why = "bad callee frame" => ~settled
  PROVE  MInv'
<1> DEFINE o == Outcome("error", why)   e == (outer = <<>> \/ why = "division by zero")
<1>1. EndLine(o, e) /\ e \in BOOLEAN /\ line' = line /\ defs' = defs
  BY DEF Fault
<1>2. o.why = why
  BY DEF Outcome
<1>3. Allowed(o)
  BY <1>2 DEF Allowed
<1> HIDE DEF o, e
<1> QED
  BY <1>1, <1>3, EndLineKeeps

\* An instruction that takes and leaves what Pops and Pushes say keeps the
\* invariant, also when its result does not fit.
LEMMA Stepped ==
  ASSUME MInv, CodeWellFormed, phase = "running", NEW st \in Seq(Word), NEW p \in Targets(instr, fr.pc),
         Len(st) = Len(vstack) - Pops(instr) + Pushes(instr), Continue(st, p)
  PROVE  MInv'
<1>1. CASE Len(st) > StackSize
  <2>1. Fault("stack overflow")
    BY <1>1 DEF Continue
  <2> QED
    BY <2>1, FaultKeeps DEF Internal
<1>2. CASE ~ (Len(st) > StackSize)
  <2>1. /\ vstack' = st /\ frames' = goto(p) /\ phase' = phase /\ outer' = outer /\ res' = res
        /\ line' = line /\ defs' = defs /\ settled' = settled /\ chunk' = chunk
    BY <1>2 DEF Continue, front
  <2>2. Thread(frames', Len(vstack'), chunk', Exactly)
    BY <2>1, NextPlace
  <2>3. Len(vstack') <= StackSize
    BY <1>2, <2>1, VMAssumption
  <2> QED
    BY <2>1, <2>2, <2>3, Keeps DEF MInv
<1> QED
  BY <1>1, <1>2

------------------------------------------------------------------------------
(* The instructions *)

\* What is left of the stack when n values are taken.
LEMMA Taken ==
  ASSUME vstack \in Seq(Word), NEW n \in Nat, n <= Len(vstack)
  PROVE  below(n) \in Seq(Word) /\ Len(below(n)) = Len(vstack) - n /\ (n > 0 => top \in Word)
<1> DEFINE j == Len(vstack) - n
<1>1. 1 \in 1..(Len(vstack) + 1) /\ j \in 0..Len(vstack) /\ 1 <= j + 1 /\ j - 1 + 1 = j
  OBVIOUS
<1>2. below(n) = SubSeq(vstack, 1, j)
  BY DEF below
<1> HIDE DEF j
<1>3. SubSeq(vstack, 1, j) \in Seq(Word) /\ Len(SubSeq(vstack, 1, j)) = j - 1 + 1
  BY <1>1, Slice
<1>4. n > 0 => top \in Word
  BY DEF top, Last
<1> QED
  BY <1>1, <1>2, <1>3, <1>4 DEF j

LEMMA Stacked ==
  ASSUME NEW s \in Seq(Word), NEW v \in Word
  PROVE  Append(s, v) \in Seq(Word) /\ Len(Append(s, v)) = Len(s) + 1
OBVIOUS

LEMMA Typed ==
  ASSUME MInv
  PROVE  vstack \in Seq(Word) /\ Len(vstack) \in Nat /\ Len(vstack) <= StackSize
BY DEF MInv, Running

LEMMA PushKeeps ==
  ASSUME MInv, CodeWellFormed, OpPush
  PROVE  MInv'
<1> DEFINE v == IF instr[1] = "PUSH" THEN instr[2] ELSE Addr[instr[2]]
<1>1. phase = "running" /\ instr[1] \in {"PUSH", "PUSHSTR"} /\ Continue(Append(vstack, v), fr.pc + 1)
  BY DEF OpPush, At
<1>2. Pops(instr) = 0 /\ Pushes(instr) = 1 /\ fr.pc + 1 \in Targets(instr, fr.pc)
  BY <1>1 DEF Pops, Pushes, Targets, BinaryOps
<1>3. v \in Word
  <2>1. OperandsOK(instr, fr.fn)
    BY <1>1, TopInstr
  <2> QED
    BY <1>1, <2>1, WordAssumption DEF OperandsOK
<1> HIDE DEF v
<1>4. Append(vstack, v) \in Seq(Word) /\ Len(Append(vstack, v)) = Len(vstack) - 0 + 1
  BY <1>3, Typed, Stacked
<1> QED
  BY <1>1, <1>2, <1>4, Stepped

LEMMA DupKeeps ==
  ASSUME MInv, CodeWellFormed, OpDup
  PROVE  MInv'
<1>1. phase = "running" /\ instr[1] = "DUP"
  BY DEF OpDup, At
<1>2. Pops(instr) = 1 /\ Pushes(instr) = 2 /\ fr.pc + 1 \in Targets(instr, fr.pc)
  BY <1>1 DEF Pops, Pushes, Targets, BinaryOps
<1>3. Len(vstack) \in Nat /\ Len(vstack) >= 1 /\ ~ (Len(vstack) < 1)
  BY <1>1, <1>2, Room
<1>4. Continue(Append(vstack, top), fr.pc + 1)
  BY <1>3 DEF OpDup, Popping
<1>5. top \in Word
  BY <1>3, Taken, Typed
<1>6. Append(vstack, top) \in Seq(Word) /\ Len(Append(vstack, top)) = Len(vstack) - 1 + 2
  BY <1>5, Typed, Stacked
<1> QED
  BY <1>1, <1>2, <1>4, <1>6, Stepped

LEMMA PopKeeps ==
  ASSUME MInv, CodeWellFormed, OpPop
  PROVE  MInv'
<1>1. phase = "running" /\ instr[1] = "POP"
  BY DEF OpPop, At
<1>2. Pops(instr) = 1 /\ Pushes(instr) = 0 /\ fr.pc + 1 \in Targets(instr, fr.pc)
  BY <1>1 DEF Pops, Pushes, Targets, BinaryOps
<1>3. Len(vstack) \in Nat /\ Len(vstack) >= 1 /\ ~ (Len(vstack) < 1)
  BY <1>1, <1>2, Room
<1>4. Continue(below(1), fr.pc + 1)
  BY <1>3 DEF OpPop, Popping
<1>5. below(1) \in Seq(Word) /\ Len(below(1)) = Len(vstack) - 1
  BY <1>3, Taken, Typed
<1>6. Len(below(1)) = Len(vstack) - 1 + 0
  BY <1>3, <1>5
<1> QED
  BY <1>1, <1>2, <1>4, <1>5, <1>6, Stepped

\* A slot of the top frame lies below what its instruction takes.
LEMMA SlotInFrame ==
  ASSUME MInv, CodeWellFormed, phase = "running", instr[1] \in {"LOAD", "STORE"}
  PROVE  /\ instr[2] \in 1..fr.fn.nlocals /\ ~ (instr[2] > fr.fn.nlocals)
         /\ fr.vbase + instr[2] \in 1..(Len(vstack) - Pops(instr))
<1> DEFINE s == instr[2]   l == fr.fn.nlocals   v == fr.vbase   n == Len(vstack)   p == Pops(instr)
<1>1. s \in 1..l
  BY TopInstr DEF OperandsOK
<1>2. n \in Nat /\ v \in Nat /\ l \in Nat /\ p \in Nat /\ v + l + p <= n
  BY Room
<1> HIDE DEF s, l, v, n, p
<1>3. ~ (s > l) /\ v + s \in 1..(n - p)
  BY <1>1, <1>2
<1> QED
  BY <1>1, <1>3 DEF s, l, v, n, p

LEMMA LoadKeeps ==
  ASSUME MInv, CodeWellFormed, OpLoad
  PROVE  MInv'
<1> DEFINE v == vstack[fr.vbase + instr[2]]
<1>1. phase = "running" /\ instr[1] = "LOAD"
  BY DEF OpLoad, At
<1>2. Pops(instr) = 0 /\ Pushes(instr) = 1 /\ fr.pc + 1 \in Targets(instr, fr.pc)
  BY <1>1 DEF Pops, Pushes, Targets, BinaryOps
<1>3. ~ (instr[2] > fr.fn.nlocals) /\ fr.vbase + instr[2] \in 1..(Len(vstack) - 0)
  BY <1>1, <1>2, SlotInFrame
<1>4. Continue(Append(vstack, v), fr.pc + 1)
  BY <1>3 DEF OpLoad
<1>5. v \in Word
  BY <1>3, Typed
<1> HIDE DEF v
<1>6. Append(vstack, v) \in Seq(Word) /\ Len(Append(vstack, v)) = Len(vstack) - 0 + 1
  BY <1>5, Typed, Stacked
<1> QED
  BY <1>1, <1>2, <1>4, <1>6, Stepped

LEMMA StoreKeeps ==
  ASSUME MInv, CodeWellFormed, OpStore
  PROVE  MInv'
<1> DEFINE k == fr.vbase + instr[2]   s == below(1)   t == [s EXCEPT ![k] = top]
<1>1. phase = "running" /\ instr[1] = "STORE"
  BY DEF OpStore, At
<1>2. Pops(instr) = 1 /\ Pushes(instr) = 0 /\ fr.pc + 1 \in Targets(instr, fr.pc)
  BY <1>1 DEF Pops, Pushes, Targets, BinaryOps
<1>3. ~ (instr[2] > fr.fn.nlocals) /\ k \in 1..(Len(vstack) - 1)
  BY <1>1, <1>2, SlotInFrame
<1>4. Len(vstack) \in Nat /\ Len(vstack) >= 1 /\ ~ (Len(vstack) < 1)
  BY <1>1, <1>2, Room
<1>5. Continue(t, fr.pc + 1)
  BY <1>3, <1>4 DEF OpStore, Popping
<1>6. s \in Seq(Word) /\ Len(s) = Len(vstack) - 1 /\ top \in Word
  BY <1>4, Taken, Typed
<1>7. t \in Seq(Word) /\ Len(t) = Len(vstack) - 1
  <2> HIDE DEF s, k
  <2> QED
    BY <1>3, <1>6
<1> HIDE DEF t
<1>8. Len(t) = Len(vstack) - 1 + 0
  BY <1>4, <1>7
<1> QED
  BY <1>1, <1>2, <1>5, <1>7, <1>8, Stepped

LEMMA JumpKeeps ==
  ASSUME MInv, CodeWellFormed, OpJump
  PROVE  MInv'
<1>1. phase = "running" /\ instr[1] \in {"JMP", "JMPF", "JMPT"}
  BY DEF OpJump, At
<1>2. CASE instr[1] = "JMP"
  <2>1. Pops(instr) = 0 /\ Pushes(instr) = 0 /\ instr[2] \in Targets(instr, fr.pc)
    BY <1>2 DEF Pops, Pushes, Targets, BinaryOps
  <2>2. Continue(vstack, instr[2])
    BY <1>2 DEF OpJump
  <2>3. vstack \in Seq(Word) /\ Len(vstack) = Len(vstack) - 0 + 0
    BY Typed
  <2> QED
    BY <1>1, <2>1, <2>2, <2>3, Stepped
<1>3. CASE instr[1] # "JMP"
  <2> DEFINE p == IF (top = 0) = (instr[1] = "JMPF") THEN instr[2] ELSE fr.pc + 1
  <2>1. Pops(instr) = 1 /\ Pushes(instr) = 0 /\ p \in Targets(instr, fr.pc)
    BY <1>1, <1>3 DEF Pops, Pushes, Targets, BinaryOps
  <2>2. Len(vstack) \in Nat /\ Len(vstack) >= 1 /\ ~ (Len(vstack) < 1)
    BY <1>1, <2>1, Room
  <2>3. Continue(below(1), p)
    BY <1>3, <2>2 DEF OpJump, Popping
  <2>4. below(1) \in Seq(Word) /\ Len(below(1)) = Len(vstack) - 1
    BY <2>2, Taken, Typed
  <2>5. Len(below(1)) = Len(vstack) - 1 + 0
    BY <2>2, <2>4
  <2> HIDE DEF p
  <2> QED
    BY <1>1, <2>1, <2>3, <2>4, <2>5, Stepped
<1> QED
  BY <1>2, <1>3

LEMMA UnaryKeeps ==
  ASSUME MInv, CodeWellFormed, OpUnary
  PROVE  MInv'
<1> DEFINE v == CASE instr[1] = "NOT"  -> Truth(top = 0)
                  [] instr[1] = "NEG"  -> Wrap(-top)
                  [] instr[1] = "BNOT" -> MinusOne - top
<1>1. phase = "running" /\ instr[1] \in {"NOT", "NEG", "BNOT"}
  BY DEF OpUnary, At
<1>2. Pops(instr) = 1 /\ Pushes(instr) = 1 /\ fr.pc + 1 \in Targets(instr, fr.pc)
  BY <1>1 DEF Pops, Pushes, Targets, BinaryOps
<1>3. Len(vstack) \in Nat /\ Len(vstack) >= 1 /\ ~ (Len(vstack) < 1)
  BY <1>1, <1>2, Room
<1>4. Continue(Append(below(1), v), fr.pc + 1)
  BY <1>3 DEF OpUnary, Popping
<1>5. below(1) \in Seq(Word) /\ Len(below(1)) = Len(vstack) - 1 /\ top \in Word
  BY <1>3, Taken, Typed
<1>6. v \in Word
  BY <1>1, <1>5, Words
<1> HIDE DEF v
<1>7. Append(below(1), v) \in Seq(Word) /\ Len(Append(below(1), v)) = Len(vstack) - 1 + 1
  BY <1>5, <1>6, Stacked
<1> QED
  BY <1>1, <1>2, <1>4, <1>7, Stepped

\* The frames of a running line start on its stack.
LEMMA FramesOnStack ==
  ASSUME MInv, CodeWellFormed, phase = "running"
  PROVE  /\ frames \in Seq(Range(frames)) /\ Len(frames) \in 1..MaxFrames
         /\ \A k \in 1..Len(frames) : frames[k].vbase \in 0..Len(vstack)
<1> DEFINE N == Len(frames)   n == Len(vstack)
<1>1. Thread(frames, n, chunk, Exactly) /\ fr = frames[N]
  BY TopCode
<1>2. frames \in Seq(Range(frames)) /\ N \in 1..MaxFrames /\ N \in Nat
  BY <1>1 DEF Thread
<1>3. n \in Nat /\ frames[N].vbase \in 0..n
  BY <1>1, Room
<1>4. ASSUME NEW k \in 1..N PROVE frames[k].vbase \in Nat /\ frames[k].fn.nlocals \in Nat
  <2>1. frames[k].vbase \in Nat
    BY <1>1 DEF Thread, Placed
  <2>2. \E leave, result : WellFormed(frames[k].fn, leave, result)
    <3>1. CASE k = 1
      BY <1>1, <3>1 DEF Thread, CodeWellFormed, LinesInUse
    <3>2. CASE k # 1
      <4>1. k \in 2..N
        BY <1>2, <3>2
      <4>2. frames[k].fn \in FnsInUse
        BY <4>1 DEF FnsInUse, Callees
      <4> QED
        BY <4>2 DEF CodeWellFormed
    <3> QED
      BY <3>1, <3>2
  <2> QED
    BY <2>1, <2>2, VMAssumption DEF WellFormed
<1>5. ASSUME NEW k \in 1..(N - 1), frames[k + 1].vbase <= n PROVE frames[k].vbase <= n
  <2> DEFINE a == frames[k].vbase   l == frames[k].fn.nlocals   b == frames[k + 1].vbase
  <2>1. k \in 1..N /\ k + 1 \in 1..N
    BY <1>2
  <2>2. a \in Nat /\ l \in Nat /\ b \in Nat
    BY <1>4, <2>1
  <2>3. a + l <= b /\ b <= n
    BY <1>1, <1>5 DEF Thread
  <2> HIDE DEF a, l, b, n
  <2>4. a <= n
    BY <1>3, <2>2, <2>3
  <2> QED
    BY <2>4 DEF a
<1> DEFINE B == {k \in 1..N : ~ (frames[k].vbase <= n)}
<1>6. B = {}
  <2>1. SUFFICES ASSUME B # {} PROVE FALSE
    OBVIOUS
  <2>2. B \in SUBSET (0..N) /\ B \subseteq 1..N
    BY <1>2
  <2>3. Max(B) \in B /\ \A y \in B : y <= Max(B)
    <3> HIDE DEF B
    <3> QED
      BY <1>2, <2>1, <2>2, LastOf
  <2>4. Max(B) \in 1..N /\ ~ (frames[Max(B)].vbase <= n)
    BY <2>3
  <2>5. frames[N].vbase <= n
    BY <1>3
  <2>6. Max(B) \in 1..(N - 1)
    <3> HIDE DEF B, N
    <3> QED
      BY <1>2, <2>4, <2>5
  <2>7. Max(B) + 1 \in 1..N /\ ~ (Max(B) + 1 <= Max(B))
    BY <1>2, <2>6
  <2>8. Max(B) + 1 \notin B
    BY <2>3, <2>7
  <2>9. frames[Max(B) + 1].vbase <= n
    BY <2>7, <2>8
  <2> QED
    BY <1>5, <2>4, <2>6, <2>9
<1>7. ASSUME NEW k \in 1..N PROVE frames[k].vbase \in 0..n
  <2>1. frames[k].vbase <= n
    BY <1>6
  <2> QED
    BY <1>3, <1>4, <2>1
<1> QED
  BY <1>2, <1>7

\* The machine stops for good in the middle of a line.
LEMMA StopKeeps ==
  ASSUME MInv, CodeWellFormed, phase = "running", phase' \in {"trap", "wild"},
         vstack' = vstack, frames' = frames, outer' = outer,
         line' = line, defs' = defs, settled' = settled, NoInternalFault'
  PROVE  MInv'
<1>1. Len(frames) <= MaxFrames /\ \A k \in DOMAIN frames : frames[k].vbase \in 0..Len(vstack)
  <2>1. DOMAIN frames = 1..Len(frames) /\ Len(frames) <= MaxFrames
    BY FramesOnStack, VMAssumption
  <2> QED
    BY <2>1, FramesOnStack
<1>2. Running'
  BY <1>1, Typed DEF Running
<1>3. Exactly' => Exactly
  BY StillExact
<1>4. \A j \in 1..Len(outer') : Suspended(outer'[j], Exactly')
  BY <1>3, LoosenedUp DEF MInv
<1> QED
  BY <1>2, <1>4 DEF MInv

LEMMA BinaryKeeps ==
  ASSUME MInv, CodeWellFormed, OpBinary
  PROVE  MInv'
<1> DEFINE a == vstack[Len(vstack) - 1]
           b == top
           divides == instr[1] \in {"/", "%"}
           v == binary(instr[1], a, b)
<1>1. phase = "running" /\ instr[1] \in BinaryOps
  BY DEF OpBinary, At
<1>2. Pops(instr) = 2 /\ Pushes(instr) = 1 /\ fr.pc + 1 \in Targets(instr, fr.pc)
  BY <1>1 DEF Pops, Pushes, Targets, BinaryOps
<1>3. Len(vstack) \in Nat /\ Len(vstack) >= 2 /\ ~ (Len(vstack) < 2)
  BY <1>1, <1>2, Room
<1>4. below(2) \in Seq(Word) /\ Len(below(2)) = Len(vstack) - 2 /\ a \in Word /\ b \in Word
  <2>1. Len(vstack) - 1 \in 1..Len(vstack)
    BY <1>3
  <2> QED
    BY <1>3, <2>1, Taken, Typed
<1>5. \/ Fault("division by zero")
      \/ phase' = "trap" /\ res' = Outcome("trap", "") /\ UNCHANGED <<front, vstack, frames, outer>>
      \/ ~ (divides /\ b = 0) /\ Continue(Append(below(2), v), fr.pc + 1)
  BY <1>3 DEF OpBinary, Popping
<1>6. CASE Fault("division by zero")
  BY <1>6, FaultKeeps DEF Internal
<1>7. CASE phase' = "trap" /\ res' = Outcome("trap", "") /\ UNCHANGED <<front, vstack, frames, outer>>
  <2>1. res'.why = ""
    BY <1>7 DEF Outcome
  <2>2. NoInternalFault'
    BY <2>1 DEF NoInternalFault
  <2> QED
    BY <1>1, <1>7, <2>2, StopKeeps DEF front
<1>8. CASE ~ (divides /\ b = 0) /\ Continue(Append(below(2), v), fr.pc + 1)
  <2>1. v \in Word
    BY <1>1, <1>4, <1>8, BinaryTyped
  <2> HIDE DEF v
  <2>2. Append(below(2), v) \in Seq(Word) /\ Len(Append(below(2), v)) = Len(vstack) - 2 + 1
    BY <1>4, <2>1, Stacked
  <2> QED
    BY <1>1, <1>2, <1>8, <2>2, Stepped
<1> QED
  BY <1>5, <1>6, <1>7, <1>8

\* A call: its callee is known, its arguments lie above the caller's locals.
LEMMA CallReady ==
  ASSUME MInv, CodeWellFormed, phase = "running", instr[1] = "CALL"
  PROVE  LET i == noc_lookup(funcs, instr[2]) IN
         /\ i \in 1..Len(funcs) /\ i # 0 /\ instr[3] \in Nat
         /\ funcs[i].builtin = "" => (settled => instr[3] <= funcs[i].nlocals)
         /\ funcs[i].builtin # "" => instr[3] >= 1
         /\ Pops(instr) = instr[3] /\ Pushes(instr) = 1 /\ fr.pc + 1 \in Targets(instr, fr.pc)
         /\ Len(vstack) - instr[3] \in Nat
         /\ fr.vbase + fr.fn.nlocals <= Len(vstack) - instr[3]
<1> DEFINE i == noc_lookup(funcs, instr[2])   l == fr.fn.nlocals   v == fr.vbase   n == Len(vstack)   c == instr[3]
<1>1. /\ c \in Nat /\ i # 0
      /\ IF funcs[i].builtin = "" THEN settled => c <= funcs[i].nlocals ELSE c >= 1
  BY TopInstr DEF OperandsOK
<1>2. i \in 1..Len(funcs)
  BY <1>1, Found
<1>3. Pops(instr) = c /\ Pushes(instr) = 1 /\ fr.pc + 1 \in Targets(instr, fr.pc)
  BY DEF Pops, Pushes, Targets, BinaryOps
<1>4. n \in Nat /\ v \in Nat /\ l \in Nat /\ v + l + c <= n
  BY <1>3, Room
<1>5. n - c \in Nat /\ v + l <= n - c
  <2>1. c \in Nat
    BY <1>1
  <2> HIDE DEF l, v, n, c
  <2> QED
    BY <1>4, <2>1
<1> HIDE DEF i
<1>6. /\ funcs[i].builtin = "" => (settled => c <= funcs[i].nlocals)
      /\ funcs[i].builtin # "" => c >= 1
  BY <1>1
<1> QED
  BY <1>1, <1>2, <1>3, <1>5, <1>6 DEF i

LEMMA CallKeeps ==
  ASSUME MInv, CodeWellFormed, OpCall
  PROVE  MInv'
<1> DEFINE i == noc_lookup(funcs, instr[2])
           callee == funcs[i]
           c == instr[3]
           vbase == Len(vstack) - c
           zeros == [k \in 1..(callee.nlocals - c) |-> 0]
           g == [fn |-> callee, pc |-> 1, vbase |-> vbase]
           Enter == /\ vstack' = vstack \o zeros
                    /\ frames' = Append(goto(fr.pc + 1), g)
                    /\ UNCHANGED <<front, phase, funcs, nobj, outer, out, res>>
<1>1. phase = "running" /\ instr[1] = "CALL"
  BY DEF OpCall, At
<1>2. /\ i \in 1..Len(funcs) /\ i # 0 /\ c \in Nat /\ vbase \in Nat
      /\ callee.builtin = "" => (settled => c <= callee.nlocals)
      /\ Pops(instr) = c /\ Pushes(instr) = 1 /\ fr.pc + 1 \in Targets(instr, fr.pc)
      /\ fr.vbase + fr.fn.nlocals <= vbase
  BY <1>1, CallReady
<1>3. callee.builtin = ""
  BY <1>2 DEF OpCall
<1>4. WellFormed(callee, "RET", 1)
  <2>1. callee \in FnsInUse
    BY <1>2, <1>3 DEF FnsInUse, UserFns
  <2> QED
    BY <2>1 DEF CodeWellFormed
<1>5. callee.nlocals \in Nat
  BY <1>4, VMAssumption DEF WellFormed
<1>6. ~ (vbase < 0)
  <2>1. vbase \in Nat
    BY <1>2
  <2> HIDE DEF vbase
  <2> QED
    BY <2>1
<1>7. \/ Fault("call nesting too deep") \/ Fault("stack overflow on call")
      \/ callee.nlocals < c /\ Fault("bad callee frame")
      \/ /\ ~ (Len(frames) >= MaxFrames) /\ ~ (callee.nlocals < c)
         /\ ~ (vbase + callee.nlocals > StackSize) /\ Enter
  BY <1>2, <1>6 DEF OpCall
<1>8. CASE Fault("call nesting too deep") \/ Fault("stack overflow on call")
  BY <1>8, FaultKeeps DEF Internal
<1>9. CASE callee.nlocals < c /\ Fault("bad callee frame")
  <2> DEFINE l == callee.nlocals
  <2>1. c \in Nat /\ l \in Nat /\ l < c /\ (settled => c <= l)
    BY <1>2, <1>3, <1>5, <1>9
  <2> HIDE DEF l, c
  <2>2. ~ settled
    BY <2>1
  <2> QED
    BY <1>9, <2>2, FaultKeeps DEF Internal
<1>10. CASE /\ ~ (Len(frames) >= MaxFrames) /\ ~ (callee.nlocals < c)
            /\ ~ (vbase + callee.nlocals > StackSize) /\ Enter
  <2> DEFINE l == callee.nlocals   fs == goto(fr.pc + 1)   n == Len(vstack)
  <2>1. n \in Nat /\ n - c + 1 = vbase + 1 /\ l - c \in Nat /\ n + (l - c) = vbase + l /\ vbase + l <= StackSize
    <3>1. n \in Nat /\ c \in Nat /\ l \in Nat /\ n - c \in Nat /\ ~ (l < c) /\ ~ (n - c + l > StackSize)
      BY <1>2, <1>5, <1>10, Typed
    <3> HIDE DEF l, c, n
    <3>2. n - c + 1 = (n - c) + 1 /\ l - c \in Nat /\ n + (l - c) = n - c + l /\ n - c + l <= StackSize
      BY <3>1, VMAssumption
    <3> QED
      BY <3>1, <3>2 DEF n
  <2>2. zeros \in Seq(Word) /\ Len(zeros) = l - c
    <3> HIDE DEF l, c
    <3> QED
      BY <2>1, Words DEF l
  <2>3. vstack' \in Seq(Word) /\ Len(vstack') = vbase + l
    <3>1. vstack' = vstack \o zeros
      BY <1>10
    <3> HIDE DEF zeros, vbase, l, c
    <3>2. vstack' \in Seq(Word) /\ Len(vstack') = Len(vstack) + Len(zeros)
      BY <2>2, <3>1, Typed
    <3> QED
      BY <2>1, <2>2, <3>2
  <2>4. Thread(fs, vbase + 1, chunk, Exactly)
    BY <1>1, <1>2, <2>1, NextPlace
  <2>5. Len(fs) = Len(frames) /\ Len(fs) < MaxFrames /\ fs[Len(fs)].vbase = fr.vbase /\ fs[Len(fs)].fn = fr.fn
    <3> DEFINE N == Len(frames)   f == frames[N]   e == [f EXCEPT !.pc = fr.pc + 1]
    <3>1. frames \in Seq(Range(frames)) /\ N \in 1..MaxFrames /\ N \in 1..N /\ N \in Nat
      BY <1>1, FramesOnStack, VMAssumption
    <3>2. fs = [frames EXCEPT ![N] = e]
      BY DEF goto
    <3>3. e.vbase = f.vbase /\ e.fn = f.fn /\ f = fr
      <4>1. Placed(f, n, Exactly) /\ f = fr
        BY <1>1, <3>1, TopCode DEF Thread, Ceiling
      <4>2. DOMAIN f = {"fn", "pc", "vbase"}
        BY <4>1 DEF Placed
      <4> QED
        BY <4>1, <4>2
    <3> HIDE DEF e
    <3>4. Len(fs) = N /\ fs[N] = e
      BY <3>1, <3>2, Replaced
    <3>5. N < MaxFrames
      BY <1>10, <3>1, VMAssumption
    <3> QED
      BY <3>3, <3>4, <3>5
  <2>6. Placed(g, vbase + l, Exactly)
    <3> DEFINE D == Depths(callee.code)
    <3>1. /\ callee.code \in Seq(Range(callee.code)) /\ callee.code # <<>>
          /\ D[1] = 0
      BY <1>4 DEF WellFormed
    <3>2. 1 \in DOMAIN callee.code
      <4> HIDE DEF callee
      <4> QED
        BY <3>1
    <3>3. g.fn = callee /\ g.pc = 1 /\ g.vbase = vbase /\ DOMAIN g = {"fn", "pc", "vbase"}
      OBVIOUS
    <3>4. Depth(g) = 0
      BY <3>1, <3>3 DEF Depth
    <3> HIDE DEF g, callee, vbase
    <3>5. Meets(vbase + l, vbase + l + 0, Exactly)
      <4>1. vbase \in Nat /\ l \in Nat
        BY <1>2, <1>5
      <4> HIDE DEF l
      <4> QED
        BY <4>1 DEF Meets
    <3>6. g.vbase \in Nat /\ g.pc \in DOMAIN g.fn.code /\ g.fn.nlocals = l
      BY <1>2, <3>2, <3>3
    <3>7. 0 # Dead
      BY DEF Dead
    <3> QED
      BY <3>3, <3>4, <3>5, <3>6, <3>7 DEF Placed
  <2>7. Thread(Append(fs, g), vbase + l, chunk, Exactly)
    <3>1. fs[Len(fs)].vbase + fs[Len(fs)].fn.nlocals <= vbase
      BY <1>2, <2>5
    <3>2. g.vbase = vbase
      OBVIOUS
    <3> HIDE DEF fs, g, vbase, l
    <3> QED
      BY <1>2, <2>4, <2>5, <2>6, <3>1, <3>2, Entered
  <2>8. Thread(frames', Len(vstack'), chunk', Exactly)
    BY <1>10, <2>3, <2>7 DEF front
  <2>9. /\ phase' = "running" /\ outer' = outer /\ res' = res /\ line' = line /\ defs' = defs
        /\ settled' = settled
    BY <1>1, <1>10 DEF front
  <2>10. Len(vstack') <= StackSize
    BY <2>1, <2>3
  <2> HIDE DEF vbase, l
  <2> QED
    BY <2>3, <2>8, <2>9, <2>10, Keeps DEF MInv
<1> QED
  BY <1>7, <1>8, <1>9, <1>10

LEMMA RetKeeps ==
  ASSUME MInv, CodeWellFormed, OpRet
  PROVE  MInv'
<1> DEFINE s == SubSeq(vstack, 1, fr.vbase)   v == fr.vbase   n == Len(vstack)
<1>1. phase = "running" /\ instr[1] = "RET"
  BY DEF OpRet, At
<1>2. Pops(instr) = 1
  BY <1>1 DEF Pops, BinaryOps
<1>3. Len(frames) # 1
  BY <1>1, TopInstr DEF Leave
<1>4. n \in Nat /\ v \in Nat /\ v + 1 <= n /\ ~ (n < 1) /\ 1 <= n
  <2> DEFINE l == fr.fn.nlocals
  <2>1. n \in Nat /\ v \in Nat /\ l \in Nat /\ v + l + 1 <= n
    BY <1>1, <1>2, Room
  <2> HIDE DEF n, v, l
  <2> QED
    BY <2>1
<1>5. /\ vstack' = Append(s, top) /\ frames' = Front(frames)
      /\ UNCHANGED <<front, phase, funcs, nobj, outer, out, res>>
  BY <1>3, <1>4 DEF OpRet, Popping
<1>6. s \in Seq(Word) /\ Len(s) = v /\ top \in Word
  <2>1. top \in Word
    BY <1>4, Taken, Typed
  <2>2. SubSeq(vstack, 1, v) \in Seq(Word) /\ Len(SubSeq(vstack, 1, v)) = v - 1 + 1
    <3> HIDE DEF v
    <3>1. 1 \in 1..(n + 1) /\ v \in 0..n /\ 1 <= v + 1
      BY <1>4
    <3> QED
      BY <3>1, Typed, Slice
  <2>3. v - 1 + 1 = v
    BY <1>4
  <2> QED
    BY <2>1, <2>2, <2>3
<1> HIDE DEF s
<1>7. vstack' \in Seq(Word) /\ Len(vstack') = v + 1 /\ Len(vstack') <= StackSize
  <2>1. vstack' \in Seq(Word) /\ Len(vstack') = v + 1
    BY <1>5, <1>6, Stacked
  <2>2. v + 1 <= StackSize
    <3> HIDE DEF v
    <3> QED
      BY <1>4, Typed, VMAssumption
  <2> QED
    BY <2>1, <2>2
<1>8. Thread(Front(frames), v + 1, chunk, Exactly)
  BY <1>1, <1>3, TopCode, Left
<1> QED
  BY <1>1, <1>5, <1>7, <1>8, Keeps DEF front, MInv

LEMMA HaltKeeps ==
  ASSUME MInv, CodeWellFormed, OpHalt
  PROVE  MInv'
<1> DEFINE o == Outcome("done", "")
<1>1. phase = "running" /\ instr[1] \in {"HALT", "OFFEND"}
  BY DEF OpHalt, At
<1>2. instr[1] # "OFFEND"
  BY <1>1, TopInstr DEF OperandsOK, BinaryOps
<1>3. EndLine(o, TRUE) /\ line' = line /\ defs' = defs
  BY <1>2 DEF OpHalt
<1>4. o.why = ""
  BY DEF Outcome
<1>5. Allowed(o)
  BY <1>4 DEF Allowed, Internal
<1> HIDE DEF o
<1> QED
  BY <1>3, <1>5, EndLineKeeps

LEMMA InterruptKeeps ==
  ASSUME MInv, Interrupt
  PROVE  MInv'
BY FaultKeeps DEF Interrupt, Internal

LEMMA FreedKeeps ==
  ASSUME MInv, CodeWellFormed, RunFreed
  PROVE  MInv'
<1>1. /\ phase = "running" /\ phase' = "wild" /\ vstack' = vstack /\ frames' = frames /\ outer' = outer
      /\ line' = line /\ defs' = defs /\ settled' = settled /\ res' = res
  BY DEF RunFreed, front
<1>2. NoInternalFault'
  BY <1>1 DEF MInv, NoInternalFault
<1> QED
  BY <1>1, <1>2, StopKeeps

------------------------------------------------------------------------------
(* Builtins *)

AtBuiltin == phase = "running" /\ instr[1] = "CALL" /\ funcs[noc_lookup(funcs, instr[2])].builtin # ""

LEMMA BuiltinCalled ==
  ASSUME Calling("Print") \/ Calling("Run") \/ Calling("DraftRun")
  PROVE  AtBuiltin
BY DEF AtBuiltin, Calling, At

LEMMA BuiltinReady ==
  ASSUME MInv, CodeWellFormed, AtBuiltin
  PROVE  /\ phase = "running" /\ below(instr[3]) \in Seq(Word)
         /\ Len(below(instr[3])) + 1 = Len(vstack) - Pops(instr) + Pushes(instr)
         /\ Len(below(instr[3])) \in Nat /\ Len(below(instr[3])) < StackSize
         /\ fr.pc + 1 \in Targets(instr, fr.pc)
<1> DEFINE i == noc_lookup(funcs, instr[2])   c == instr[3]   n == Len(vstack)   s == below(c)
<1>1. phase = "running" /\ instr[1] = "CALL" /\ funcs[i].builtin # ""
  BY DEF AtBuiltin
<1>2. Pops(instr) = c /\ Pushes(instr) = 1 /\ fr.pc + 1 \in Targets(instr, fr.pc)
  BY <1>1, CallReady
<1>3. c \in Nat /\ c >= 1 /\ n - c \in Nat
  BY <1>1, CallReady
<1>4. n \in Nat /\ n <= StackSize /\ vstack \in Seq(Word) /\ StackSize \in Nat
  BY Typed, VMAssumption
<1>5. c <= n
  <2> HIDE DEF c, n
  <2> QED
    BY <1>3, <1>4
<1>6. s \in Seq(Word) /\ Len(s) = n - c
  BY <1>3, <1>4, <1>5, Taken
<1>7. Len(s) \in Nat /\ Len(s) < StackSize /\ Len(s) + 1 = n - c + 1
  <2> DEFINE m == Len(s)
  <2>1. m = n - c
    BY <1>6
  <2> HIDE DEF c, n, m
  <2>2. m \in Nat /\ m < StackSize /\ m + 1 = n - c + 1
    BY <1>3, <1>4, <2>1
  <2> QED
    BY <2>2 DEF m
<1> QED
  BY <1>1, <1>2, <1>6, <1>7

\* A builtin that returns leaves its result for its arguments, whatever it
\* does to the registry.
LEMMA ReturnKeeps ==
  ASSUME MInv, CodeWellFormed, AtBuiltin, NEW v \in Word, Returning(v),
         settled' \in BOOLEAN, settled' => settled
  PROVE  MInv'
<1> DEFINE s == below(instr[3])
<1>1. /\ phase = "running" /\ s \in Seq(Word) /\ Len(s) + 1 = Len(vstack) - Pops(instr) + Pushes(instr)
      /\ Len(s) \in Nat /\ Len(s) < StackSize /\ fr.pc + 1 \in Targets(instr, fr.pc)
  BY BuiltinReady
<1>2. /\ vstack' = Append(s, v) /\ frames' = goto(fr.pc + 1) /\ chunk' = chunk
      /\ phase' = phase /\ outer' = outer /\ res' = res /\ line' = line /\ defs' = defs
  BY DEF Returning
<1> HIDE DEF s
<1>3. Append(s, v) \in Seq(Word) /\ Len(Append(s, v)) = Len(s) + 1
  BY <1>1, Stacked
<1>4. Len(vstack') <= StackSize
  <2> DEFINE m == Len(s)
  <2>1. m \in Nat /\ m < StackSize /\ StackSize \in Nat /\ Len(vstack') = m + 1
    BY <1>1, <1>2, <1>3, VMAssumption
  <2> HIDE DEF m
  <2> QED
    BY <2>1
<1>5. Thread(goto(fr.pc + 1), Len(s) + 1, chunk, Exactly)
  BY <1>1, NextPlace
<1> QED
  BY <1>1, <1>2, <1>3, <1>4, <1>5, Keeps

LEMMA PrintKeeps ==
  ASSUME MInv, CodeWellFormed, b_Print
  PROVE  MInv'
<1>1. AtBuiltin /\ Returning(0) /\ settled' = settled
  BY BuiltinCalled DEF b_Print
<1>2. settled \in BOOLEAN /\ 0 \in Word
  BY Words DEF MInv
<1> QED
  BY <1>1, <1>2, ReturnKeeps

LEMMA RunKeeps ==
  ASSUME MInv, CodeWellFormed, b_Run
  PROVE  MInv'
<1> DEFINE fs == {f \in DOMAIN Files : Addr[f] = args[1]}
           name == CHOOSE f \in fs : TRUE
           script == Files[name]
           s == below(instr[3])
           up == [vstack |-> s, frames |-> goto(fr.pc + 1), chunk |-> chunk, rest |-> Tail(script),
                  over |-> name \in NewlineEnded]
<1>1. AtBuiltin /\ settled \in BOOLEAN /\ MinusOne \in Word
  BY Words, BuiltinCalled DEF b_Run, MInv
<1>2. CASE fs = {} \/ Len(outer) >= MaxNest
  <2>1. Returning(MinusOne) /\ settled' = (settled /\ fs = {})
    BY <1>2 DEF b_Run
  <2>2. settled' \in BOOLEAN /\ (settled' => settled)
    BY <1>1, <2>1
  <2> QED
    BY <1>1, <2>1, <2>2, ReturnKeeps
<1>3. CASE ~ (fs = {} \/ Len(outer) >= MaxNest)
  <2>1. /\ outer' = Append(outer, up) /\ phase' = "lexed" /\ vstack' = <<>> /\ frames' = <<>>
        /\ res' = res /\ line' = line /\ defs' = defs /\ settled' = settled
    BY <1>3 DEF b_Run
  <2>2. /\ phase = "running" /\ s \in Seq(Word) /\ Len(s) + 1 = Len(vstack) - Pops(instr) + Pushes(instr)
        /\ Len(s) < StackSize /\ fr.pc + 1 \in Targets(instr, fr.pc)
    BY <1>1, BuiltinReady
  <2>3. Thread(goto(fr.pc + 1), Len(s) + 1, chunk, Exactly)
    BY <2>2, NextPlace
  <2>4. Suspended(up, Exactly)
    <3>1. /\ DOMAIN up = {"vstack", "frames", "chunk", "rest", "over"}
          /\ up.vstack = s /\ up.frames = goto(fr.pc + 1) /\ up.chunk = chunk
      OBVIOUS
    <3> HIDE DEF up, s
    <3> QED
      BY <2>2, <2>3, <3>1 DEF Suspended
  <2> HIDE DEF up
  <2>5. Exactly' => Exactly
    BY <2>1, StillExact
  <2>6. /\ outer \in Seq(Range(outer)) /\ Len(outer) \in Nat
        /\ \A j \in 1..Len(outer) : Suspended(outer[j], Exactly)
    BY DEF MInv
  <2>7. /\ outer' \in Seq(Range(outer')) /\ Len(outer') = Len(outer) + 1
        /\ \A k \in 1..Len(outer) : outer'[k] = outer[k]
        /\ outer'[Len(outer) + 1] = up
    BY <2>1, <2>6, Appended
  <2>8. ASSUME NEW j \in 1..Len(outer') PROVE Suspended(outer'[j], Exactly')
    <3>1. j = Len(outer) + 1 \/ j \in 1..Len(outer)
      BY <2>6, <2>7
    <3>2. Suspended(outer'[j], Exactly)
      BY <2>4, <2>6, <2>7, <3>1
    <3> QED
      BY <2>5, <3>2, LoosenedUp
  <2>9. Len(outer') <= MaxNest
    BY <1>3, <2>6, <2>7, VMAssumption
  <2>10. Running'
    BY <2>1, VMAssumption DEF Running
  <2>11. NoInternalFault'
    BY <2>1 DEF MInv, NoInternalFault
  <2> QED
    BY <1>1, <2>1, <2>7, <2>8, <2>9, <2>10, <2>11 DEF MInv
<1> QED
  BY <1>2, <1>3

LEMMA DraftRunKeeps ==
  ASSUME MInv, CodeWellFormed, NEW t, NEW b, b_DraftRun(t, b)
  PROVE  MInv'
<1>1. AtBuiltin /\ settled' = FALSE
  BY BuiltinCalled DEF b_DraftRun
<1>2. \E v \in Word : Returning(v)
  BY Words DEF b_DraftRun
<1> QED
  BY <1>1, <1>2, ReturnKeeps

LEMMA SeedKeeps ==
  ASSUME MInv, SeedTooLong
  PROVE  MInv'
BY FaultKeeps DEF SeedTooLong, Internal

------------------------------------------------------------------------------
(* Lines *)

LEMMA ReadKeeps ==
  ASSUME MInv, ReadLine
  PROVE  MInv'
<1>1. /\ phase = "idle" /\ phase' = "lexed" /\ vstack' = vstack /\ frames' = frames
      /\ outer' = outer /\ res' = res /\ settled' = settled
  BY DEF ReadLine
<1>2. outer = <<>> /\ vstack = <<>> /\ frames = <<>>
  BY <1>1 DEF MInv, Running
<1>3. Running'
  BY <1>1, <1>2, Typed DEF Running
<1>4. \A j \in 1..Len(outer') : Suspended(outer'[j], Exactly')
  BY <1>1, <1>2
<1>5. NoInternalFault'
  BY <1>1 DEF MInv, NoInternalFault
<1> QED
  BY <1>1, <1>3, <1>4, <1>5 DEF MInv

LEMMA ParseKeeps ==
  ASSUME MInv, Parse
  PROVE  MInv'
<1> DEFINE o == Outcome("reject", "parse")
<1>1. phase = "lexed" /\ line' = line /\ defs' = defs
  BY DEF Parse
<1>2. \/ EndLine(o, outer = <<>>)
      \/ phase' = "parsed" /\ UNCHANGED <<vstack, frames, outer, res, settled>>
  BY DEF Parse
<1>3. CASE EndLine(o, outer = <<>>)
  <2>1. o.why = "parse"
    BY DEF Outcome
  <2>2. Allowed(o) /\ (outer = <<>>) \in BOOLEAN
    BY <2>1 DEF Allowed, Internal
  <2> HIDE DEF o
  <2> QED
    BY <1>1, <1>3, <2>2, EndLineKeeps
<1>4. CASE phase' = "parsed" /\ UNCHANGED <<vstack, frames, outer, res, settled>>
  <2>1. vstack = <<>> /\ frames = <<>>
    BY <1>1 DEF MInv, Running
  <2>2. Running'
    BY <1>4, <2>1, Typed DEF Running
  <2>3. Exactly' => Exactly
    BY <1>1, <1>4, StillExact
  <2>4. \A j \in 1..Len(outer') : Suspended(outer'[j], Exactly')
    BY <1>4, <2>3, LoosenedUp DEF MInv
  <2>5. NoInternalFault'
    BY <1>4 DEF MInv, NoInternalFault
  <2> QED
    BY <1>4, <2>2, <2>4, <2>5 DEF MInv
<1> QED
  BY <1>2, <1>3, <1>4

\* The code of a line is run from its first instruction, on its locals.
LEMMA CompileKeeps ==
  ASSUME MInv, Compile, CodeWellFormed'
  PROVE  MInv'
<1> DEFINE o == Outcome("reject", "compile")
<1>1. phase = "parsed" /\ line' = line /\ defs' = defs
  BY DEF Compile
<1>2. PICK r : /\ r = compile_of(stmts, funcs, nobj)
               /\ IF ~r.ok
                  THEN EndLine(o, outer = <<>> /\ r.funcs = funcs)
                  ELSE /\ chunk' = r.chunk /\ phase' = "running"
                       /\ settled' = (settled /\ (r.funcs = funcs \/ (outer = <<>> /\ Extends(r.funcs, funcs))))
                       /\ vstack' = [k \in 1..r.chunk.nlocals |-> 0]
                       /\ frames' = << [fn |-> r.chunk, pc |-> 1, vbase |-> 0] >>
                       /\ UNCHANGED <<toks, outer, res>>
  BY DEF Compile
<1>3. CASE ~r.ok
  <2> DEFINE e == (outer = <<>> /\ r.funcs = funcs)
  <2>1. o.why = "compile"
    BY DEF Outcome
  <2>2. Allowed(o) /\ e \in BOOLEAN /\ EndLine(o, e)
    BY <1>2, <1>3, <2>1 DEF Allowed, Internal
  <2> HIDE DEF o, e
  <2> QED
    BY <1>1, <2>2, EndLineKeeps
<1>4. CASE r.ok
  <2> DEFINE c == r.chunk   l == c.nlocals   g == [fn |-> c, pc |-> 1, vbase |-> 0]
  <2>1. /\ chunk' = c /\ phase' = "running" /\ outer' = outer /\ res' = res
        /\ vstack' = [k \in 1..l |-> 0] /\ frames' = <<g>>
    BY <1>2, <1>4
  <2>2. settled' \in BOOLEAN /\ (settled' => settled)
    <3>1. settled' = (settled /\ (r.funcs = funcs \/ (outer = <<>> /\ Extends(r.funcs, funcs))))
      BY <1>2, <1>4
    <3>2. settled \in BOOLEAN
      BY DEF MInv
    <3> QED
      BY <3>1, <3>2
  <2>3. /\ l \in 0..MaxLocals /\ c.code \in Seq(Range(c.code)) /\ c.code # <<>>
        /\ Depths(c.code)[1] = 0
    <3>1. chunk' \in LinesInUse'
      BY <2>1 DEF LinesInUse
    <3>2. /\ chunk'.nlocals \in 0..MaxLocals
          /\ chunk'.code \in Seq(Range(chunk'.code)) /\ chunk'.code # <<>>
          /\ Depths(chunk'.code)[1] = 0
      BY <3>1 DEF CodeWellFormed, WellFormed
    <3> QED
      BY <2>1, <3>2
  <2>4. 1 \in DOMAIN c.code /\ l \in Nat /\ l <= StackSize
    <3>1. 1 \in DOMAIN c.code
      <4> DEFINE C == c.code
      <4>1. C \in Seq(Range(C)) /\ C # <<>>
        BY <2>3
      <4> HIDE DEF C
      <4>2. 1 \in DOMAIN C
        BY <4>1
      <4> QED
        BY <4>2 DEF C
    <3> QED
      BY <2>3, <3>1, VMAssumption
  <2>5. vstack' \in Seq(Word) /\ Len(vstack') = l
    <3> HIDE DEF l
    <3> QED
      BY <2>1, <2>4, Words
  <2>6. Placed(g, l, Exactly)
    <3>1. g.fn = c /\ g.pc = 1 /\ g.vbase = 0 /\ DOMAIN g = {"fn", "pc", "vbase"}
      OBVIOUS
    <3> HIDE DEF g
    <3>2. Depth(g) = 0 /\ 0 # Dead
      BY <2>3, <3>1 DEF Depth, Dead
    <3>3. Meets(l, 0 + l + 0, Exactly)
      <4> HIDE DEF l
      <4> QED
        BY <2>4 DEF Meets
    <3> QED
      BY <2>4, <3>1, <3>2, <3>3 DEF Placed
  <2>7. g.fn = c
    OBVIOUS
  <2> HIDE DEF g
  <2>8. frames' \in Seq({g}) /\ Len(frames') = 1 /\ frames'[1] = g
    BY <2>1
  <2>9. Thread(frames', l, c, Exactly)
    <3>1. frames' \in Seq(Range(frames'))
      BY <2>8, OwnElements
    <3>2. 1..Len(frames') = {1} /\ 1..(Len(frames') - 1) = {} /\ Len(frames') \in 1..MaxFrames
      BY <2>8, VMAssumption
    <3>3. Placed(frames'[1], Ceiling(frames', l, 1), Exactly)
      BY <2>6, <2>8 DEF Ceiling
    <3> HIDE DEF c, l
    <3> QED
      BY <2>7, <2>8, <3>1, <3>2, <3>3 DEF Thread
  <2>10. Len(vstack') <= StackSize /\ Thread(frames', Len(vstack'), chunk', Exactly)
    BY <2>1, <2>4, <2>5, <2>9
  <2> QED
    BY <1>1, <2>1, <2>2, <2>5, <2>10, Keeps
<1> QED
  BY <1>3, <1>4

------------------------------------------------------------------------------
(* The machine *)

LEMMA InitMInv == Init => MInv
<1>1. Init => phase = "idle" /\ vstack = <<>> /\ frames = <<>> /\ outer = <<>> /\ settled \in BOOLEAN
  BY DEF Init
<1>2. Init => NoInternalFault
  <2>1. Outcome("none", "").why = ""
    BY DEF Outcome
  <2>2. Init => res.why = ""
    BY <2>1 DEF Init
  <2> QED
    BY <2>2 DEF NoInternalFault
<1>3. ASSUME phase = "idle", vstack = <<>>, frames = <<>>, outer = <<>>
      PROVE  /\ Running /\ outer \in Seq(Range(outer)) /\ Len(outer) <= MaxNest
             /\ \A j \in 1..Len(outer) : Suspended(outer[j], Exactly)
  <2>1. <<>> \in Seq(Word) /\ <<>> \in Seq({}) /\ Len(<<>>) = 0
    OBVIOUS
  <2>2. Running
    BY <1>3, <2>1, VMAssumption DEF Running
  <2>3. outer \in Seq(Range(outer)) /\ Len(outer) <= MaxNest
    BY <1>3, <2>1, OwnElements, VMAssumption
  <2>4. \A j \in 1..Len(outer) : Suspended(outer[j], Exactly)
    BY <1>3, <2>1
  <2> QED
    BY <2>2, <2>3, <2>4
<1> QED
  BY <1>1, <1>2, <1>3 DEF MInv

LEMMA NextMInv == MInv /\ CodeWellFormed /\ CodeWellFormed' /\ [Next]_vars => MInv'
<1> SUFFICES ASSUME MInv, CodeWellFormed, CodeWellFormed', [Next]_vars PROVE MInv'
  OBVIOUS
<1>1. CASE ReadLine \/ Parse \/ Compile
  BY <1>1, ReadKeeps, ParseKeeps, CompileKeeps
<1>2. CASE OpPush \/ OpDup \/ OpPop \/ OpLoad \/ OpStore \/ OpJump
  BY <1>2, PushKeeps, DupKeeps, PopKeeps, LoadKeeps, StoreKeeps, JumpKeeps
<1>3. CASE OpBinary \/ OpUnary \/ OpCall \/ OpRet \/ OpHalt
  BY <1>3, BinaryKeeps, UnaryKeeps, CallKeeps, RetKeeps, HaltKeeps
<1>4. CASE Interrupt \/ RunFreed
  BY <1>4, InterruptKeeps, FreedKeeps
<1>5. CASE b_Print \/ b_Run \/ SeedTooLong \/ \E t, b \in Drafts : b_DraftRun(t, b)
  BY <1>5, PrintKeeps, RunKeeps, SeedKeeps, DraftRunKeeps
<1>6. CASE UNCHANGED vars
  <2>1. /\ phase' = phase /\ chunk' = chunk /\ vstack' = vstack /\ frames' = frames /\ outer' = outer
        /\ res' = res /\ line' = line /\ defs' = defs /\ settled' = settled
    BY <1>6 DEF vars
  <2>2. Exactly' = Exactly
    BY <2>1 DEF Exactly, PlainSession
  <2>3. Running' = Running
    BY <2>1, <2>2 DEF Running
  <2>4. NoInternalFault' = NoInternalFault
    BY <2>1 DEF NoInternalFault
  <2> QED
    BY <2>1, <2>2, <2>3, <2>4 DEF MInv
<1> QED
  BY <1>1, <1>2, <1>3, <1>4, <1>5, <1>6 DEF Next

\* The type invariant: in the phases in which code is not run the stack is
\* empty, in the others every frame starts on it.
LEMMA MInvTypeOK == MInv /\ CodeWellFormed => NocTypeOK
<1> SUFFICES ASSUME MInv, CodeWellFormed PROVE NocTypeOK
  OBVIOUS
<1>1. /\ phase \in {"idle", "lexed", "parsed", "running", "trap", "wild", "overrun"}
      /\ vstack \in Seq(Word) /\ Len(vstack) <= StackSize /\ Len(outer) <= MaxNest /\ settled \in BOOLEAN
  BY DEF MInv, Running
<1>2. /\ Len(frames) <= MaxFrames /\ (phase = "running" => frames # <<>>)
      /\ \A k \in DOMAIN frames : frames[k].vbase \in 0..Len(vstack)
  <2>1. CASE phase = "running"
    <3>1. /\ frames \in Seq(Range(frames)) /\ Len(frames) \in 1..MaxFrames
          /\ \A k \in 1..Len(frames) : frames[k].vbase \in 0..Len(vstack)
      BY <2>1, FramesOnStack
    <3>2. DOMAIN frames = 1..Len(frames) /\ Len(frames) <= MaxFrames /\ frames # <<>>
      BY <3>1, VMAssumption
    <3> QED
      BY <3>1, <3>2
  <2>2. CASE phase \in {"idle", "lexed", "parsed", "overrun"}
    BY <2>2, VMAssumption DEF MInv, Running
  <2>3. CASE phase \in {"trap", "wild"}
    BY <2>3 DEF MInv, Running
  <2> QED
    BY <1>1, <2>1, <2>2, <2>3
<1> QED
  BY <1>1, <1>2 DEF NocTypeOK

LEMMA MInvBalanced == MInv /\ CodeWellFormed => StackBalanced
<1> SUFFICES ASSUME MInv, CodeWellFormed, phase = "running"
             PROVE  /\ \A k \in 1..(Len(frames) - 1) : frames[k].vbase + frames[k].fn.nlocals <= frames[k + 1].vbase
                    /\ Len(vstack) >= fr.vbase + fr.fn.nlocals
                    /\ settled /\ PlainSession /\ instr[1] \in {"HALT", "RET"} =>
                         Len(vstack) = fr.vbase + fr.fn.nlocals
                                         + (IF instr[1] = "RET" \/ chunk.last_expr THEN 1 ELSE 0)
  BY DEF StackBalanced
<1>1. \A k \in 1..(Len(frames) - 1) : frames[k].vbase + frames[k].fn.nlocals <= frames[k + 1].vbase
  BY TopCode DEF Thread
<1>2. Len(vstack) >= fr.vbase + fr.fn.nlocals
  <2> DEFINE l == fr.fn.nlocals   v == fr.vbase   n == Len(vstack)   p == Pops(instr)
  <2>1. n \in Nat /\ v \in Nat /\ l \in Nat /\ p \in Nat /\ v + l + p <= n
    BY Room
  <2> HIDE DEF l, v, n, p
  <2>2. n >= v + l
    BY <2>1
  <2> QED
    BY <2>2 DEF l, v, n
<1>3. ASSUME settled, PlainSession, instr[1] \in {"HALT", "RET"}
      PROVE  Len(vstack) = fr.vbase + fr.fn.nlocals + (IF instr[1] = "RET" \/ chunk.last_expr THEN 1 ELSE 0)
  <2>1. /\ instr = fr.fn.code[fr.pc] /\ instr[1] = Leave
        /\ Meets(Len(vstack), fr.vbase + fr.fn.nlocals + Depth(fr), Exactly)
        /\ FlowOK(fr.fn, Depths(fr.fn.code), fr.pc, Result)
    BY <1>3, TopInstr
  <2>2. Targets(instr, fr.pc) = {}
    BY <1>3 DEF Targets
  <2>3. Depth(fr) = Result
    BY <1>3, <2>1, <2>2 DEF FlowOK, Depth
  <2>4. Len(vstack) = fr.vbase + fr.fn.nlocals + Depth(fr)
    BY <1>3, <2>1 DEF Meets, Exactly
  <2>5. Result = IF instr[1] = "RET" \/ chunk.last_expr THEN 1 ELSE 0
    BY <1>3, <2>1 DEF Leave, Result
  <2> QED
    BY <2>3, <2>4, <2>5
<1> QED
  BY <1>1, <1>2, <1>3

\* MInv is the inductive invariant of a machine that runs well-formed code
\* (run_loop of vm.c): every frame, of the line being run and of the lines
\* suspended in Run, is at an instruction that will find on the stack the
\* values that its code expects.
THEOREM MachineInvariant == Spec /\ []CodeWellFormed => []MInv
<1>1. Init => MInv
  BY InitMInv
<1>2. MInv /\ CodeWellFormed /\ CodeWellFormed' /\ [Next]_vars => MInv'
  BY NextMInv
<1> QED
  BY <1>1, <1>2, PTL DEF Spec

\* The stack, the table of frames and the nesting of scripts stay within
\* their arrays, and every value is a word, whatever well-formed code is run.
THEOREM MachineTypeCorrect == Spec /\ []CodeWellFormed => []NocTypeOK
<1>1. MInv /\ CodeWellFormed => NocTypeOK
  BY MInvTypeOK
<1> QED
  BY <1>1, MachineInvariant, PTL

\* Well-formed code keeps its frames apart, in any session: no frame reaches the
\* locals of another.  In settled sessions without &&, ||, prefix ++ and --
\* (whose code is well formed and leaves values behind) a line or function is
\* left with exactly its locals and its result.
THEOREM StackAlwaysBalanced == Spec /\ []CodeWellFormed => []StackBalanced
<1>1. MInv /\ CodeWellFormed => StackBalanced
  BY MInvBalanced
<1> QED
  BY <1>1, MachineInvariant, PTL

\* Well-formed code never meets the consistency checks of run_loop: they are
\* needed for no line that noc_compile accepts.
THEOREM NoInternalFaultEver == Spec /\ []CodeWellFormed => []NoInternalFault
<1>1. MInv => NoInternalFault
  BY DEF MInv
<1> QED
  BY <1>1, MachineInvariant, PTL
==============================================================================
