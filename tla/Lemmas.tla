-------------------------------- MODULE Lemmas --------------------------------
(***************************************************************************)
(* Facts that the proofs of several components use: about sets of numbers, *)
(* counting and induction, and what the operators on sequences do, place   *)
(* by place.                                                               *)
(***************************************************************************)
EXTENDS SequencesExt, SequenceTheorems, FiniteSetTheorems, FunctionTheorems,
        WellFoundedInduction, TLAPS

(* Sets *)

\* A set of numbers that is not empty has a least element.  (The library
\* states induction with operator parameters; this follows from the finite
\* sets being well-founded: look at the smallest of the intervals 0..n.)
LEMMA LeastExists ==
  ASSUME NEW S \in SUBSET Nat, S # {}
  PROVE  \E x \in S : \A y \in S : x <= y
<1> DEFINE T == {0..n : n \in S}
<1>1. ASSUME NEW n \in S PROVE 0..n \in FiniteSubsetsOf(Nat)
  <2>1. IsFiniteSet(0..n)
    BY FS_Interval, n \in Int, 0 \in Int
  <2> QED
    BY <2>1 DEF FiniteSubsetsOf
<1>2. T \subseteq FiniteSubsetsOf(Nat) /\ T # {}
  BY <1>1
<1>3. PICK u \in T : \A v \in T : ~ (<<v, u>> \in StrictSubsetOrdering(Nat))
  <2> HIDE DEF T
  <2> QED
    BY <1>2, FS_StrictSubsetOrderingWellFounded, WFMin
<1>4. PICK x \in S : u = 0..x
  OBVIOUS
<1>5. ASSUME NEW y \in S, y < x PROVE FALSE
  <2>1. <<0..y, 0..x>> \notin StrictSubsetOrdering(Nat)
    BY <1>3, <1>4
  <2>2. ~ (0..y \subseteq 0..x /\ 0..y # 0..x)
    BY <1>1, <2>1 DEF StrictSubsetOrdering, FiniteSubsetsOf
  <2>3. x \in 0..x /\ x \notin 0..y /\ 0..y \subseteq 0..x
    BY <1>5
  <2> QED
    BY <2>2, <2>3
<1> QED
  BY <1>5

\* The values of a one-to-one function into a finite set are as many as its
\* arguments.
LEMMA ImageCount ==
  ASSUME NEW S, NEW T, IsFiniteSet(T), NEW f \in [S -> T],
         \A a, b \in S : f[a] = f[b] => a = b
  PROVE  Cardinality({f[a] : a \in S}) = Cardinality(S)
<1> DEFINE R == {f[a] : a \in S}
<1>1. f \in Injection(S, T)
  BY Fun_IsInj
<1>2. IsFiniteSet(S)
  BY <1>1, FS_Injection
<1>3. f \in [S -> R] /\ (\A r \in R : \E a \in S : f[a] = r)
  OBVIOUS
<1>4. f \in Bijection(S, R)
  BY <1>3, Fun_IsBij
<1>5. ExistsBijection(S, R)
  BY <1>4 DEF ExistsBijection
<1> HIDE DEF R
<1>6. Cardinality(R) = Cardinality(S)
  BY <1>2, <1>5, FS_Bijection
<1> QED
  BY <1>6 DEF R

\* Induction up to n, for the set of numbers that have the property.
LEMMA UpTo ==
  ASSUME NEW n \in Nat, NEW G, 0 \in G, \A k \in 0..(n - 1) : k \in G => k + 1 \in G
  PROVE  \A k \in 0..n : k \in G
<1> DEFINE Bad == (0..n) \ G
<1>1. ASSUME Bad # {} PROVE FALSE
  <2>1. Bad \in SUBSET Nat
    OBVIOUS
  <2> HIDE DEF Bad
  <2>2. PICK m \in Bad : \A k \in Bad : m <= k
    BY <1>1, <2>1, LeastExists
  <2> USE DEF Bad
  <2>3. m # 0 /\ m - 1 \in 0..(n - 1) /\ m - 1 \notin Bad
    BY <2>2
  <2>4. (m - 1) + 1 \in G
    BY <2>3
  <2> QED
    BY <2>2, <2>3, <2>4
<1> QED
  BY <1>1

-----------------------------------------------------------------------------
(* Arithmetic *)

LEMMA ProductMonotone ==
  ASSUME NEW a \in Nat, NEW b \in Nat, NEW c \in Nat, NEW d \in Nat, a <= b, c <= d
  PROVE  a * c \in Nat /\ a * c <= b * d
<1>1. PICK x \in Nat : b = a + x
  <2>1. b - a \in Nat /\ b = a + (b - a)
    OBVIOUS
  <2> QED
    BY <2>1
<1>2. PICK y \in Nat : d = c + y
  <2>1. d - c \in Nat /\ d = c + (d - c)
    OBVIOUS
  <2> QED
    BY <2>1
<1>3. b * d = a * c + a * y + x * c + x * y
  BY <1>1, <1>2
<1>4. a * c \in Nat /\ a * y \in Nat /\ x * c \in Nat /\ x * y \in Nat
  OBVIOUS
<1> QED
  BY <1>3, <1>4

LEMMA DivRange ==
  ASSUME NEW n \in Nat, NEW d \in Nat \ {0}
  PROVE  n \div d \in Nat /\ d * (n \div d) <= n /\ n < d * (n \div d) + d
OBVIOUS

LEMMA DivMonotone ==
  ASSUME NEW m \in Nat, NEW n \in Nat, NEW d \in Nat \ {0}, m <= n
  PROVE  m \div d <= n \div d
<1> DEFINE x == m \div d   y == n \div d
<1>1. x \in Nat /\ y \in Nat /\ d * x <= m /\ n < d * y + d
  BY DivRange
<1> HIDE DEF x, y
<1>2. ASSUME x > y PROVE FALSE
  <2>1. PICK k \in Nat : x = y + 1 + k
    <3>1. x - (y + 1) \in Nat /\ x = y + 1 + (x - (y + 1))
      BY <1>1, <1>2
    <3> QED
      BY <3>1
  <2>2. d * x = d * y + d + d * k /\ d * k \in Nat /\ d * y \in Nat
    BY <1>1, <2>1
  <2> QED
    BY <1>1, <2>2
<1>3. x <= y
  BY <1>1, <1>2
<1> QED
  BY <1>3 DEF x, y

LEMMA DivExact ==
  ASSUME NEW n \in Nat, NEW d \in Nat \ {0}, NEW a \in Nat, NEW b \in Nat,
         d * a <= n, n < d * b
  PROVE  a <= n \div d /\ n \div d < b
<1> DEFINE x == n \div d
<1>1. x \in Nat /\ d * x <= n /\ n < d * x + d
  BY DivRange
<1> HIDE DEF x
<1>2. ASSUME a > x PROVE FALSE
  <2>1. PICK k \in Nat : a = x + 1 + k
    <3>1. a - (x + 1) \in Nat /\ a = x + 1 + (a - (x + 1))
      BY <1>1, <1>2
    <3> QED
      BY <3>1
  <2>2. d * a = d * x + d + d * k /\ d * k \in Nat /\ d * x \in Nat
    BY <1>1, <2>1
  <2> QED
    BY <1>1, <2>2
<1>3. ASSUME x >= b PROVE FALSE
  <2>1. d * b <= d * x
    BY <1>1, <1>3, ProductMonotone
  <2> QED
    BY <1>1, <2>1
<1>4. a <= x /\ x < b
  BY <1>1, <1>2, <1>3
<1> QED
  BY <1>4 DEF x

-----------------------------------------------------------------------------
(* Sequences *)

LEMMA Slice ==
  ASSUME NEW S, NEW s \in Seq(S), NEW i \in 1..(Len(s) + 1), NEW j \in 0..Len(s), i <= j + 1
  PROVE  /\ SubSeq(s, i, j) \in Seq(S) /\ Len(SubSeq(s, i, j)) = j - i + 1
         /\ \A k \in 1..(j - i + 1) : SubSeq(s, i, j)[k] = s[i + k - 1]
OBVIOUS

LEMMA InsertAtSpec ==
  ASSUME NEW S, NEW s \in Seq(S), NEW e \in S, NEW i \in 1..(Len(s) + 1)
  PROVE  /\ InsertAt(s, i, e) \in Seq(S)
         /\ Len(InsertAt(s, i, e)) = Len(s) + 1
         /\ \A j \in 1..(i - 1) : InsertAt(s, i, e)[j] = s[j]
         /\ InsertAt(s, i, e)[i] = e
         /\ \A j \in i..Len(s) : InsertAt(s, i, e)[j + 1] = s[j]
<1> DEFINE a == SubSeq(s, 1, i - 1)
           b == <<e>>
           c == SubSeq(s, i, Len(s))
<1>1. Len(s) \in Nat
  OBVIOUS
<1>2. a \in Seq(S) /\ Len(a) = i - 1 /\ \A k \in 1..(i - 1) : a[k] = s[k]
  BY <1>1
<1>3. c \in Seq(S) /\ Len(c) = Len(s) - i + 1 /\ \A k \in 1..(Len(s) - i + 1) : c[k] = s[i + k - 1]
  BY <1>1
<1>4. b \in Seq(S) /\ Len(b) = 1 /\ b[1] = e
  OBVIOUS
<1> HIDE DEF a, b, c
<1>5. /\ a \o b \in Seq(S) /\ Len(a \o b) = i
      /\ \A k \in 1..i : (a \o b)[k] = IF k < i THEN s[k] ELSE e
  <2>1. /\ a \o b \in Seq(S) /\ Len(a \o b) = Len(a) + Len(b)
        /\ \A k \in 1..(Len(a) + Len(b)) :
             (a \o b)[k] = IF k <= Len(a) THEN a[k] ELSE b[k - Len(a)]
    BY <1>2, <1>4, ConcatProperties
  <2>2. Len(a) + Len(b) = i
    BY <1>1, <1>2, <1>4
  <2> QED
    BY <1>1, <1>2, <1>4, <2>1, <2>2
<1> DEFINE d == a \o b
<1> HIDE DEF d
<1>6. /\ d \in Seq(S) /\ Len(d) = i /\ \A k \in 1..i : d[k] = IF k < i THEN s[k] ELSE e
  BY <1>5 DEF d
<1>7. /\ d \o c \in Seq(S) /\ Len(d \o c) = Len(s) + 1
      /\ \A k \in 1..(Len(s) + 1) : (d \o c)[k] = IF k <= i THEN d[k] ELSE c[k - i]
  BY <1>1, <1>3, <1>6, ConcatProperties
<1>8. \A k \in 1..(Len(s) + 1) :
        (d \o c)[k] = IF k < i THEN s[k] ELSE IF k = i THEN e ELSE s[k - 1]
  BY <1>1, <1>3, <1>6, <1>7
<1>9. InsertAt(s, i, e) = d \o c
  BY DEF InsertAt, a, b, c, d
<1> DEFINE q == d \o c
<1> HIDE DEF q
<1>10. \A j \in 1..(i - 1) : q[j] = s[j]
  <2> TAKE j \in 1..(i - 1)
  <2>1. j \in 1..(Len(s) + 1) /\ j < i
    BY <1>1
  <2> QED
    BY <1>8, <2>1 DEF q
<1>11. q[i] = e
  <2>1. i \in 1..(Len(s) + 1) /\ ~ (i < i)
    BY <1>1
  <2> QED
    BY <1>8, <2>1 DEF q
<1>12. \A j \in i..Len(s) : q[j + 1] = s[j]
  <2> TAKE j \in i..Len(s)
  <2>1. j + 1 \in 1..(Len(s) + 1) /\ ~ (j + 1 < i) /\ j + 1 # i /\ (j + 1) - 1 = j
    BY <1>1
  <2> QED
    BY <1>8, <2>1 DEF q
<1>13. q \in Seq(S) /\ Len(q) = Len(s) + 1 /\ InsertAt(s, i, e) = q
  BY <1>7, <1>9 DEF q
<1> QED
  BY <1>10, <1>11, <1>12, <1>13

LEMMA RemoveAtSpec ==
  ASSUME NEW S, NEW s \in Seq(S), NEW i \in 1..Len(s)
  PROVE  /\ RemoveAt(s, i) \in Seq(S)
         /\ Len(RemoveAt(s, i)) = Len(s) - 1
         /\ \A j \in 1..(Len(s) - 1) : RemoveAt(s, i)[j] = IF j < i THEN s[j] ELSE s[j + 1]
<1> DEFINE a == SubSeq(s, 1, i - 1)
           c == SubSeq(s, i + 1, Len(s))
<1>1. Len(s) \in Nat
  OBVIOUS
<1>2. a \in Seq(S) /\ Len(a) = i - 1 /\ \A k \in 1..(i - 1) : a[k] = s[k]
  BY <1>1
<1>3. c \in Seq(S) /\ Len(c) = Len(s) - i /\ \A k \in 1..(Len(s) - i) : c[k] = s[i + k]
  BY <1>1
<1> HIDE DEF a, c
<1>4. /\ a \o c \in Seq(S) /\ Len(a \o c) = Len(s) - 1
      /\ \A k \in 1..(Len(s) - 1) : (a \o c)[k] = IF k <= i - 1 THEN a[k] ELSE c[k - (i - 1)]
  <2>1. /\ a \o c \in Seq(S) /\ Len(a \o c) = Len(a) + Len(c)
        /\ \A k \in 1..(Len(a) + Len(c)) :
             (a \o c)[k] = IF k <= Len(a) THEN a[k] ELSE c[k - Len(a)]
    BY <1>2, <1>3, ConcatProperties
  <2>2. Len(a) + Len(c) = Len(s) - 1
    BY <1>1, <1>2, <1>3
  <2> QED
    BY <1>1, <1>2, <1>3, <2>1, <2>2
<1>5. \A k \in 1..(Len(s) - 1) : (a \o c)[k] = IF k < i THEN s[k] ELSE s[k + 1]
  BY <1>1, <1>2, <1>3, <1>4
<1>6. RemoveAt(s, i) = a \o c
  BY DEF RemoveAt, a, c
<1> QED
  BY <1>4, <1>5, <1>6

\* The first place that passes the test, given as a set of places.
LEMMA FirstOf ==
  ASSUME NEW I \in SUBSET Nat, I # {}
  PROVE  Min(I) \in I /\ \A j \in I : Min(I) <= j
<1>1. \E x \in I : \A y \in I : x <= y
  BY LeastExists
<1> QED
  BY <1>1 DEF Min

\* The greatest of a bounded set of numbers.
LEMMA LastOf ==
  ASSUME NEW m \in Nat, NEW S \in SUBSET (0..m), S # {}
  PROVE  Max(S) \in S /\ \A y \in S : y <= Max(S)
<1> DEFINE T == {m - x : x \in S}
<1>1. T \in SUBSET Nat /\ T # {}
  <2>1. ASSUME NEW x \in S PROVE m - x \in Nat
    OBVIOUS
  <2> QED
    BY <2>1
<1>2. PICK t \in T : \A u \in T : t <= u
  <2> HIDE DEF T
  <2> QED
    BY <1>1, LeastExists
<1>3. PICK x \in S : t = m - x
  OBVIOUS
<1>4. ASSUME NEW y \in S PROVE x >= y
  <2>1. m - x <= m - y
    BY <1>2, <1>3
  <2> QED
    BY <2>1
<1> QED
  BY <1>4 DEF Max

\* The partial results of FlattenSeq, as it defines them.
Flattened(q) == CHOOSE f : f = [i \in 1..Len(q) |-> IF i = 1 THEN q[i] ELSE f[i - 1] \o q[i]]

\* Function g holds the first k partial results; each part adds at most two
\* elements.
FlatTo(S, q, k, g) ==
  /\ g \in [1..k -> Seq(S)]
  /\ \A i \in 1..k : /\ g[i] = IF i = 1 THEN q[i] ELSE g[i - 1] \o q[i]
                     /\ Len(g[i]) <= 2 * i

LEMMA FlatStep ==
  ASSUME NEW S, NEW q \in Seq(Seq(S)), \A i \in 1..Len(q) : Len(q[i]) <= 2,
         NEW k \in 0..(Len(q) - 1), NEW g, FlatTo(S, q, k, g)
  PROVE  \E h : FlatTo(S, q, k + 1, h)
<1> DEFINE new == IF k = 0 THEN q[1] ELSE g[k] \o q[k + 1]
           h == [i \in 1..(k + 1) |-> IF i = k + 1 THEN new ELSE g[i]]
<1>1. k \in Nat /\ Len(q) \in Nat /\ k + 1 \in 1..Len(q)
  OBVIOUS
<1>2. q[k + 1] \in Seq(S) /\ Len(q[k + 1]) <= 2 /\ Len(q[k + 1]) \in Nat
  BY <1>1
<1>3. \A i \in 1..k : /\ g[i] \in Seq(S) /\ Len(g[i]) <= 2 * i
                      /\ g[i] = IF i = 1 THEN q[i] ELSE g[i - 1] \o q[i]
  BY DEF FlatTo
<1>4. new \in Seq(S) /\ Len(new) <= 2 * (k + 1)
  <2>1. CASE k = 0
    BY <1>1, <1>2, <2>1
  <2>2. CASE k # 0
    <3> DEFINE a == g[k]
               b == q[k + 1]
    <3>1. k \in 1..k
      BY <1>1, <2>2
    <3>2. a \in Seq(S) /\ Len(a) <= 2 * k /\ Len(a) \in Nat /\ b \in Seq(S) /\ Len(b) <= 2 /\ Len(b) \in Nat
      BY <1>2, <1>3, <3>1
    <3>3. new = a \o b
      BY <2>2
    <3> HIDE DEF a, b, new
    <3>4. a \o b \in Seq(S) /\ Len(a \o b) = Len(a) + Len(b)
      BY <3>2, ConcatProperties
    <3> QED
      BY <1>1, <3>2, <3>3, <3>4
  <2> QED
    BY <2>1, <2>2
<1>5. new = IF k + 1 = 1 THEN q[k + 1] ELSE g[(k + 1) - 1] \o q[k + 1]
  BY <1>1
<1> HIDE DEF new
<1>6. h \in [1..(k + 1) -> Seq(S)]
  BY <1>1, <1>3, <1>4
<1>7. ASSUME NEW i \in 1..(k + 1)
      PROVE  h[i] = (IF i = 1 THEN q[i] ELSE h[i - 1] \o q[i]) /\ Len(h[i]) <= 2 * i
  <2>1. CASE i = k + 1
    <3>1. h[i] = new
      BY <2>1
    <3>2. i # 1 => h[i - 1] = g[(k + 1) - 1]
      BY <1>1, <2>1
    <3> HIDE DEF h
    <3> QED
      BY <1>4, <1>5, <2>1, <3>1, <3>2
  <2>2. CASE i # k + 1
    <3>1. i \in 1..k
      BY <1>1, <2>2
    <3>2. h[i] = g[i] /\ (i # 1 => h[i - 1] = g[i - 1])
      BY <1>1, <2>2, <3>1
    <3> HIDE DEF h
    <3> QED
      BY <1>3, <3>1, <3>2
  <2> QED
    BY <2>1, <2>2
<1> HIDE DEF h
<1>8. FlatTo(S, q, k + 1, h)
  BY <1>6, <1>7 DEF FlatTo
<1> QED
  BY <1>8

LEMMA FlatAll ==
  ASSUME NEW S, NEW q \in Seq(Seq(S)), \A i \in 1..Len(q) : Len(q[i]) <= 2
  PROVE  \E g : FlatTo(S, q, Len(q), g)
<1> DEFINE n == Len(q)
           G == {k \in Nat : \E g : FlatTo(S, q, k, g)}
<1>1. 0 \in G
  <2> DEFINE e == [i \in 1..0 |-> <<>>]
  <2>1. FlatTo(S, q, 0, e)
    BY DEF FlatTo
  <2> QED
    BY <2>1
<1>2. \A k \in 0..(n - 1) : k \in G => k + 1 \in G
  BY FlatStep
<1>3. n \in Nat /\ n \in 0..n
  OBVIOUS
<1> HIDE DEF n
<1>4. \A k \in 0..n : k \in G
  <2> HIDE DEF G
  <2> QED
    BY <1>1, <1>2, <1>3, UpTo
<1> QED
  BY <1>3, <1>4 DEF n

\* Flattening parts of at most two elements each.
LEMMA FlattenSpec ==
  ASSUME NEW S, NEW q \in Seq(Seq(S)), \A i \in 1..Len(q) : Len(q[i]) <= 2
  PROVE  FlattenSeq(q) \in Seq(S) /\ Len(FlattenSeq(q)) <= 2 * Len(q)
<1> DEFINE n == Len(q)
           f == Flattened(q)
<1>1. n \in Nat
  OBVIOUS
<1>2. CASE n = 0
  <2>1. FlattenSeq(q) = q /\ q = <<>>
    BY <1>2 DEF FlattenSeq
  <2> QED
    BY <2>1
<1>3. CASE n # 0
  <2>1. FlattenSeq(q) = f[n]
    BY <1>3 DEF FlattenSeq, Flattened
  <2>2. PICK g : FlatTo(S, q, n, g)
    BY FlatAll
  <2>3. /\ g \in [1..n -> Seq(S)]
        /\ \A i \in 1..n : g[i] = (IF i = 1 THEN q[i] ELSE g[i - 1] \o q[i]) /\ Len(g[i]) <= 2 * i
    BY <2>2 DEF FlatTo
  <2>4. g = [i \in 1..n |-> IF i = 1 THEN q[i] ELSE g[i - 1] \o q[i]]
    BY <2>3
  <2>5. f = [i \in 1..n |-> IF i = 1 THEN q[i] ELSE f[i - 1] \o q[i]]
    BY <2>4 DEF Flattened
  <2> DEFINE G == {k \in Nat : k = 0 \/ k > n \/ f[k] = g[k]}
  <2>6. ASSUME NEW k \in 0..(n - 1), k \in G PROVE k + 1 \in G
    <3>1. k + 1 \in 1..n /\ k \in Nat
      BY <1>1
    <3>2. f[k + 1] = IF k + 1 = 1 THEN q[k + 1] ELSE f[(k + 1) - 1] \o q[k + 1]
      BY <2>5, <3>1
    <3>3. g[k + 1] = IF k + 1 = 1 THEN q[k + 1] ELSE g[(k + 1) - 1] \o q[k + 1]
      BY <2>3, <3>1
    <3>4. k + 1 # 1 => f[(k + 1) - 1] = g[(k + 1) - 1]
      BY <1>1, <2>6, <3>1
    <3>5. f[k + 1] = g[k + 1]
      BY <3>2, <3>3, <3>4
    <3> QED
      BY <3>1, <3>5
  <2>7. 0 \in G
    OBVIOUS
  <2> HIDE DEF n, f
  <2>8. \A k \in 0..n : k \in G
    <3> HIDE DEF G
    <3> QED
      BY <1>1, <2>6, <2>7, UpTo
  <2>9. f[n] = g[n] /\ n \in 1..n
    BY <1>1, <1>3, <2>8
  <2>10. g[n] \in Seq(S) /\ Len(g[n]) <= 2 * n
    BY <2>3, <2>9
  <2> QED
    BY <2>1, <2>9, <2>10 DEF n
<1> QED
  BY <1>2, <1>3

-----------------------------------------------------------------------------
(* Loops *)

\* f maps a state of a loop to the one it stops in.
Solves(f, S, Stop, next) == \A x \in S : f[x] = IF x \in Stop THEN x ELSE f[next[x]]

Shrinks(S, Stop, next, size) == \A x \in S : x \notin Stop => size[next[x]] < size[x]

Under(S, size, n) == {x \in S : size[x] <= n}

\* Two such functions for the states below a size agree.
LEMMA LoopUnique ==
  ASSUME NEW S, NEW Stop, NEW next \in [S -> S], NEW size \in [S -> Nat],
         Shrinks(S, Stop, next, size),
         NEW n \in Nat, NEW f, NEW g,
         Solves(f, Under(S, size, n), Stop, next),
         Solves(g, Under(S, size, n), Stop, next)
  PROVE  \A x \in S : size[x] <= n => f[x] = g[x]
<1> DEFINE G == {k \in Nat : \A x \in S : size[x] <= k /\ k <= n => f[x] = g[x]}
<1>1. 0 \in G
  <2>1. ASSUME NEW x \in S, size[x] <= 0 PROVE f[x] = g[x]
    <3>1. size[x] \in Nat /\ size[next[x]] \in Nat /\ size[x] <= n
      BY <2>1
    <3>2. x \in Stop
      BY <2>1, <3>1 DEF Shrinks
    <3> QED
      BY <3>1, <3>2 DEF Solves, Under
  <2> QED
    BY <2>1
<1>2. ASSUME NEW k \in 0..(n - 1), k \in G PROVE k + 1 \in G
  <2>1. ASSUME NEW x \in S, size[x] <= k + 1, k + 1 <= n PROVE f[x] = g[x]
    <3>1. size[x] \in Nat /\ size[next[x]] \in Nat /\ next[x] \in S
      OBVIOUS
    <3>2. x \notin Stop => f[next[x]] = g[next[x]]
      BY <1>2, <2>1, <3>1 DEF Shrinks
    <3>3. size[x] <= n
      BY <2>1, <3>1
    <3> QED
      BY <3>2, <3>3 DEF Solves, Under
  <2> QED
    BY <2>1
<1>3. \A k \in 0..n : k \in G
  <2> HIDE DEF G
  <2> QED
    BY <1>1, <1>2, UpTo
<1>4. n \in G
  BY <1>3
<1> QED
  BY <1>4

LEMMA LoopBounded ==
  ASSUME NEW S, NEW Stop, NEW next \in [S -> S], NEW size \in [S -> Nat],
         Shrinks(S, Stop, next, size),
         NEW n \in Nat
  PROVE  \E f : Solves(f, Under(S, size, n), Stop, next)
<1> DEFINE G == {k \in Nat : \E f : Solves(f, Under(S, size, k), Stop, next)}
<1>1. 0 \in G
  <2> DEFINE f == [x \in S |-> x]
  <2>1. ASSUME NEW x \in S, size[x] <= 0 PROVE x \in Stop
    <3>1. size[x] \in Nat /\ size[next[x]] \in Nat
      OBVIOUS
    <3> QED
      BY <2>1, <3>1 DEF Shrinks
  <2>2. Solves(f, Under(S, size, 0), Stop, next)
    BY <2>1 DEF Solves, Under
  <2> QED
    BY <2>2
<1>2. ASSUME NEW k \in 0..(n - 1), k \in G PROVE k + 1 \in G
  <2>1. PICK f : Solves(f, Under(S, size, k), Stop, next)
    BY <1>2
  <2> DEFINE h == [x \in S |-> IF x \in Stop THEN x ELSE f[next[x]]]
  <2>2. ASSUME NEW x \in S, size[x] <= k PROVE h[x] = f[x]
    BY <2>1, <2>2 DEF Solves, Under
  <2>3. ASSUME NEW x \in S, size[x] <= k + 1, x \notin Stop PROVE h[x] = h[next[x]]
    <3>1. size[x] \in Nat /\ size[next[x]] \in Nat /\ next[x] \in S
      OBVIOUS
    <3>2. size[next[x]] <= k
      BY <2>3, <3>1 DEF Shrinks
    <3> QED
      BY <2>2, <2>3, <3>1, <3>2
  <2>4. Solves(h, Under(S, size, k + 1), Stop, next)
    BY <2>3 DEF Solves, Under
  <2> HIDE DEF h
  <2> QED
    BY <2>4
<1>3. \A k \in 0..n : k \in G
  <2> HIDE DEF G
  <2> QED
    BY <1>1, <1>2, UpTo
<1>4. n \in G
  BY <1>3
<1> QED
  BY <1>4

\* A loop whose states grow smaller has a function for all states.
LEMMA LoopExists ==
  ASSUME NEW S, NEW Stop, NEW next \in [S -> S], NEW size \in [S -> Nat],
         Shrinks(S, Stop, next, size)
  PROVE  \E f : DOMAIN f = S /\ f = [x \in S |-> f[x]] /\ Solves(f, S, Stop, next)
<1> DEFINE At(n) == CHOOSE f : Solves(f, Under(S, size, n), Stop, next)
           F == [x \in S |-> At(size[x])[x]]
<1>1. ASSUME NEW n \in Nat PROVE Solves(At(n), Under(S, size, n), Stop, next)
  <2>1. \E f : Solves(f, Under(S, size, n), Stop, next)
    BY LoopBounded
  <2> QED
    BY <2>1
<1> HIDE DEF At
<1>2. ASSUME NEW x \in S PROVE F[x] = IF x \in Stop THEN x ELSE F[next[x]]
  <2> DEFINE n == size[x]   m == size[next[x]]
  <2>1. n \in Nat /\ m \in Nat /\ next[x] \in S
    OBVIOUS
  <2>2. At(n)[x] = IF x \in Stop THEN x ELSE At(n)[next[x]]
    BY <1>1, <2>1 DEF Solves, Under
  <2>3. ASSUME x \notin Stop PROVE At(n)[next[x]] = At(m)[next[x]]
    <3>1. m < n
      BY <2>3 DEF Shrinks
    <3>2. Under(S, size, m) \subseteq Under(S, size, n)
      <4>1. ASSUME NEW y \in S, size[y] <= m PROVE size[y] <= n
        <5>1. size[y] \in Nat
          OBVIOUS
        <5> HIDE DEF n, m
        <5> QED
          BY <2>1, <3>1, <4>1, <5>1
      <4> QED
        BY <4>1 DEF Under
    <3>3. Solves(At(n), Under(S, size, m), Stop, next) /\ Solves(At(m), Under(S, size, m), Stop, next)
      BY <1>1, <2>1, <3>2 DEF Solves, Under
    <3>4. \A y \in S : size[y] <= m => At(n)[y] = At(m)[y]
      <4> HIDE DEF m, n
      <4> QED
        BY <2>1, <3>3, LoopUnique
    <3> QED
      BY <2>1, <3>4
  <2> QED
    BY <2>1, <2>2, <2>3
<1>3. Solves(F, S, Stop, next)
  <2> HIDE DEF F
  <2> QED
    BY <1>2 DEF Solves, Under
<1>4. DOMAIN F = S /\ F = [x \in S |-> F[x]]
  OBVIOUS
<1> QED
  BY <1>3, <1>4

\* Such a loop stops.
LEMMA LoopStops ==
  ASSUME NEW S, NEW Stop, NEW next \in [S -> S], NEW size \in [S -> Nat],
         Shrinks(S, Stop, next, size),
         NEW f, Solves(f, S, Stop, next), NEW z \in S
  PROVE  f[z] \in S /\ f[z] \in Stop
<1> DEFINE G == {k \in Nat : \A x \in S : size[x] <= k => f[x] \in S /\ f[x] \in Stop}
           n == size[z]
<1>1. n \in Nat
  OBVIOUS
<1>2. 0 \in G
  <2>1. ASSUME NEW x \in S, size[x] <= 0 PROVE x \in Stop
    <3>1. size[x] \in Nat /\ size[next[x]] \in Nat
      OBVIOUS
    <3> QED
      BY <2>1, <3>1 DEF Shrinks
  <2> QED
    BY <2>1 DEF Solves, Under
<1>3. ASSUME NEW k \in 0..(n - 1), k \in G PROVE k + 1 \in G
  <2>1. ASSUME NEW x \in S, size[x] <= k + 1 PROVE f[x] \in S /\ f[x] \in Stop
    <3>1. size[x] \in Nat /\ size[next[x]] \in Nat /\ next[x] \in S
      OBVIOUS
    <3>2. x \notin Stop => f[next[x]] \in S /\ f[next[x]] \in Stop
      BY <1>3, <2>1, <3>1 DEF Shrinks
    <3> QED
      BY <3>2 DEF Solves, Under
  <2> QED
    BY <2>1
<1>4. \A k \in 0..n : k \in G
  <2> HIDE DEF G, n
  <2> QED
    BY <1>1, <1>2, <1>3, UpTo
<1>5. n \in G
  BY <1>1, <1>4
<1> QED
  BY <1>5

-----------------------------------------------------------------------------
(* Recursion over 0..n *)

\* f is defined by its value at 0 and by a step.
Recursive(f, n, a, step) == /\ DOMAIN f = 0..n /\ f = [i \in 0..n |-> f[i]]
                            /\ f[0] = a /\ \A i \in 1..n : f[i] = step[<<i, f[i - 1]>>]

LEMMA RecursionTyped ==
  ASSUME NEW n \in Nat, NEW S, NEW a \in S, NEW step,
         \A i \in 1..n, s \in S : step[<<i, s>>] \in S,
         NEW f, Recursive(f, n, a, step)
  PROVE  \A i \in 0..n : f[i] \in S
<1> DEFINE G == {i \in Nat : f[i] \in S}
<1>1. 0 \in G
  BY DEF Recursive
<1>2. ASSUME NEW k \in 0..(n - 1), k \in G PROVE k + 1 \in G
  <2>1. k + 1 \in 1..n /\ (k + 1) - 1 = k /\ k + 1 \in Nat
    OBVIOUS
  <2>2. f[k + 1] = step[<<k + 1, f[k]>>]
    BY <2>1 DEF Recursive
  <2> QED
    BY <1>2, <2>1, <2>2
<1>3. \A i \in 0..n : i \in G
  <2> HIDE DEF G
  <2> QED
    BY <1>1, <1>2, UpTo
<1> QED
  BY <1>3

LEMMA RecursionExists ==
  ASSUME NEW n \in Nat, NEW a, NEW step
  PROVE  \E f : Recursive(f, n, a, step)
<1> DEFINE G == {k \in Nat : \E f : Recursive(f, k, a, step)}
<1>1. 0 \in G
  <2> DEFINE f == [i \in 0..0 |-> a]
  <2>1. Recursive(f, 0, a, step)
    BY DEF Recursive
  <2> HIDE DEF f
  <2> QED
    BY <2>1
<1>2. ASSUME NEW k \in 0..(n - 1), k \in G PROVE k + 1 \in G
  <2>1. PICK f : Recursive(f, k, a, step)
    BY <1>2
  <2> DEFINE h == [i \in 0..(k + 1) |-> IF i = k + 1 THEN step[<<i, f[k]>>] ELSE f[i]]
  <2>2. DOMAIN h = 0..(k + 1) /\ h = [i \in 0..(k + 1) |-> h[i]]
    OBVIOUS
  <2>3. \A i \in 0..k : h[i] = f[i]
    OBVIOUS
  <2>4. h[0] = a /\ h[k + 1] = step[<<k + 1, f[k]>>]
    BY <2>1 DEF Recursive
  <2> HIDE DEF h
  <2>5. ASSUME NEW i \in 1..(k + 1) PROVE h[i] = step[<<i, h[i - 1]>>]
    <3>1. CASE i = k + 1
      <4>1. i - 1 = k /\ k \in 0..k
        BY <3>1
      <4> QED
        BY <2>3, <2>4, <3>1, <4>1
    <3>2. CASE i \in 1..k
      <4>1. i - 1 \in 0..k /\ i \in 0..k
        BY <3>2
      <4>2. f[i] = step[<<i, f[i - 1]>>]
        BY <2>1, <3>2 DEF Recursive
      <4> QED
        BY <2>3, <4>1, <4>2
    <3> QED
      BY <3>1, <3>2
  <2>6. Recursive(h, k + 1, a, step)
    BY <2>2, <2>4, <2>5 DEF Recursive
  <2> QED
    BY <2>6
<1>3. \A k \in 0..n : k \in G
  <2> HIDE DEF G
  <2> QED
    BY <1>1, <1>2, UpTo
<1>4. n \in G
  BY <1>3
<1> QED
  BY <1>4
=============================================================================
