----------------------------- MODULE HeapProofs -----------------------------
(***************************************************************************)
(* Proofs about the kernel heap, for any size of frames, headers, pool and *)
(* requests.                                                               *)
(***************************************************************************)
EXTENDS Heap, Lemmas

-----------------------------------------------------------------------------
(* Arithmetic *)

LEMMA DivBounds ==
  \A a \in Nat, n \in Nat \ {0} :
    a \div n \in Nat /\ (a \div n) * n <= a /\ a < (a \div n) * n + n
OBVIOUS

LEMMA Times ==
  \A a, b, c \in Nat : /\ a * c \in Nat /\ (a + b) * c = a * c + b * c
                       /\ a <= b => a * c <= b * c
                       /\ a * c < b * c => a < b
OBVIOUS

LEMMA Times16 ==
  ASSUME NEW a \in Nat, NEW b \in Nat, b % 16 = 0
  PROVE  (a * b) % 16 = 0
<1>1. PICK q \in Nat : b = 16 * q
  OBVIOUS
<1> DEFINE z == a * q
<1>2. a * b = 16 * z /\ z \in Nat
  BY <1>1
<1> HIDE DEF z
<1>3. (16 * z) % 16 = 0
  BY <1>2
<1> QED
  BY <1>2, <1>3

LEMMA Minus16 ==
  ASSUME NEW a \in Nat, NEW b \in Nat, NEW c \in Nat, a % 16 = 0, b % 16 = 0, c % 16 = 0,
         a - b >= c + 16
  PROVE  (a - b - c) % 16 = 0 /\ a - b - c >= 16
OBVIOUS

\* kmalloc rounds a request up to a multiple of 16, and never to nothing.
LEMMA PayloadSpec ==
  ASSUME NEW n \in Nat
  PROVE  Payload(n) \in Nat /\ Payload(n) >= n /\ Payload(n) >= Grain /\ Payload(n) % Grain = 0
<1>1. \A k \in Nat \ {0} : align16(k) \in Nat /\ align16(k) >= k /\ align16(k) >= 16 /\ align16(k) % 16 = 0
  BY DEF align16, Grain
<1> QED
  BY <1>1 DEF Payload, Grain

-----------------------------------------------------------------------------
(* Sums *)

Sums(s, g) ==
  g \in [0..Len(s) -> Nat] /\ g[0] = 0 /\ \A i \in 1..Len(s) : g[i] = g[i - 1] + s[i]

\* Partial sums exist, by induction on the length of the prefix.
LEMMA SumsExist ==
  ASSUME NEW s \in Seq(Nat)
  PROVE  \E g : Sums(s, g)
<1> DEFINE P(n, g) == g \in [0..n -> Nat] /\ g[0] = 0 /\ \A i \in 1..n : g[i] = g[i - 1] + s[i]
           G == {n \in 0..Len(s) : \E g : P(n, g)}
<1>1. Len(s) \in Nat /\ \A i \in 1..Len(s) : s[i] \in Nat
  OBVIOUS
<1>2. 0 \in G
  <2>1. P(0, [i \in 0..0 |-> 0])
    OBVIOUS
  <2>2. 0 \in 0..Len(s)
    BY <1>1
  <2> HIDE DEF P
  <2> QED
    BY <2>1, <2>2
<1>3. ASSUME NEW n \in 0..(Len(s) - 1), n \in G
      PROVE  n + 1 \in G
  <2>1. PICK g : P(n, g)
    BY <1>3
  <2>2. n \in Nat /\ n + 1 \in 1..Len(s) /\ n + 1 \in 0..Len(s) /\ s[n + 1] \in Nat
    BY <1>1
  <2> DEFINE h == [i \in 0..(n + 1) |-> IF i = n + 1 THEN g[n] + s[n + 1] ELSE g[i]]
  <2>3. h \in [0..(n + 1) -> Nat] /\ h[0] = 0
    BY <2>1, <2>2
  <2>4. \A i \in 1..(n + 1) : h[i] = h[i - 1] + s[i]
    BY <2>1, <2>2
  <2>5. P(n + 1, h)
    BY <2>3, <2>4
  <2> QED
    BY <2>2, <2>5
<1> DEFINE N == Len(s)
<1> HIDE DEF G
<1>4. N \in G
  <2>1. N \in Nat /\ N \in 0..N /\ \A n \in 0..(N - 1) : n \in G => n + 1 \in G
    BY <1>1, <1>3
  <2> HIDE DEF N
  <2> QED
    BY <1>2, <2>1, UpTo
<1> QED
  BY <1>4 DEF G, Sums

LEMMA TotalSums ==
  ASSUME NEW s \in Seq(Nat)
  PROVE  \E g : Sums(s, g) /\ Total(s) = g[Len(s)]
<1> DEFINE step(f) == [i \in 0..Len(s) |-> IF i = 0 THEN 0 ELSE f[i - 1] + s[i]]
           g == CHOOSE f : f = step(f)
<1>1. Len(s) \in Nat /\ \A i \in 1..Len(s) : s[i] \in Nat
  OBVIOUS
<1>2. PICK f : Sums(s, f)
  BY SumsExist
<1>3. f = step(f)
  <2>1. f = [i \in 0..Len(s) |-> f[i]]
    BY <1>2 DEF Sums
  <2>2. \A i \in 0..Len(s) : f[i] = IF i = 0 THEN 0 ELSE f[i - 1] + s[i]
    BY <1>1, <1>2 DEF Sums
  <2> QED
    BY <2>1, <2>2
<1>4. g = step(g)
  <2> HIDE DEF step
  <2> QED
    BY <1>3
<1>5. Total(s) = g[Len(s)]
  BY DEF Total
<1> HIDE DEF g
<1>6. DOMAIN g = 0..Len(s) /\ \A i \in 0..Len(s) : g[i] = IF i = 0 THEN 0 ELSE g[i - 1] + s[i]
  BY <1>4
<1>7. \A i \in 0..Len(s) : g[i] = f[i]
  <2> DEFINE G == {i \in 0..Len(s) : g[i] = f[i]}
  <2>1. 0 \in G
    BY <1>1, <1>2, <1>6 DEF Sums
  <2>2. ASSUME NEW k \in 0..(Len(s) - 1), k \in G PROVE k + 1 \in G
    <3>1. k + 1 \in 1..Len(s) /\ k + 1 \in 0..Len(s) /\ (k + 1) - 1 = k /\ k + 1 # 0
      BY <1>1
    <3> QED
      BY <1>2, <1>6, <2>2, <3>1 DEF Sums
  <2>3. \A i \in 0..Len(s) : i \in G
    <3> HIDE DEF G
    <3> QED
      BY <1>1, <2>1, <2>2, UpTo
  <2> QED
    BY <2>3
<1>8. f[Len(s)] = Total(s)
  BY <1>1, <1>5, <1>7
<1> QED
  BY <1>2, <1>8

LEMMA TotalNat ==
  ASSUME NEW s \in Seq(Nat)
  PROVE  Total(s) \in Nat
BY TotalSums DEF Sums

LEMMA SumsStep ==
  ASSUME NEW s \in Seq(Nat), NEW g, Sums(s, g)
  PROVE  /\ Len(s) \in Nat /\ g[0] = 0
         /\ \A j \in 0..Len(s) : g[j] \in Nat
         /\ \A j \in 0..(Len(s) - 1) : s[j + 1] \in Nat /\ g[j + 1] = g[j] + s[j + 1]
<1>1. Len(s) \in Nat
  OBVIOUS
<1>2. ASSUME NEW j \in 0..(Len(s) - 1)
      PROVE  s[j + 1] \in Nat /\ g[j + 1] = g[j] + s[j + 1]
  <2>1. j + 1 \in 1..Len(s) /\ (j + 1) - 1 = j
    BY <1>1
  <2> QED
    BY <2>1 DEF Sums
<1> QED
  BY <1>1, <1>2 DEF Sums

\* What does not change from one place to the next does not change at all.
LEMMA Steady ==
  ASSUME NEW n \in Nat, NEW i \in 0..n, NEW d, \A j \in i..(n - 1) : d[j + 1] = d[j]
  PROVE  d[n] = d[i]
<1> DEFINE G == {k \in Nat : d[i + k] = d[i]}
           m == n - i
<1>1. 0 \in G
  <2>1. i + 0 = i
    OBVIOUS
  <2> QED
    BY <2>1
<1>2. ASSUME NEW k \in 0..(m - 1), k \in G
      PROVE  k + 1 \in G
  <2>1. i + k \in i..(n - 1) /\ i + (k + 1) = (i + k) + 1 /\ k + 1 \in Nat
    OBVIOUS
  <2>2. d[(i + k) + 1] = d[i + k]
    BY <2>1
  <2> QED
    BY <1>2, <2>1, <2>2
<1>3. m \in Nat /\ m \in 0..m /\ i + m = n
  OBVIOUS
<1>4. m \in G
  <2> HIDE DEF m, G
  <2> QED
    BY <1>1, <1>2, <1>3, UpTo
<1> QED
  BY <1>3, <1>4

\* Two runs of sums over the same numbers from place i on, the second e
\* places ahead, keep their distance.
Abreast(n, i, e, g, h) ==
  /\ \A j \in i..n : g[j] \in Nat /\ h[j + e] \in Nat
  /\ \A j \in i..(n - 1) : h[j + 1 + e] + g[j] = h[j + e] + g[j + 1]

LEMMA SumsAbreast ==
  ASSUME NEW n \in Nat, NEW i \in 0..n, NEW e \in Nat, NEW g, NEW h, Abreast(n, i, e, g, h)
  PROVE  h[n + e] + g[i] = h[i + e] + g[n]
<1> DEFINE d == [j \in 0..n |-> h[j + e] - g[j]]
<1>0. n \in Nat /\ i \in 0..n
  OBVIOUS
<1>1. ASSUME NEW j \in i..(n - 1)
      PROVE  d[j + 1] = d[j]
  <2>1. j \in i..n /\ j + 1 \in i..n /\ j \in 0..n /\ j + 1 \in 0..n
    BY <1>0
  <2>2. /\ g[j] \in Nat /\ h[j + e] \in Nat /\ g[j + 1] \in Nat /\ h[j + 1 + e] \in Nat
        /\ h[j + 1 + e] + g[j] = h[j + e] + g[j + 1]
    BY <2>1 DEF Abreast
  <2>3. d[j + 1] = h[j + 1 + e] - g[j + 1] /\ d[j] = h[j + e] - g[j]
    BY <2>1
  <2> HIDE DEF d
  <2> QED
    BY <2>2, <2>3
<1>2. n \in 0..n
  BY <1>0
<1>3. d[n] = h[n + e] - g[n] /\ d[i] = h[i + e] - g[i]
  BY <1>0, <1>2
<1> HIDE DEF d
<1>4. d[n] = d[i]
  BY <1>0, <1>1, Steady
<1>5. g[i] \in Nat /\ h[i + e] \in Nat /\ g[n] \in Nat /\ h[n + e] \in Nat
  <2>1. n \in i..n /\ i \in i..n
    BY <1>0
  <2> QED
    BY <2>1 DEF Abreast
<1> QED
  BY <1>3, <1>4, <1>5

\* Two sequences with the same numbers up to a place have the same sums there.
LEMMA SumsAgree ==
  ASSUME NEW s \in Seq(Nat), NEW u \in Seq(Nat), NEW g, NEW h, Sums(s, g), Sums(u, h),
         NEW n \in Nat, n <= Len(s), n <= Len(u), \A i \in 1..n : s[i] = u[i]
  PROVE  g[n] = h[n]
<1>1. /\ Len(s) \in Nat /\ Len(u) \in Nat /\ g[0] = 0 /\ h[0] = 0
      /\ \A j \in 0..Len(s) : g[j] \in Nat
      /\ \A j \in 0..Len(u) : h[j] \in Nat
      /\ \A j \in 0..(Len(s) - 1) : s[j + 1] \in Nat /\ g[j + 1] = g[j] + s[j + 1]
      /\ \A j \in 0..(Len(u) - 1) : h[j + 1] = h[j] + u[j + 1]
  BY SumsStep
<1> DEFINE G == {j \in 0..n : g[j] = h[j]}
<1>2. 0 \in G
  BY <1>1
<1>3. ASSUME NEW j \in 0..(n - 1), j \in G
      PROVE  j + 1 \in G
  <2>1. j + 1 \in 1..n /\ j + 1 \in 0..n /\ j \in 0..(Len(s) - 1) /\ j \in 0..(Len(u) - 1)
    BY <1>1
  <2>2. s[j + 1] = u[j + 1]
    BY <2>1
  <2>3. g[j + 1] = g[j] + s[j + 1] /\ h[j + 1] = h[j] + s[j + 1]
    BY <1>1, <2>1, <2>2
  <2> QED
    BY <1>3, <2>1, <2>3
<1>4. n \in G
  <2>1. n \in 0..n
    OBVIOUS
  <2> HIDE DEF G
  <2> QED
    BY <1>2, <1>3, <2>1, UpTo
<1> QED
  BY <1>4

LEMMA TotalAppend ==
  ASSUME NEW s \in Seq(Nat), NEW x \in Nat
  PROVE  Total(Append(s, x)) = Total(s) + x
<1> DEFINE u == Append(s, x)
           n == Len(s)
<1>1. u \in Seq(Nat) /\ n \in Nat /\ Len(u) = n + 1 /\ u[n + 1] = x /\ \A i \in 1..n : s[i] = u[i]
  OBVIOUS
<1> HIDE DEF u
<1>2. PICK g : Sums(s, g) /\ Total(s) = g[n]
  BY TotalSums
<1>3. PICK h : Sums(u, h) /\ Total(u) = h[n + 1]
  BY <1>1, TotalSums
<1>4. g[n] = h[n]
  <2>1. n <= Len(s) /\ n <= Len(u)
    BY <1>1
  <2> HIDE DEF n
  <2> QED
    BY <1>1, <1>2, <1>3, <2>1, SumsAgree
<1>5. n + 1 \in 1..Len(u) /\ (n + 1) - 1 = n
  BY <1>1
<1>6. h[n + 1] = h[n] + u[n + 1]
  BY <1>3, <1>5 DEF Sums
<1> QED
  BY <1>1, <1>2, <1>3, <1>4, <1>6 DEF u


\* Two sequences that differ only at place i, where the second has e numbers
\* more: the difference of their sums is made there.
Differ(s, u, i, e) ==
  /\ Len(u) = Len(s) + e
  /\ \A j \in 1..(i - 1) : u[j] = s[j]
  /\ \A j \in (i + 1)..Len(s) : u[j + e] = s[j]

LEMMA SumsDiffer ==
  ASSUME NEW s \in Seq(Nat), NEW u \in Seq(Nat), NEW g, NEW h, Sums(s, g), Sums(u, h),
         NEW i \in 1..Len(s), NEW e \in Nat, Differ(s, u, i, e)
  PROVE  /\ Len(s) \in Nat
         /\ h[Len(s) + e] + g[i] = h[i + e] + g[Len(s)]
         /\ h[i - 1] = g[i - 1]
         /\ g[i] = g[i - 1] + s[i] /\ g[i - 1] \in Nat /\ s[i] \in Nat /\ g[Len(s)] \in Nat
         /\ h[i] = h[i - 1] + u[i] /\ u[i] \in Nat /\ h[Len(s) + e] \in Nat
         /\ e = 1 => h[i + 1] = h[i] + u[i + 1] /\ u[i + 1] \in Nat
<1> DEFINE n == Len(s)
           m == i - 1
<1>1. n \in Nat /\ i \in 1..n /\ e \in Nat /\ Len(u) = n + e
  BY DEF Differ
<1>2. /\ \A j \in 0..n : g[j] \in Nat
      /\ \A j \in 0..(n - 1) : s[j + 1] \in Nat /\ g[j + 1] = g[j] + s[j + 1]
  BY SumsStep
<1>3. /\ \A j \in 0..(n + e) : h[j] \in Nat
      /\ \A j \in 0..(n + e - 1) : u[j + 1] \in Nat /\ h[j + 1] = h[j] + u[j + 1]
  <2>1. /\ \A j \in 0..Len(u) : h[j] \in Nat
        /\ \A j \in 0..(Len(u) - 1) : u[j + 1] \in Nat /\ h[j + 1] = h[j] + u[j + 1]
    BY SumsStep
  <2> HIDE DEF n
  <2> QED
    BY <1>1, <2>1
<1>4. h[m] = g[m]
  <2>1. m \in Nat /\ m <= Len(s) /\ m <= Len(u)
    BY <1>1
  <2>2. \A k \in 1..m : s[k] = u[k]
    BY DEF Differ
  <2> HIDE DEF m, n
  <2> QED
    BY <2>1, <2>2, SumsAgree
<1>5. \A j \in (i + 1)..n : u[j + e] = s[j]
  BY DEF Differ
<1>6. m \in 0..(n - 1) /\ m \in 0..n /\ m \in 0..(n + e - 1) /\ m + 1 = i /\ n \in 0..n /\ n + e \in 0..(n + e)
  BY <1>1
<1> HIDE DEF n, m
<1>7. \A j \in i..n : g[j] \in Nat /\ h[j + e] \in Nat
  <2> TAKE j \in i..n
  <2>1. j \in 0..n /\ j + e \in 0..(n + e)
    BY <1>1
  <2> QED
    BY <1>2, <1>3, <2>1
<1>8. \A j \in i..(n - 1) : h[j + 1 + e] + g[j] = h[j + e] + g[j + 1]
  <2> TAKE j \in i..(n - 1)
  <2>1. /\ j \in i..n /\ j \in 0..(n - 1) /\ j + e \in 0..(n + e - 1) /\ j + 1 \in (i + 1)..n
        /\ (j + e) + 1 = j + 1 + e
    BY <1>1
  <2>2. u[j + 1 + e] = s[j + 1]
    BY <1>5, <2>1
  <2>3. g[j + 1] = g[j] + s[j + 1] /\ s[j + 1] \in Nat /\ g[j] \in Nat /\ h[j + e] \in Nat
    BY <1>2, <1>7, <2>1
  <2>4. h[j + 1 + e] = h[j + e] + u[j + 1 + e]
    <3>1. h[(j + e) + 1] = h[j + e] + u[(j + e) + 1]
      BY <1>3, <2>1
    <3> QED
      BY <2>1, <3>1
  <2> QED
    BY <2>2, <2>3, <2>4
<1>9. i \in 0..n /\ Abreast(n, i, e, g, h)
  BY <1>1, <1>7, <1>8 DEF Abreast
<1>10. h[n + e] + g[i] = h[i + e] + g[n]
  BY <1>1, <1>9, SumsAbreast
<1>11. g[i] = g[m] + s[i] /\ g[m] \in Nat /\ s[i] \in Nat /\ g[n] \in Nat
  BY <1>2, <1>6
<1>12. h[i] = h[m] + u[i] /\ u[i] \in Nat /\ h[n + e] \in Nat
  BY <1>3, <1>6
<1>13. e = 1 => h[i + 1] = h[i] + u[i + 1] /\ u[i + 1] \in Nat
  <2>1. e = 1 => i \in 0..(n + e - 1)
    BY <1>1
  <2> QED
    BY <1>3, <2>1
<1> QED
  BY <1>1, <1>4, <1>10, <1>11, <1>12, <1>13 DEF n, m

\* One number is replaced by two.
LEMMA TotalSplit ==
  ASSUME NEW s \in Seq(Nat), NEW u \in Seq(Nat), NEW i \in 1..Len(s), Differ(s, u, i, 1)
  PROVE  /\ Total(u) + s[i] = Total(s) + (u[i] + u[i + 1])
         /\ s[i] \in Nat /\ u[i] \in Nat /\ u[i + 1] \in Nat
<1>1. PICK g : Sums(s, g) /\ Total(s) = g[Len(s)]
  BY TotalSums
<1>2. PICK h : Sums(u, h) /\ Total(u) = h[Len(u)]
  BY TotalSums
<1>3. Len(u) = Len(s) + 1
  BY DEF Differ
<1>4. /\ h[Len(s) + 1] + g[i] = h[i + 1] + g[Len(s)]
      /\ h[i - 1] = g[i - 1]
      /\ g[i] = g[i - 1] + s[i] /\ g[i - 1] \in Nat /\ s[i] \in Nat /\ g[Len(s)] \in Nat
      /\ h[i] = h[i - 1] + u[i] /\ u[i] \in Nat /\ h[Len(s) + 1] \in Nat
      /\ h[i + 1] = h[i] + u[i + 1] /\ u[i + 1] \in Nat
  BY <1>1, <1>2, SumsDiffer
<1>5. h[Len(s) + 1] + (g[i - 1] + s[i]) = ((g[i - 1] + u[i]) + u[i + 1]) + g[Len(s)]
  BY <1>4
<1>6. h[Len(s) + 1] + s[i] = g[Len(s)] + (u[i] + u[i + 1])
  <2> DEFINE a == g[i - 1]
             x == g[Len(s)]
             y == h[Len(s) + 1]
             p == u[i]
             q == u[i + 1]
             r == s[i]
  <2>1. a \in Nat /\ x \in Nat /\ y \in Nat /\ p \in Nat /\ q \in Nat /\ r \in Nat
    BY <1>4
  <2>2. y + (a + r) = ((a + p) + q) + x
    BY <1>5
  <2> HIDE DEF a, x, y, p, q, r
  <2>3. y + r = x + (p + q)
    BY <2>1, <2>2
  <2> QED
    BY <2>3 DEF p, q, r, x, y
<1> QED
  BY <1>1, <1>2, <1>3, <1>4, <1>6

\* One number is replaced by another.
LEMMA TotalReplace ==
  ASSUME NEW s \in Seq(Nat), NEW u \in Seq(Nat), NEW i \in 1..Len(s), Differ(s, u, i, 0)
  PROVE  Total(u) + s[i] = Total(s) + u[i] /\ s[i] \in Nat /\ u[i] \in Nat
<1>1. PICK g : Sums(s, g) /\ Total(s) = g[Len(s)]
  BY TotalSums
<1>2. PICK h : Sums(u, h) /\ Total(u) = h[Len(u)]
  BY TotalSums
<1> DEFINE z == 0
<1> HIDE DEF z
<1>3. /\ Len(s) \in Nat
      /\ h[Len(s) + z] + g[i] = h[i + z] + g[Len(s)]
      /\ h[i - 1] = g[i - 1]
      /\ g[i] = g[i - 1] + s[i] /\ g[i - 1] \in Nat /\ s[i] \in Nat /\ g[Len(s)] \in Nat
      /\ h[i] = h[i - 1] + u[i] /\ u[i] \in Nat /\ h[Len(s) + z] \in Nat
  <2>1. z \in Nat /\ Differ(s, u, i, z)
    BY DEF z
  <2> QED
    BY <1>1, <1>2, <2>1, SumsDiffer
<1>4. Len(u) = Len(s) + 0 /\ Len(s) + 0 = Len(s)
  BY <1>3 DEF Differ
<1>5. i + 0 = i
  BY <1>3
<1>6. h[Len(s)] + g[i] = h[i] + g[Len(s)] /\ h[Len(s)] \in Nat
  BY <1>3, <1>4, <1>5 DEF z
<1>7. Total(s) = g[Len(s)] /\ Total(u) = h[Len(s)]
  BY <1>1, <1>2, <1>4
<1>8. h[Len(s)] + (g[i - 1] + s[i]) = (g[i - 1] + u[i]) + g[Len(s)]
  BY <1>3, <1>6
<1>9. h[Len(s)] + s[i] = g[Len(s)] + u[i]
  <2> DEFINE a == g[i - 1]
             x == g[Len(s)]
             y == h[Len(s)]
             p == s[i]
             q == u[i]
  <2>1. a \in Nat /\ x \in Nat /\ y \in Nat /\ p \in Nat /\ q \in Nat
    BY <1>3, <1>6
  <2>2. y + (a + p) = (a + q) + x
    BY <1>8
  <2> HIDE DEF a, x, y, p, q
  <2>3. y + p = x + q
    BY <2>1, <2>2
  <2> QED
    BY <2>3 DEF p, q, x, y
<1> QED
  BY <1>3, <1>7, <1>9

-----------------------------------------------------------------------------
(* Lists of blocks *)

Charge(b) == IF b.free THEN 0 ELSE b.size

LEMMA BlockNum ==
  ASSUME NEW b \in Block
  PROVE  b.at \in Nat /\ b.size \in Nat /\ b.free \in BOOLEAN /\ Span(b) \in Nat /\ Charge(b) \in Nat
         /\ HDR \in Nat /\ Span(b) = HDR + b.size
BY HeapConstants DEF Block, Span, Charge

LEMMA SpansSeq ==
  ASSUME NEW l \in Seq(Block)
  PROVE  /\ Spans(l) \in Seq(Nat) /\ Len(Spans(l)) = Len(l) /\ Len(l) \in Nat
         /\ \A i \in 1..Len(l) : Spans(l)[i] = Span(l[i]) /\ l[i] \in Block
<1>1. Len(l) \in Nat /\ DOMAIN l = 1..Len(l) /\ \A i \in 1..Len(l) : l[i] \in Block
  OBVIOUS
<1>2. \A i \in 1..Len(l) : Span(l[i]) \in Nat
  BY <1>1, BlockNum
<1>3. Spans(l) \in [1..Len(l) -> Nat] /\ \A i \in 1..Len(l) : Spans(l)[i] = Span(l[i])
  BY <1>1, <1>2 DEF Spans
<1> QED
  BY <1>1, <1>3

LEMMA ChargesSeq ==
  ASSUME NEW l \in Seq(Block)
  PROVE  /\ Charges(l) \in Seq(Nat) /\ Len(Charges(l)) = Len(l) /\ Len(l) \in Nat
         /\ \A i \in 1..Len(l) : Charges(l)[i] = Charge(l[i]) /\ l[i] \in Block
<1>1. Len(l) \in Nat /\ DOMAIN l = 1..Len(l) /\ \A i \in 1..Len(l) : l[i] \in Block
  OBVIOUS
<1>2. \A i \in 1..Len(l) : Charge(l[i]) \in Nat
  BY <1>1, BlockNum
<1>3. Charges(l) \in [1..Len(l) -> Nat] /\ \A i \in 1..Len(l) : Charges(l)[i] = Charge(l[i])
  BY <1>1, <1>2 DEF Charges, Charge
<1> QED
  BY <1>1, <1>3

\* The totals of a list in which one block is replaced by e + 1 blocks.
LEMMA ListSplit ==
  ASSUME NEW l \in Seq(Block), NEW m \in Seq(Block), NEW i \in 1..Len(l), Differ(l, m, i, 1)
  PROVE  /\ Total(Spans(m)) + Span(l[i]) = Total(Spans(l)) + (Span(m[i]) + Span(m[i + 1]))
         /\ Total(Charges(m)) + Charge(l[i]) = Total(Charges(l)) + (Charge(m[i]) + Charge(m[i + 1]))
<1>1. Len(l) \in Nat /\ Len(m) = Len(l) + 1
  BY DEF Differ
<1>2. \A j \in 1..(i - 1) : j \in 1..Len(l) /\ j \in 1..Len(m) /\ m[j] = l[j]
  BY <1>1 DEF Differ
<1>3. \A j \in (i + 1)..Len(l) : j \in 1..Len(l) /\ j + 1 \in 1..Len(m) /\ m[j + 1] = l[j]
  BY <1>1 DEF Differ
<1>4. i \in 1..Len(m) /\ i + 1 \in 1..Len(m)
  BY <1>1
<1>5. Differ(Spans(l), Spans(m), i, 1)
  <2>1. Len(Spans(m)) = Len(Spans(l)) + 1 /\ Len(Spans(l)) = Len(l)
    BY <1>1, SpansSeq
  <2>2. \A j \in 1..(i - 1) : Spans(m)[j] = Spans(l)[j]
    BY <1>2, SpansSeq
  <2>3. \A j \in (i + 1)..Len(l) : Spans(m)[j + 1] = Spans(l)[j]
    BY <1>3, SpansSeq
  <2> QED
    BY <2>1, <2>2, <2>3 DEF Differ
<1>6. Differ(Charges(l), Charges(m), i, 1)
  <2>1. Len(Charges(m)) = Len(Charges(l)) + 1 /\ Len(Charges(l)) = Len(l)
    BY <1>1, ChargesSeq
  <2>2. \A j \in 1..(i - 1) : Charges(m)[j] = Charges(l)[j]
    BY <1>2, ChargesSeq
  <2>3. \A j \in (i + 1)..Len(l) : Charges(m)[j + 1] = Charges(l)[j]
    BY <1>3, ChargesSeq
  <2> QED
    BY <2>1, <2>2, <2>3 DEF Differ
<1>7. /\ Spans(l)[i] = Span(l[i]) /\ Spans(m)[i] = Span(m[i]) /\ Spans(m)[i + 1] = Span(m[i + 1])
      /\ Charges(l)[i] = Charge(l[i]) /\ Charges(m)[i] = Charge(m[i])
      /\ Charges(m)[i + 1] = Charge(m[i + 1])
      /\ i \in 1..Len(Spans(l)) /\ i \in 1..Len(Charges(l))
      /\ Spans(l) \in Seq(Nat) /\ Spans(m) \in Seq(Nat)
      /\ Charges(l) \in Seq(Nat) /\ Charges(m) \in Seq(Nat)
  BY <1>4, SpansSeq, ChargesSeq
<1>8. Total(Spans(m)) + Spans(l)[i] = Total(Spans(l)) + (Spans(m)[i] + Spans(m)[i + 1])
  BY <1>5, <1>7, TotalSplit
<1>9. Total(Charges(m)) + Charges(l)[i] = Total(Charges(l)) + (Charges(m)[i] + Charges(m)[i + 1])
  BY <1>6, <1>7, TotalSplit
<1> QED
  BY <1>7, <1>8, <1>9

LEMMA ListReplace ==
  ASSUME NEW l \in Seq(Block), NEW m \in Seq(Block), NEW i \in 1..Len(l), Differ(l, m, i, 0)
  PROVE  /\ Total(Spans(m)) + Span(l[i]) = Total(Spans(l)) + Span(m[i])
         /\ Total(Charges(m)) + Charge(l[i]) = Total(Charges(l)) + Charge(m[i])
<1>1. Len(l) \in Nat /\ Len(m) = Len(l)
  BY DEF Differ
<1>2. \A j \in 1..(i - 1) : j \in 1..Len(l) /\ j \in 1..Len(m) /\ m[j] = l[j]
  BY <1>1 DEF Differ
<1>3. \A j \in (i + 1)..Len(l) : j \in 1..Len(l) /\ j \in 1..Len(m) /\ j + 0 = j /\ m[j] = l[j]
  BY <1>1 DEF Differ
<1>5. Differ(Spans(l), Spans(m), i, 0)
  <2>1. Len(Spans(m)) = Len(Spans(l)) + 0 /\ Len(Spans(l)) = Len(l)
    BY <1>1, SpansSeq
  <2>2. \A j \in 1..(i - 1) : Spans(m)[j] = Spans(l)[j]
    BY <1>2, SpansSeq
  <2>3. \A j \in (i + 1)..Len(l) : Spans(m)[j + 0] = Spans(l)[j]
    BY <1>3, SpansSeq
  <2> QED
    BY <2>1, <2>2, <2>3 DEF Differ
<1>6. Differ(Charges(l), Charges(m), i, 0)
  <2>1. Len(Charges(m)) = Len(Charges(l)) + 0 /\ Len(Charges(l)) = Len(l)
    BY <1>1, ChargesSeq
  <2>2. \A j \in 1..(i - 1) : Charges(m)[j] = Charges(l)[j]
    BY <1>2, ChargesSeq
  <2>3. \A j \in (i + 1)..Len(l) : Charges(m)[j + 0] = Charges(l)[j]
    BY <1>3, ChargesSeq
  <2> QED
    BY <2>1, <2>2, <2>3 DEF Differ
<1>7. /\ Spans(l)[i] = Span(l[i]) /\ Spans(m)[i] = Span(m[i])
      /\ Charges(l)[i] = Charge(l[i]) /\ Charges(m)[i] = Charge(m[i])
      /\ i \in 1..Len(Spans(l)) /\ i \in 1..Len(Charges(l))
      /\ Spans(l) \in Seq(Nat) /\ Spans(m) \in Seq(Nat)
      /\ Charges(l) \in Seq(Nat) /\ Charges(m) \in Seq(Nat)
  BY <1>1, SpansSeq, ChargesSeq
<1>8. Total(Spans(m)) + Spans(l)[i] = Total(Spans(l)) + Spans(m)[i]
  BY <1>5, <1>7, TotalReplace
<1>9. Total(Charges(m)) + Charges(l)[i] = Total(Charges(l)) + Charges(m)[i]
  BY <1>6, <1>7, TotalReplace
<1> QED
  BY <1>7, <1>8, <1>9


-----------------------------------------------------------------------------
(* How blocks lie in memory *)

Apart(a, b) == a.at + Span(a) <= b.at \/ b.at + Span(b) <= a.at

\* The block has a byte in frame f.
Touches(b, f) == f * FRAME_SIZE < b.at + Span(b) /\ b.at < f * FRAME_SIZE + FRAME_SIZE

Shaped(b) == b \in Block /\ b.at % 16 = 0 /\ b.size % 16 = 0 /\ b.size >= 16

Inside(b, R) == \A f \in Nat : Touches(b, f) => f \in R

Laid(l, R) ==
  /\ l \in Seq(Block)
  /\ \A i \in 1..Len(l) : Shaped(l[i]) /\ Inside(l[i], R)
  /\ \A i, j \in 1..Len(l) : i # j => Apart(l[i], l[j])

\* Blocks x and y are the two halves of b.
Halves(b, x, y) ==
  x.at = b.at /\ y.at = x.at + Span(x) /\ Span(x) + Span(y) = Span(b)

LEMMA HalvesApart ==
  ASSUME NEW b \in Block, NEW x \in Block, NEW y \in Block, NEW c \in Block, Halves(b, x, y)
  PROVE  /\ Apart(x, y) /\ Apart(y, x)
         /\ Apart(b, c) => Apart(x, c) /\ Apart(y, c) /\ Apart(c, x) /\ Apart(c, y)
         /\ Apart(x, c) /\ Apart(y, c) /\ c.size >= 16 => Apart(b, c) /\ Apart(c, b)
<1>1. /\ b.at \in Nat /\ x.at \in Nat /\ y.at \in Nat /\ c.at \in Nat /\ c.size \in Nat
      /\ Span(b) \in Nat /\ Span(x) \in Nat /\ Span(y) \in Nat /\ Span(c) \in Nat
      /\ HDR \in Nat /\ Span(c) = HDR + c.size
  BY BlockNum
<1> QED
  BY <1>1 DEF Halves, Apart

LEMMA HalvesTouch ==
  ASSUME NEW b \in Block, NEW x \in Block, NEW y \in Block, Halves(b, x, y), NEW f \in Nat
  PROVE  Touches(b, f) <=> Touches(x, f) \/ Touches(y, f)
<1> DEFINE w == f * FRAME_SIZE
<1>1. /\ b.at \in Nat /\ x.at \in Nat /\ y.at \in Nat
      /\ Span(b) \in Nat /\ Span(x) \in Nat /\ Span(y) \in Nat
  BY BlockNum
<1>2. FRAME_SIZE \in Nat \ {0} /\ w \in Nat
  BY HeapConstants
<1>3. /\ Touches(b, f) <=> w < b.at + Span(b) /\ b.at < w + FRAME_SIZE
      /\ Touches(x, f) <=> w < x.at + Span(x) /\ x.at < w + FRAME_SIZE
      /\ Touches(y, f) <=> w < y.at + Span(y) /\ y.at < w + FRAME_SIZE
  BY DEF Touches
<1>4. x.at = b.at /\ y.at = x.at + Span(x) /\ Span(x) + Span(y) = Span(b)
  BY DEF Halves
<1> HIDE DEF w
<1> QED
  BY <1>1, <1>2, <1>3, <1>4

LEMMA HalvesInside ==
  ASSUME NEW b \in Block, NEW x \in Block, NEW y \in Block, Halves(b, x, y), NEW R
  PROVE  Inside(b, R) <=> Inside(x, R) /\ Inside(y, R)
BY HalvesTouch DEF Inside

\* What the block list keeps when a block is split, is merged or changes hands.
LEMMA LaidSplit ==
  ASSUME NEW l \in Seq(Block), NEW m \in Seq(Block), NEW i \in 1..Len(l), Differ(l, m, i, 1),
         NEW R, Laid(l, R), Halves(l[i], m[i], m[i + 1]), Shaped(m[i]), Shaped(m[i + 1])
  PROVE  Laid(m, R)
<1>1. Len(l) \in Nat /\ Len(m) = Len(l) + 1 /\ i \in 1..Len(m) /\ i + 1 \in 1..Len(m)
  BY DEF Differ
<1>2. l[i] \in Block /\ m[i] \in Block /\ m[i + 1] \in Block
  BY <1>1
<1> DEFINE o(j) == IF j < i THEN j ELSE j - 1
<1>3. ASSUME NEW j \in 1..Len(m), j # i, j # i + 1
      PROVE  o(j) \in 1..Len(l) /\ o(j) # i /\ m[j] = l[o(j)] /\ m[j] \in Block
  <2>1. CASE j < i
    BY <1>1, <1>3, <2>1 DEF Differ
  <2>2. CASE ~ (j < i)
    <3>1. j - 1 \in (i + 1)..Len(l) /\ (j - 1) + 1 = j
      BY <1>1, <1>3, <2>2
    <3>2. m[(j - 1) + 1] = l[j - 1]
      BY <3>1 DEF Differ
    <3> QED
      BY <1>1, <2>2, <3>1, <3>2
  <2> QED
    BY <2>1, <2>2
<1>4. \A j, k \in 1..Len(m) : j # k /\ j # i /\ j # i + 1 /\ k # i /\ k # i + 1 => o(j) # o(k)
  BY <1>1
<1>5. Inside(m[i], R) /\ Inside(m[i + 1], R)
  BY <1>2, HalvesInside DEF Laid
<1>6. \A c \in Block : Apart(l[i], c) =>
         Apart(m[i], c) /\ Apart(m[i + 1], c) /\ Apart(c, m[i]) /\ Apart(c, m[i + 1])
  BY <1>2, HalvesApart
<1>7. Apart(m[i], m[i + 1]) /\ Apart(m[i + 1], m[i])
  BY <1>2, HalvesApart
<1> HIDE DEF o
<1>8. \A j \in 1..Len(m) : Shaped(m[j]) /\ Inside(m[j], R)
  BY <1>3, <1>5 DEF Laid
<1>9. \A j, k \in 1..Len(m) : j # k => Apart(m[j], m[k])
  <2>1. ASSUME NEW j \in 1..Len(m), j # i, j # i + 1
        PROVE  Apart(l[i], m[j])
    BY <1>3, <2>1 DEF Laid
  <2>2. ASSUME NEW j \in 1..Len(m), j # i, j # i + 1, NEW k \in 1..Len(m), k # i, k # i + 1, j # k
        PROVE  Apart(m[j], m[k])
    <3>1. o(j) # o(k)
      BY <1>4, <2>2
    <3> QED
      BY <1>3, <2>2, <3>1 DEF Laid
  <2> QED
    BY <1>3, <1>6, <1>7, <2>1, <2>2
<1> QED
  BY <1>8, <1>9 DEF Laid

LEMMA LaidJoin ==
  ASSUME NEW l \in Seq(Block), NEW m \in Seq(Block), NEW i \in 1..Len(m), Differ(m, l, i, 1),
         NEW R, Laid(l, R), Halves(m[i], l[i], l[i + 1]), Shaped(m[i])
  PROVE  Laid(m, R)
<1>1. Len(m) \in Nat /\ Len(l) = Len(m) + 1 /\ i \in 1..Len(l) /\ i + 1 \in 1..Len(l)
  BY DEF Differ
<1>2. l[i] \in Block /\ m[i] \in Block /\ l[i + 1] \in Block
  BY <1>1
<1> DEFINE o(j) == IF j < i THEN j ELSE j + 1
<1>3. ASSUME NEW j \in 1..Len(m), j # i
      PROVE  o(j) \in 1..Len(l) /\ o(j) # i /\ o(j) # i + 1 /\ m[j] = l[o(j)] /\ m[j] \in Block
  <2>1. CASE j < i
    BY <1>1, <1>3, <2>1 DEF Differ
  <2>2. CASE ~ (j < i)
    <3>1. j \in (i + 1)..Len(m)
      BY <1>1, <1>3, <2>2
    <3>2. l[j + 1] = m[j]
      BY <3>1 DEF Differ
    <3> QED
      BY <1>1, <2>2, <3>1, <3>2
  <2> QED
    BY <2>1, <2>2
<1>4. \A j, k \in 1..Len(m) : j # k => o(j) # o(k)
  BY <1>1
<1>5. Inside(m[i], R)
  BY <1>1, <1>2, HalvesInside DEF Laid
<1>6. \A c \in Block : Apart(l[i], c) /\ Apart(l[i + 1], c) /\ c.size >= 16 =>
         Apart(m[i], c) /\ Apart(c, m[i])
  BY <1>2, HalvesApart
<1> HIDE DEF o
<1>7. \A j \in 1..Len(m) : Shaped(m[j]) /\ Inside(m[j], R)
  BY <1>3, <1>5 DEF Laid
<1>8. \A j, k \in 1..Len(m) : j # k => Apart(m[j], m[k])
  <2>1. ASSUME NEW j \in 1..Len(m), j # i
        PROVE  Apart(m[i], m[j]) /\ Apart(m[j], m[i])
    <3>1. Apart(l[i], m[j]) /\ Apart(l[i + 1], m[j])
      BY <1>1, <1>3, <2>1 DEF Laid
    <3>2. m[j].size >= 16 /\ m[j] \in Block
      BY <1>3, <1>7, <2>1 DEF Shaped
    <3> QED
      BY <1>6, <3>1, <3>2
  <2>2. ASSUME NEW j \in 1..Len(m), j # i, NEW k \in 1..Len(m), k # i, j # k
        PROVE  Apart(m[j], m[k])
    <3>1. o(j) # o(k)
      BY <1>4, <2>2
    <3> QED
      BY <1>3, <2>2, <3>1 DEF Laid
  <2> QED
    BY <2>1, <2>2
<1> QED
  BY <1>7, <1>8 DEF Laid

LEMMA LaidMark ==
  ASSUME NEW l \in Seq(Block), NEW m \in Seq(Block), NEW i \in 1..Len(l), Differ(l, m, i, 0),
         NEW R, Laid(l, R), m[i].at = l[i].at, m[i].size = l[i].size
  PROVE  Laid(m, R)
<1>1. Len(l) \in Nat /\ Len(m) = Len(l)
  BY DEF Differ
<1>2. ASSUME NEW j \in 1..Len(m)
      PROVE  j \in 1..Len(l) /\ l[j] \in Block /\ m[j] \in Block
             /\ m[j].at = l[j].at /\ m[j].size = l[j].size /\ Span(m[j]) = Span(l[j])
  <2>1. j \in 1..Len(l) /\ (j # i => m[j] = l[j])
    <3>1. j \in (i + 1)..Len(l) => m[j + 0] = l[j]
      BY DEF Differ
    <3>2. j \in 1..(i - 1) => m[j] = l[j]
      BY DEF Differ
    <3>3. j + 0 = j /\ j \in 1..Len(l)
      BY <1>1
    <3> QED
      BY <1>1, <3>1, <3>2, <3>3
  <2> QED
    BY <1>1, <2>1 DEF Span
<1>3. \A j \in 1..Len(m) : Shaped(m[j]) /\ Inside(m[j], R)
  BY <1>2 DEF Laid, Shaped, Inside, Touches
<1>4. \A j, k \in 1..Len(m) : j # k => Apart(m[j], m[k])
  BY <1>2 DEF Laid, Apart
<1> QED
  BY <1>3, <1>4 DEF Laid


\* Bytes below frame b are in frames below b.
LEMMA FrameOrder ==
  ASSUME NEW a \in Nat, NEW b \in Nat
  PROVE  /\ FRAME_SIZE \in Nat \ {0}
         /\ a * FRAME_SIZE \in Nat /\ b * FRAME_SIZE \in Nat
         /\ (a + b) * FRAME_SIZE = a * FRAME_SIZE + b * FRAME_SIZE
         /\ (a + 1) * FRAME_SIZE = a * FRAME_SIZE + FRAME_SIZE
         /\ a <= b => a * FRAME_SIZE <= b * FRAME_SIZE
         /\ a * FRAME_SIZE < b * FRAME_SIZE => a < b
<1>1. FRAME_SIZE \in Nat \ {0}
  BY HeapConstants
<1>2. 1 * FRAME_SIZE = FRAME_SIZE
  BY <1>1
<1> QED
  BY <1>1, <1>2, Times

\* A region is a block: it is aligned, and lies in its own frames.
LEMMA RegionShape ==
  ASSUME NEW f \in Nat, NEW count \in Nat, count * FRAME_SIZE >= HDR + 16
  PROVE  /\ Shaped(Region(f, count)) /\ Region(f, count).free
         /\ Region(f, count).at = f * FRAME_SIZE
         /\ Span(Region(f, count)) = count * FRAME_SIZE
         /\ Region(f, count).size = count * FRAME_SIZE - HDR
<1> DEFINE a == f * FRAME_SIZE
           c == count * FRAME_SIZE
           b == Region(f, count)
<1>1. a \in Nat /\ c \in Nat /\ HDR \in Nat /\ HDR % 16 = 0 /\ FRAME_SIZE \in Nat /\ FRAME_SIZE % 16 = 0
  BY HeapConstants, FrameOrder DEF Grain
<1>2. a % 16 = 0 /\ c % 16 = 0
  BY <1>1, Times16
<1>3. c >= HDR + 16
  OBVIOUS
<1>4. b = [at |-> a, size |-> c - HDR, free |-> TRUE]
  BY DEF Region
<1> HIDE DEF a, b, c
<1>5. c - HDR \in Nat /\ c - HDR >= 16 /\ (c - HDR) % 16 = 0 /\ HDR + (c - HDR) = c
  BY <1>1, <1>2, <1>3
<1>6. b \in Block /\ b.at = a /\ b.size = c - HDR /\ b.free
  BY <1>1, <1>4, <1>5 DEF Block
<1>7. Shaped(b)
  BY <1>2, <1>5, <1>6 DEF Shaped
<1>8. Span(b) = c
  BY <1>5, <1>6 DEF Span
<1> QED
  BY <1>6, <1>7, <1>8 DEF a, b, c

LEMMA RegionTouch ==
  ASSUME NEW f \in Nat, NEW count \in Nat, count * FRAME_SIZE >= HDR + 16,
         NEW g \in Nat, Touches(Region(f, count), g)
  PROVE  g \in f..(f + count - 1)
<1> DEFINE a == f * FRAME_SIZE
           c == count * FRAME_SIZE
           w == g * FRAME_SIZE
<1>1. w < a + c /\ a < w + FRAME_SIZE
  BY RegionShape DEF Touches
<1>2. (f + count) * FRAME_SIZE = a + c /\ (g + 1) * FRAME_SIZE = w + FRAME_SIZE
  BY FrameOrder
<1>3. f + count \in Nat /\ g + 1 \in Nat
  OBVIOUS
<1>4. g < f + count
  BY <1>1, <1>2, <1>3, FrameOrder
<1>5. f < g + 1
  BY <1>1, <1>2, <1>3, FrameOrder
<1> QED
  BY <1>4, <1>5

\* A block that has no byte in the frames of the region is apart from it.
LEMMA RegionApart ==
  ASSUME NEW f \in Nat, NEW count \in Nat, count * FRAME_SIZE >= HDR + 16,
         NEW R, (f..(f + count - 1)) \cap R = {}, NEW b, Shaped(b), Inside(b, R)
  PROVE  Apart(b, Region(f, count)) /\ Apart(Region(f, count), b)
<1> DEFINE a == f * FRAME_SIZE
           c == count * FRAME_SIZE
           r == Region(f, count)
           e == b.at + Span(b)
<1>1. r.at = a /\ Span(r) = c /\ a \in Nat /\ c \in Nat /\ HDR \in Nat /\ c >= 16
  BY RegionShape, FrameOrder, HeapConstants
<1>2. b.at \in Nat /\ Span(b) \in Nat /\ e \in Nat /\ b.at < e
  <2>1. b \in Block /\ b.size >= 16
    BY DEF Shaped
  <2>2. b.at \in Nat /\ b.size \in Nat /\ HDR \in Nat /\ Span(b) = HDR + b.size
    BY <2>1, BlockNum
  <2> QED
    BY <2>1, <2>2
<1>3. FRAME_SIZE \in Nat \ {0} /\ count # 0
  BY HeapConstants
<1>4. ASSUME b.at < a + c, a < e PROVE FALSE
  <2> DEFINE g == b.at \div FRAME_SIZE
  <2>1. g \in Nat /\ g * FRAME_SIZE <= b.at /\ b.at < g * FRAME_SIZE + FRAME_SIZE
    BY <1>2, <1>3, DivBounds
  <2> HIDE DEF g
  <2>2. CASE b.at >= a
    <3>0. g * FRAME_SIZE \in Nat
      BY <2>1, FrameOrder
    <3>1. g * FRAME_SIZE < e /\ g * FRAME_SIZE \in Nat
      <4> HIDE DEF e
      <4> DEFINE w == g * FRAME_SIZE
      <4>1. w <= b.at /\ w \in Nat
        BY <2>1, <3>0
      <4> HIDE DEF w
      <4>2. w < e
        BY <1>2, <4>1
      <4> QED
        BY <3>0, <4>2 DEF w
    <3>2. g \in R
      BY <2>1, <3>1 DEF Inside, Touches
    <3>3. g * FRAME_SIZE < (f + count) * FRAME_SIZE /\ f * FRAME_SIZE < (g + 1) * FRAME_SIZE
      <4>1. (f + count) * FRAME_SIZE = a + c /\ (g + 1) * FRAME_SIZE = g * FRAME_SIZE + FRAME_SIZE
        BY <2>1, FrameOrder
      <4> QED
        BY <1>1, <1>2, <1>3, <1>4, <2>1, <2>2, <3>1, <4>1
    <3>4. f + count \in Nat /\ g + 1 \in Nat
      BY <2>1
    <3>5. g < f + count /\ f < g + 1
      BY <2>1, <3>3, <3>4, FrameOrder
    <3> QED
      BY <2>1, <3>2, <3>5
  <2>3. CASE b.at < a
    <3>1. f \in R
      BY <1>1, <1>2, <1>3, <1>4, <2>3 DEF Inside, Touches
    <3> QED
      BY <1>3, <3>1
  <2> QED
    BY <1>1, <1>2, <2>2, <2>3
<1> HIDE DEF a, c, r, e
<1>5. ~ (b.at < a + c) \/ ~ (a < e)
  BY <1>4
<1>6. Apart(b, r) /\ Apart(r, b)
  BY <1>1, <1>2, <1>5 DEF Apart, e
<1> QED
  BY <1>6 DEF r

LEMMA LaidAppend ==
  ASSUME NEW l, NEW R, Laid(l, R), NEW f \in Nat, NEW count \in Nat,
         count * FRAME_SIZE >= HDR + 16, (f..(f + count - 1)) \cap R = {}
  PROVE  Laid(Append(l, Region(f, count)), R \union f..(f + count - 1))
<1> DEFINE r == Region(f, count)
           m == Append(l, r)
           F == f..(f + count - 1)
<1>1. l \in Seq(Block) /\ Len(l) \in Nat
  BY DEF Laid
<1>2. Shaped(r) /\ r \in Block
  BY RegionShape DEF Shaped
<1>3. Inside(r, R \union F)
  BY RegionTouch DEF Inside
<1>4. \A j \in 1..Len(l) : Apart(l[j], r) /\ Apart(r, l[j])
  BY RegionApart DEF Laid
<1> HIDE DEF r
<1>5. m \in Seq(Block) /\ Len(m) = Len(l) + 1 /\ m[Len(l) + 1] = r /\ \A j \in 1..Len(l) : m[j] = l[j]
  BY <1>1, <1>2
<1> HIDE DEF m, F
<1>6. \A j \in 1..Len(m) : j = Len(l) + 1 \/ j \in 1..Len(l)
  BY <1>1, <1>5
<1>7. \A j \in 1..Len(m) : Shaped(m[j]) /\ Inside(m[j], R \union F)
  <2>1. \A j \in 1..Len(l) : Shaped(l[j]) /\ Inside(l[j], R \union F)
    BY DEF Laid, Inside
  <2> QED
    BY <1>2, <1>3, <1>5, <1>6, <2>1
<1>8. \A i, j \in 1..Len(m) : i # j => Apart(m[i], m[j])
  <2>1. \A i, j \in 1..Len(l) : i # j => Apart(l[i], l[j])
    BY DEF Laid
  <2> QED
    BY <1>4, <1>5, <1>6, <2>1
<1>9. Laid(m, R \union F)
  BY <1>5, <1>7, <1>8 DEF Laid
<1> QED
  BY <1>9 DEF m, r, F


-----------------------------------------------------------------------------
(* The operations on the list *)

\* The first free block that is large enough.
LEMMA FirstFitSpec ==
  ASSUME NEW l \in Seq(Block), NEW size \in Nat
  PROVE  /\ FirstFit(l, size) = 0 => \A i \in 1..Len(l) : ~ (l[i].free /\ l[i].size >= size)
         /\ FirstFit(l, size) # 0 =>
              /\ FirstFit(l, size) \in 1..Len(l)
              /\ l[FirstFit(l, size)].free /\ l[FirstFit(l, size)].size >= size
<1> DEFINE I == {i \in 1..Len(l) : l[i].free /\ l[i].size >= size}
<1>1. FirstFit(l, size) = IF I # {} THEN Min(I) ELSE 0
  BY DEF FirstFit, SelectInSeq
<1>2. I \in SUBSET Nat /\ 0 \notin I
  OBVIOUS
<1>3. I # {} => Min(I) \in I
  <2> HIDE DEF I
  <2> QED
    BY <1>2, FirstOf
<1>4. CASE I = {}
  BY <1>1, <1>4
<1>5. CASE I # {}
  <2>1. FirstFit(l, size) \in I
    BY <1>1, <1>3, <1>5
  <2> QED
    BY <1>2, <2>1
<1> QED
  BY <1>4, <1>5

LEMMA BlockFields ==
  ASSUME NEW b \in Block, NEW v
  PROVE  [b EXCEPT !.free = v] = [at |-> b.at, size |-> b.size, free |-> v]
BY DEF Block

LEMMA BlockWith ==
  ASSUME NEW b \in Block, NEW n \in Nat
  PROVE  /\ [b EXCEPT !.size = n] = [at |-> b.at, size |-> n, free |-> b.free]
         /\ [b EXCEPT !.free = FALSE] = [at |-> b.at, size |-> b.size, free |-> FALSE]
         /\ [b EXCEPT !.free = TRUE] = [at |-> b.at, size |-> b.size, free |-> TRUE]
<1>1. [b EXCEPT !.size = n] = [at |-> b.at, size |-> n, free |-> b.free]
  BY DEF Block
<1>2. [b EXCEPT !.free = FALSE] = [at |-> b.at, size |-> b.size, free |-> FALSE]
  BY BlockFields, Zenon
<1>3. [b EXCEPT !.free = TRUE] = [at |-> b.at, size |-> b.size, free |-> TRUE]
  BY BlockFields, Zenon
<1> QED
  BY <1>1, <1>2, <1>3

LEMMA BlockMake ==
  ASSUME NEW a \in Nat, NEW n \in Nat, NEW v \in BOOLEAN
  PROVE  [at |-> a, size |-> n, free |-> v] \in Block
BY DEF Block

\* Block i changes its flag, or also its size.
LEMMA ReplaceSpec ==
  ASSUME NEW l \in Seq(Block), NEW i \in 1..Len(l), NEW b \in Block
  PROVE  /\ [l EXCEPT ![i] = b] \in Seq(Block) /\ Len([l EXCEPT ![i] = b]) = Len(l)
         /\ \A j \in 1..Len(l) : [l EXCEPT ![i] = b][j] = IF j = i THEN b ELSE l[j]
OBVIOUS

LEMMA ReplaceDiffer ==
  ASSUME NEW l \in Seq(Block), NEW i \in 1..Len(l), NEW b \in Block
  PROVE  Differ(l, [l EXCEPT ![i] = b], i, 0) /\ [l EXCEPT ![i] = b][i] = b
<1> DEFINE m == [l EXCEPT ![i] = b]
<1>1. Len(m) = Len(l) /\ Len(l) \in Nat /\ \A j \in 1..Len(l) : m[j] = IF j = i THEN b ELSE l[j]
  BY ReplaceSpec
<1> HIDE DEF m
<1>2. \A j \in 1..(i - 1) : m[j] = l[j]
  BY <1>1
<1>3. \A j \in (i + 1)..Len(l) : m[j + 0] = l[j]
  <2> TAKE j \in (i + 1)..Len(l)
  <2>1. j + 0 = j /\ j \in 1..Len(l) /\ j # i
    BY <1>1
  <2> QED
    BY <1>1, <2>1
<1>4. Len(m) = Len(l) + 0
  BY <1>1
<1>5. Differ(l, m, i, 0) /\ m[i] = b
  BY <1>1, <1>2, <1>3, <1>4 DEF Differ
<1> QED
  BY <1>5 DEF m

\* q is k with block r inserted at place p.
Inserted(k, p, r, q) ==
  /\ q \in Seq(Block) /\ Len(q) = Len(k) + 1
  /\ (\A j \in 1..(p - 1) : q[j] = k[j]) /\ q[p] = r
  /\ \A j \in p..Len(k) : q[j + 1] = k[j]

LEMMA BlockInsert ==
  ASSUME NEW k \in Seq(Block), NEW p \in 1..(Len(k) + 1), NEW r \in Block
  PROVE  Inserted(k, p, r, InsertAt(k, p, r))
<1> DEFINE q == InsertAt(k, p, r)
<1>1. q \in Seq(Block) /\ Len(q) = Len(k) + 1
  BY InsertAtSpec
<1>2. \A j \in 1..(p - 1) : q[j] = k[j]
  BY InsertAtSpec
<1>3. q[p] = r
  BY InsertAtSpec
<1>4. \A j \in p..Len(k) : q[j + 1] = k[j]
  BY InsertAtSpec
<1> HIDE DEF q
<1>5. Inserted(k, p, r, q)
  BY <1>1, <1>2, <1>3, <1>4 DEF Inserted
<1> QED
  BY <1>5 DEF q

LEMMA TakeSplits ==
  ASSUME NEW l \in Seq(Block), NEW i \in 1..Len(l), NEW size \in Nat,
         l[i].size >= size, l[i].size - size >= HDR + Grain
  PROVE  /\ Take(l, i, size) \in Seq(Block) /\ Differ(l, Take(l, i, size), i, 1)
         /\ Take(l, i, size)[i] = [at |-> l[i].at, size |-> size, free |-> FALSE]
         /\ Take(l, i, size)[i + 1] =
              [at |-> l[i].at + HDR + size, size |-> l[i].size - size - HDR, free |-> TRUE]
<1> DEFINE b == l[i]
           used == [at |-> b.at, size |-> size, free |-> FALSE]
           rest == [at |-> b.at + HDR + size, size |-> b.size - size - HDR, free |-> TRUE]
           k == [l EXCEPT ![i] = used]
           m == InsertAt(k, i + 1, rest)
<1>1. b \in Block
  OBVIOUS
<1>2. b.at \in Nat /\ b.size \in Nat /\ HDR \in Nat /\ Len(l) \in Nat
  BY <1>1, BlockNum
<1>3. used \in Block
  <2> HIDE DEF b
  <2> QED
    BY <1>2, BlockMake
<1>4. rest \in Block
  <2>1. b.size - size >= HDR + 16
    BY DEF Grain
  <2> HIDE DEF b
  <2>2. b.at + HDR + size \in Nat /\ b.size - size - HDR \in Nat
    BY <1>2, <2>1
  <2> QED
    BY <2>2, BlockMake
<1>5. Take(l, i, size) = m
  BY DEF Take
<1> HIDE DEF used, rest
<1>6. k \in Seq(Block) /\ Len(k) = Len(l) /\ \A j \in 1..Len(l) : k[j] = IF j = i THEN used ELSE l[j]
  BY <1>3, ReplaceSpec
<1> HIDE DEF k
<1>7. /\ m \in Seq(Block) /\ Len(m) = Len(l) + 1
      /\ (\A j \in 1..i : m[j] = k[j]) /\ m[i + 1] = rest
      /\ \A j \in (i + 1)..Len(l) : m[j + 1] = k[j]
  <2> DEFINE p == i + 1
  <2>1. p \in 1..(Len(k) + 1) /\ p - 1 = i
    BY <1>2, <1>6
  <2>2. k \in Seq(Block) /\ Len(k) = Len(l) /\ m = InsertAt(k, p, rest)
    BY <1>6
  <2> HIDE DEF m, p
  <2>3. /\ m \in Seq(Block) /\ Len(m) = Len(k) + 1
        /\ (\A j \in 1..(p - 1) : m[j] = k[j]) /\ m[p] = rest
        /\ \A j \in p..Len(k) : m[j + 1] = k[j]
    <3>1. Inserted(k, p, rest, InsertAt(k, p, rest))
      BY <1>4, <2>1, <2>2, BlockInsert
    <3>2. Inserted(k, p, rest, m)
      BY <3>1, <2>2, Zenon
    <3> QED
      BY <3>2, Zenon DEF Inserted
  <2> QED
    BY <2>1, <2>2, <2>3 DEF p
<1> HIDE DEF m
<1>8. \A j \in 1..(i - 1) : m[j] = l[j]
  <2> TAKE j \in 1..(i - 1)
  <2>1. j \in 1..i /\ j # i /\ j \in 1..Len(l)
    BY <1>2
  <2>2. m[j] = k[j] /\ k[j] = l[j]
    BY <1>6, <1>7, <2>1
  <2> QED
    BY <2>2
<1>9. \A j \in (i + 1)..Len(l) : m[j + 1] = l[j]
  <2> TAKE j \in (i + 1)..Len(l)
  <2>1. j # i /\ j \in 1..Len(l)
    BY <1>2
  <2>2. k[j] = l[j]
    BY <1>6, <2>1
  <2>3. m[j + 1] = k[j]
    BY <1>7
  <2> QED
    BY <2>2, <2>3
<1>10. m[i] = used /\ m[i + 1] = rest
  <2>1. i \in 1..i
    BY <1>2
  <2> QED
    BY <1>6, <1>7, <2>1
<1>11. Differ(l, m, i, 1)
  BY <1>7, <1>8, <1>9 DEF Differ
<1> QED
  BY <1>5, <1>7, <1>10, <1>11 DEF rest, used

LEMMA TakeWhole ==
  ASSUME NEW l \in Seq(Block), NEW i \in 1..Len(l), NEW size \in Nat,
         ~ (l[i].size - size >= HDR + Grain)
  PROVE  /\ Take(l, i, size) \in Seq(Block) /\ Differ(l, Take(l, i, size), i, 0)
         /\ Take(l, i, size)[i] = [at |-> l[i].at, size |-> l[i].size, free |-> FALSE]
<1> DEFINE b == l[i]
           used == [b EXCEPT !.free = FALSE]
           m == [l EXCEPT ![i] = used]
<1>1. b \in Block
  OBVIOUS
<1>2. used = [at |-> b.at, size |-> b.size, free |-> FALSE] /\ used \in Block
  <2> HIDE DEF b
  <2>1. used = [at |-> b.at, size |-> b.size, free |-> FALSE]
    BY <1>1, BlockWith
  <2>2. b.at \in Nat /\ b.size \in Nat
    BY <1>1, BlockNum
  <2> QED
    BY <2>1, <2>2, BlockMake
<1>3. Take(l, i, size) = m
  BY DEF Take
<1>4. m \in Seq(Block) /\ Differ(l, m, i, 0) /\ m[i] = used
  <2>1. used \in Block
    BY <1>2
  <2> HIDE DEF used, b
  <2>2. m \in Seq(Block)
    BY <2>1, ReplaceSpec
  <2>3. Differ(l, m, i, 0) /\ m[i] = used
    BY <2>1, ReplaceDiffer
  <2> QED
    BY <2>2, <2>3
<1> HIDE DEF used, m
<1> QED
  BY <1>2, <1>3, <1>4

LEMMA JoinSpec ==
  ASSUME NEW l \in Seq(Block), NEW i \in 1..(Len(l) - 1)
  PROVE  /\ Join(l, i) \in Seq(Block) /\ Differ(Join(l, i), l, i, 1)
         /\ i \in 1..Len(Join(l, i))
         /\ Join(l, i)[i] =
              [at |-> l[i].at, size |-> l[i].size + HDR + l[i + 1].size, free |-> l[i].free]
<1> DEFINE b == l[i]
           c == l[i + 1]
           wide == [b EXCEPT !.size = b.size + HDR + c.size]
           k == [l EXCEPT ![i] = wide]
           m == RemoveAt(k, i + 1)
<1>1. Len(l) \in Nat /\ i \in 1..Len(l) /\ i + 1 \in 1..Len(l)
  OBVIOUS
<1>2. b \in Block /\ c \in Block
  BY <1>1
<1>3. b.at \in Nat /\ b.size \in Nat /\ HDR \in Nat /\ c.size \in Nat /\ b.size + HDR + c.size \in Nat
  <2> HIDE DEF b, c
  <2>1. b.at \in Nat /\ b.size \in Nat /\ HDR \in Nat
    BY <1>2, BlockNum
  <2>2. c.size \in Nat
    BY <1>2, BlockNum
  <2> QED
    BY <2>1, <2>2
<1>4. wide = [at |-> b.at, size |-> b.size + HDR + c.size, free |-> b.free] /\ wide \in Block
  <2> HIDE DEF b, c
  <2>1. wide = [at |-> b.at, size |-> b.size + HDR + c.size, free |-> b.free]
    BY <1>2, <1>3, BlockWith
  <2>2. b.free \in BOOLEAN
    BY <1>2, BlockNum
  <2> QED
    BY <1>3, <2>1, <2>2, BlockMake
<1>5. Join(l, i) = m
  BY <1>1 DEF Join
<1> HIDE DEF wide
<1>6. k \in Seq(Block) /\ Len(k) = Len(l) /\ \A j \in 1..Len(l) : k[j] = IF j = i THEN wide ELSE l[j]
  BY <1>1, <1>4, ReplaceSpec
<1> HIDE DEF k
<1>7. /\ m \in Seq(Block) /\ Len(m) = Len(l) - 1
      /\ \A j \in 1..(Len(l) - 1) : m[j] = IF j < i + 1 THEN k[j] ELSE k[j + 1]
  BY <1>1, <1>6, RemoveAtSpec
<1> HIDE DEF m
<1>8. \A j \in 1..(i - 1) : l[j] = m[j]
  <2> TAKE j \in 1..(i - 1)
  <2>1. j \in 1..(Len(l) - 1) /\ j < i + 1 /\ j # i /\ j \in 1..Len(l)
    BY <1>1
  <2> QED
    BY <1>6, <1>7, <2>1
<1>9. \A j \in (i + 1)..Len(m) : l[j + 1] = m[j]
  <2> TAKE j \in (i + 1)..Len(m)
  <2>1. /\ j \in 1..(Len(l) - 1) /\ ~ (j < i + 1) /\ j + 1 # i /\ j + 1 \in 1..Len(l)
    BY <1>1, <1>7
  <2> QED
    BY <1>6, <1>7, <2>1
<1>10. m[i] = wide
  <2>1. i \in 1..(Len(l) - 1) /\ i < i + 1
    OBVIOUS
  <2> QED
    BY <1>1, <1>6, <1>7, <2>1
<1>11. Differ(m, l, i, 1) /\ i \in 1..Len(m)
  BY <1>1, <1>7, <1>8, <1>9 DEF Differ
<1> QED
  BY <1>4, <1>5, <1>7, <1>10, <1>11


-----------------------------------------------------------------------------
(* The ranges in use *)

Rng(b)  == [at |-> b.at + HDR, len |-> b.size]
Own(b)  == IF b.free THEN {} ELSE {Rng(b)}
Live(l) == {Rng(b) : b \in {c \in ToSet(l) : ~c.free}}

\* The ranges in use of the blocks other than block i.
OtherLive(l, i) == UNION {Own(l[j]) : j \in 1..Len(l) \ {i}}

LEMMA LiveOwn ==
  ASSUME NEW l \in Seq(Block)
  PROVE  Live(l) = UNION {Own(l[j]) : j \in 1..Len(l)}
<1>1. ToSet(l) = {l[j] : j \in 1..Len(l)}
  BY DEF ToSet
<1>2. ASSUME NEW r PROVE r \in Live(l) <=> \E j \in 1..Len(l) : ~l[j].free /\ r = Rng(l[j])
  BY <1>1 DEF Live
<1>3. ASSUME NEW r PROVE r \in UNION {Own(l[j]) : j \in 1..Len(l)} <=> \E j \in 1..Len(l) : ~l[j].free /\ r = Rng(l[j])
  BY DEF Own
<1> QED
  BY <1>2, <1>3

LEMMA LiveAt ==
  ASSUME NEW l \in Seq(Block), NEW i \in 1..Len(l)
  PROVE  Live(l) = OtherLive(l, i) \union Own(l[i])
BY LiveOwn DEF OtherLive

LEMMA LiveSplit ==
  ASSUME NEW l \in Seq(Block), NEW m \in Seq(Block), NEW i \in 1..Len(l), Differ(l, m, i, 1)
  PROVE  Live(m) = OtherLive(l, i) \union Own(m[i]) \union Own(m[i + 1])
<1>1. Len(l) \in Nat /\ Len(m) = Len(l) + 1 /\ i \in 1..Len(m) /\ i + 1 \in 1..Len(m)
  BY DEF Differ
<1>2. ASSUME NEW j \in 1..Len(m), j # i, j # i + 1
      PROVE  \E k \in 1..Len(l) \ {i} : m[j] = l[k]
  <2>1. CASE j < i
    BY <1>1, <1>2, <2>1 DEF Differ
  <2>2. CASE ~ (j < i)
    <3>1. j - 1 \in (i + 1)..Len(l) /\ (j - 1) + 1 = j /\ j - 1 \in 1..Len(l) \ {i}
      BY <1>1, <1>2, <2>2
    <3>2. m[(j - 1) + 1] = l[j - 1]
      BY <3>1 DEF Differ
    <3> QED
      BY <3>1, <3>2
  <2> QED
    BY <2>1, <2>2
<1>3. ASSUME NEW k \in 1..Len(l) \ {i}
      PROVE  \E j \in 1..Len(m) : m[j] = l[k]
  <2>1. CASE k < i
    <3>1. k \in 1..(i - 1) /\ k \in 1..Len(m)
      BY <1>1, <2>1
    <3> QED
      BY <3>1 DEF Differ
  <2>2. CASE ~ (k < i)
    <3>1. k \in (i + 1)..Len(l) /\ k + 1 \in 1..Len(m)
      BY <1>1, <2>2
    <3> QED
      BY <3>1 DEF Differ
  <2> QED
    BY <2>1, <2>2
<1> DEFINE A == {Own(m[j]) : j \in 1..Len(m)}
           B == {Own(l[k]) : k \in 1..Len(l) \ {i}}
<1>4. A = B \union {Own(m[i]), Own(m[i + 1])}
  <2>1. ASSUME NEW x \in A PROVE x \in B \union {Own(m[i]), Own(m[i + 1])}
    <3>1. PICK j \in 1..Len(m) : x = Own(m[j])
      OBVIOUS
    <3>2. CASE j # i /\ j # i + 1
      <4>1. PICK k \in 1..Len(l) \ {i} : m[j] = l[k]
        BY <1>2, <3>2
      <4> QED
        BY <3>1, <4>1
    <3> QED
      BY <3>1, <3>2
  <2>2. ASSUME NEW x \in B PROVE x \in A
    <3>1. PICK k \in 1..Len(l) \ {i} : x = Own(l[k])
      OBVIOUS
    <3>2. PICK j \in 1..Len(m) : m[j] = l[k]
      BY <1>3
    <3> QED
      BY <3>1, <3>2
  <2>3. Own(m[i]) \in A /\ Own(m[i + 1]) \in A
    BY <1>1
  <2> HIDE DEF A, B
  <2> QED
    BY <2>1, <2>2, <2>3
<1>5. Live(m) = UNION A /\ OtherLive(l, i) = UNION B
  BY LiveOwn DEF OtherLive
<1> HIDE DEF A, B
<1> QED
  BY <1>4, <1>5

LEMMA LiveReplace ==
  ASSUME NEW l \in Seq(Block), NEW m \in Seq(Block), NEW i \in 1..Len(l), Differ(l, m, i, 0)
  PROVE  Live(m) = OtherLive(l, i) \union Own(m[i])
<1>1. Len(l) \in Nat /\ Len(m) = Len(l) /\ i \in 1..Len(m)
  BY DEF Differ
<1>2. ASSUME NEW j \in 1..Len(l), j # i
      PROVE  m[j] = l[j]
  <2>1. CASE j < i
    BY <1>1, <1>2, <2>1 DEF Differ
  <2>2. CASE ~ (j < i)
    <3>1. j \in (i + 1)..Len(l) /\ j + 0 = j
      BY <1>1, <1>2, <2>2
    <3>2. m[j + 0] = l[j]
      BY <3>1 DEF Differ
    <3> QED
      BY <3>1, <3>2
  <2> QED
    BY <2>1, <2>2
<1>3. OtherLive(m, i) = OtherLive(l, i)
  BY <1>1, <1>2 DEF OtherLive
<1> QED
  BY <1>1, <1>3, LiveAt

\* Two blocks of the heap never have the same range.
LEMMA LiveOnce ==
  ASSUME NEW l, NEW R, Laid(l, R), NEW i \in 1..Len(l)
  PROVE  Rng(l[i]) \notin OtherLive(l, i)
<1> SUFFICES ASSUME NEW j \in 1..Len(l), j # i, Rng(l[j]) = Rng(l[i])
             PROVE  FALSE
  BY DEF OtherLive, Own
<1>1. Apart(l[i], l[j]) /\ Shaped(l[i]) /\ Shaped(l[j])
  BY DEF Laid
<1>2. l[i].at + HDR = l[j].at + HDR /\ l[i].size = l[j].size
  BY DEF Rng
<1> DEFINE a == l[i]
           b == l[j]
<1>3. Apart(a, b) /\ a \in Block /\ b \in Block /\ a.size >= 16 /\ b.size >= 16
  BY <1>1 DEF Shaped
<1>4. a.at + HDR = b.at + HDR /\ a.size = b.size
  BY <1>2
<1> HIDE DEF a, b
<1>5. a.at \in Nat /\ b.at \in Nat /\ a.size \in Nat /\ b.size \in Nat /\ HDR \in Nat
  BY <1>3, BlockNum
<1>6. Span(a) = HDR + a.size /\ Span(b) = HDR + b.size
  BY DEF Span
<1>7. a.at + Span(a) <= b.at \/ b.at + Span(b) <= a.at
  BY <1>3 DEF Apart
<1> QED
  BY <1>3, <1>4, <1>5, <1>6, <1>7


-----------------------------------------------------------------------------
(* Neighbours that could be merged *)

LEMMA HalvesEnd ==
  ASSUME NEW a \in Block, NEW b \in Block, NEW c \in Block, Halves(a, b, c)
  PROVE  a.at + HDR + a.size = c.at + HDR + c.size
<1>1. b.at = a.at /\ c.at = b.at + Span(b) /\ Span(b) + Span(c) = Span(a)
  BY DEF Halves
<1>2. a.at \in Nat /\ b.at \in Nat /\ c.at \in Nat /\ HDR \in Nat
      /\ a.size \in Nat /\ b.size \in Nat /\ c.size \in Nat
  BY BlockNum
<1>3. Span(a) = HDR + a.size /\ Span(b) = HDR + b.size /\ Span(c) = HDR + c.size
  BY DEF Span
<1> QED
  BY <1>1, <1>2, <1>3

\* Merging block i leaves the neighbours that there were, and no new ones.
LEMMA JoinMerge ==
  ASSUME NEW l \in Seq(Block), NEW m \in Seq(Block), NEW i \in 1..Len(m), Differ(m, l, i, 1),
         Halves(m[i], l[i], l[i + 1]), l[i].free, l[i + 1].free,
         NEW k, Mergeable(m, k)
  PROVE  Mergeable(l, IF k < i THEN k ELSE k + 1)
<1>1. Len(m) \in Nat /\ Len(l) = Len(m) + 1 /\ k \in 1..(Len(m) - 1)
  BY DEF Differ, Mergeable
<1>2. m[k].free /\ m[k + 1].free /\ m[k + 1].at = m[k].at + HDR + m[k].size
  BY DEF Mergeable, adjacent
<1>3. CASE k + 1 < i
  <2>1. k \in 1..(i - 1) /\ k + 1 \in 1..(i - 1) /\ k \in 1..(Len(l) - 1) /\ k < i
    BY <1>1, <1>3
  <2>2. l[k] = m[k] /\ l[k + 1] = m[k + 1]
    BY <2>1 DEF Differ
  <2> QED
    BY <1>2, <2>1, <2>2 DEF Mergeable, adjacent
<1>4. CASE k + 1 = i
  <2>1. k \in 1..(i - 1) /\ k \in 1..(Len(l) - 1) /\ k < i
    BY <1>1, <1>4
  <2>2. l[k] = m[k]
    BY <2>1 DEF Differ
  <2>3. l[i].at = m[i].at
    BY DEF Halves
  <2> QED
    BY <1>2, <1>4, <2>1, <2>2, <2>3 DEF Mergeable, adjacent
<1>5. CASE k = i
  <2>1. k + 1 \in (i + 1)..Len(m) /\ k + 1 \in 1..(Len(l) - 1) /\ ~ (k < i)
    BY <1>1, <1>5
  <2>2. l[k + 1 + 1] = m[k + 1]
    BY <2>1 DEF Differ
  <2>3. m[i] \in Block /\ l[i] \in Block /\ l[i + 1] \in Block
    BY <1>1, <1>5
  <2>4. m[i].at + HDR + m[i].size = l[i + 1].at + HDR + l[i + 1].size
    BY <2>3, HalvesEnd
  <2> QED
    BY <1>2, <1>5, <2>1, <2>2, <2>4 DEF Mergeable, adjacent
<1>6. CASE k > i
  <2>1. k \in (i + 1)..Len(m) /\ k + 1 \in (i + 1)..Len(m) /\ k + 1 \in 1..(Len(l) - 1) /\ ~ (k < i)
    BY <1>1, <1>6
  <2>2. l[k + 1] = m[k] /\ l[k + 1 + 1] = m[k + 1]
    BY <2>1 DEF Differ
  <2> QED
    BY <1>2, <2>1, <2>2 DEF Mergeable, adjacent
<1> QED
  BY <1>1, <1>3, <1>4, <1>5, <1>6

\* Splitting free block i and using its first half adds no such neighbours,
\* and takes away the one before it.
LEMMA TakeMerge ==
  ASSUME NEW l \in Seq(Block), NEW m \in Seq(Block), NEW i \in 1..Len(l), Differ(l, m, i, 1),
         Halves(l[i], m[i], m[i + 1]), l[i].free, ~m[i].free,
         NEW k, Mergeable(m, k)
  PROVE  \E p : p # i - 1 /\ Mergeable(l, p)
<1>1. Len(l) \in Nat /\ Len(m) = Len(l) + 1 /\ k \in 1..(Len(m) - 1)
  BY DEF Differ, Mergeable
<1>2. m[k].free /\ m[k + 1].free /\ m[k + 1].at = m[k].at + HDR + m[k].size
  BY DEF Mergeable, adjacent
<1>3. k # i /\ k + 1 # i
  BY <1>2
<1>4. CASE k + 1 < i
  <2>1. k \in 1..(i - 1) /\ k + 1 \in 1..(i - 1) /\ k \in 1..(Len(l) - 1) /\ k # i - 1
    BY <1>1, <1>4
  <2>2. l[k] = m[k] /\ l[k + 1] = m[k + 1]
    BY <2>1 DEF Differ
  <2>3. Mergeable(l, k)
    BY <1>2, <2>1, <2>2 DEF Mergeable, adjacent
  <2> QED
    BY <2>1, <2>3
<1>5. CASE k = i + 1
  <2>1. i + 1 \in (i + 1)..Len(l) /\ i \in 1..(Len(l) - 1) /\ i # i - 1
    BY <1>1, <1>5
  <2>2. m[i + 1 + 1] = l[i + 1]
    BY <2>1 DEF Differ
  <2>3. l[i] \in Block /\ m[i] \in Block /\ m[i + 1] \in Block
    BY <1>1, <1>5
  <2>4. l[i].at + HDR + l[i].size = m[i + 1].at + HDR + m[i + 1].size
    BY <2>3, HalvesEnd
  <2>5. l[i + 1].free /\ l[i + 1].at = l[i].at + HDR + l[i].size
    BY <1>2, <1>5, <2>2, <2>4
  <2>6. Mergeable(l, i)
    BY <2>1, <2>5 DEF Mergeable, adjacent
  <2> QED
    BY <2>1, <2>6
<1>6. CASE k > i + 1
  <2> DEFINE p == k - 1
  <2>1. p \in (i + 1)..Len(l) /\ p + 1 \in (i + 1)..Len(l) /\ p \in 1..(Len(l) - 1) /\ p # i - 1 /\ p + 1 = k
    BY <1>1, <1>6
  <2> HIDE DEF p
  <2>2. m[p + 1] = l[p] /\ m[p + 1 + 1] = l[p + 1]
    BY <2>1 DEF Differ
  <2>3. l[p] = m[k] /\ l[p + 1] = m[k + 1]
    BY <2>1, <2>2
  <2>4. Mergeable(l, p)
    BY <1>2, <2>1, <2>3 DEF Mergeable, adjacent
  <2> QED
    BY <2>1, <2>4
<1> QED
  BY <1>1, <1>3, <1>4, <1>5, <1>6

\* A change of the flag of block i concerns block i and the one before it.
LEMMA MarkMerge ==
  ASSUME NEW l \in Seq(Block), NEW m \in Seq(Block), NEW i \in 1..Len(l), Differ(l, m, i, 0),
         NEW k, Mergeable(m, k), k # i, k + 1 # i
  PROVE  Mergeable(l, k)
<1>1. Len(l) \in Nat /\ Len(m) = Len(l) /\ k \in 1..(Len(m) - 1)
  BY DEF Differ, Mergeable
<1>2. ASSUME NEW j \in 1..Len(l), j # i
      PROVE  m[j] = l[j]
  <2>1. CASE j < i
    BY <1>1, <1>2, <2>1 DEF Differ
  <2>2. CASE ~ (j < i)
    <3>1. j \in (i + 1)..Len(l) /\ j + 0 = j
      BY <1>1, <1>2, <2>2
    <3>2. m[j + 0] = l[j]
      BY <3>1 DEF Differ
    <3> QED
      BY <3>1, <3>2
  <2> QED
    BY <2>1, <2>2
<1>3. k \in 1..Len(l) /\ k + 1 \in 1..Len(l) /\ k \in 1..(Len(l) - 1)
  BY <1>1
<1>4. m[k] = l[k] /\ m[k + 1] = l[k + 1]
  BY <1>2, <1>3
<1> QED
  BY <1>3, <1>4 DEF Mergeable, adjacent


-----------------------------------------------------------------------------
(* What kmalloc and kfree do to the list *)

LEMMA TakeResult ==
  ASSUME NEW l, NEW R, Laid(l, R), NEW i \in 1..Len(l), l[i].free,
         NEW size \in Nat, l[i].size >= size, size >= 16, size % 16 = 0
  PROVE  /\ Laid(Take(l, i, size), R) /\ i \in 1..Len(Take(l, i, size))
         /\ ~Take(l, i, size)[i].free
         /\ Take(l, i, size)[i].at = l[i].at
         /\ Take(l, i, size)[i].size >= size /\ Take(l, i, size)[i].size <= l[i].size
         /\ Total(Spans(Take(l, i, size))) = Total(Spans(l))
         /\ Total(Charges(Take(l, i, size))) = Total(Charges(l)) + Take(l, i, size)[i].size
         /\ Live(Take(l, i, size)) = Live(l) \union {Rng(Take(l, i, size)[i])}
         /\ \A k : Mergeable(Take(l, i, size), k) => \E p : p # i - 1 /\ Mergeable(l, p)
<1> DEFINE m == Take(l, i, size)
           b == l[i]
<1>1. l \in Seq(Block) /\ b \in Block /\ Shaped(b) /\ Len(l) \in Nat
  BY DEF Laid
<1>2. b.at \in Nat /\ b.size \in Nat /\ HDR \in Nat /\ Span(b) = HDR + b.size
  BY <1>1, BlockNum
<1>3. b.at % 16 = 0 /\ b.size % 16 = 0 /\ HDR % 16 = 0
  BY <1>1, HeapConstants DEF Shaped, Grain
<1>4. b.size >= size /\ b.free
  OBVIOUS
<1>5. Total(Spans(l)) \in Nat /\ Total(Charges(l)) \in Nat /\ Live(l) = OtherLive(l, i)
  <2>1. Spans(l) \in Seq(Nat) /\ Charges(l) \in Seq(Nat)
    BY <1>1, SpansSeq, ChargesSeq
  <2>2. Live(l) = OtherLive(l, i)
    BY <1>1, LiveAt DEF Own
  <2> QED
    BY <2>1, <2>2, TotalNat
<1>6. CASE b.size - size >= HDR + 16
  <2> DEFINE x == [at |-> b.at, size |-> size, free |-> FALSE]
             y == [at |-> b.at + HDR + size, size |-> b.size - size - HDR, free |-> TRUE]
  <2>1. m \in Seq(Block) /\ Differ(l, m, i, 1) /\ m[i] = x /\ m[i + 1] = y
    BY <1>1, <1>6, TakeSplits DEF Grain
  <2>2. i \in 1..Len(m) /\ i + 1 \in 1..Len(m)
    BY <1>1, <2>1 DEF Differ
  <2> HIDE DEF m, b
  <2>3. /\ x.at = b.at /\ x.size = size /\ ~x.free
        /\ y.at = b.at + HDR + size /\ y.size = b.size - size - HDR /\ y.free
        /\ x \in Block /\ y \in Block
    <3>1. b.at + HDR + size \in Nat /\ b.size - size - HDR \in Nat
      BY <1>2, <1>6
    <3>2. x \in Block /\ y \in Block
      BY <1>2, <3>1, BlockMake
    <3> QED
      BY <3>2
  <2> HIDE DEF x, y
  <2>4. Span(x) = HDR + size /\ Span(y) = HDR + (b.size - size - HDR)
    BY <2>3 DEF Span
  <2>5. Halves(b, x, y)
    BY <1>2, <1>6, <2>3, <2>4 DEF Halves
  <2>6. Shaped(x) /\ Shaped(y)
    <3>1. (b.at + HDR + size) % 16 = 0
      BY <1>2, <1>3
    <3>2. (b.size - size - HDR) % 16 = 0 /\ b.size - size - HDR >= 16
      BY <1>2, <1>3, <1>6, Minus16
    <3> QED
      BY <1>3, <2>3, <3>1, <3>2 DEF Shaped
  <2>7. Laid(m, R)
    BY <1>1, <2>1, <2>5, <2>6, LaidSplit DEF b
  <2>8. Charge(b) = 0 /\ Charge(x) = size /\ Charge(y) = 0
    BY <1>4, <2>3 DEF Charge
  <2>9. /\ Total(Spans(m)) + Span(b) = Total(Spans(l)) + (Span(x) + Span(y))
        /\ Total(Charges(m)) + Charge(b) = Total(Charges(l)) + (Charge(x) + Charge(y))
    BY <1>1, <2>1, ListSplit DEF b
  <2>10. Total(Spans(m)) \in Nat /\ Total(Charges(m)) \in Nat
    BY <2>1, SpansSeq, ChargesSeq, TotalNat
  <2>11. Total(Spans(m)) = Total(Spans(l)) /\ Total(Charges(m)) = Total(Charges(l)) + size
    <3>1. Span(x) + Span(y) = Span(b) /\ Span(b) \in Nat
      BY <1>2, <2>5 DEF Halves
    <3> QED
      BY <1>5, <2>8, <2>9, <2>10, <3>1
  <2>12. Live(m) = Live(l) \union {Rng(x)}
    BY <1>1, <1>5, <2>1, <2>3, LiveSplit DEF Own
  <2>13. \A k : Mergeable(m, k) => \E p : p # i - 1 /\ Mergeable(l, p)
    BY <1>1, <1>4, <2>1, <2>3, <2>5, TakeMerge DEF b
  <2>14. size <= b.size /\ size >= size
    BY <1>2, <1>4
  <2> QED
    BY <2>1, <2>2, <2>3, <2>7, <2>11, <2>12, <2>13, <2>14 DEF m, b
<1>7. CASE ~ (b.size - size >= HDR + 16)
  <2> DEFINE x == [at |-> b.at, size |-> b.size, free |-> FALSE]
  <2>1. m \in Seq(Block) /\ Differ(l, m, i, 0) /\ m[i] = x
    BY <1>1, <1>7, TakeWhole DEF Grain
  <2>2. i \in 1..Len(m)
    BY <1>1, <2>1 DEF Differ
  <2> HIDE DEF m, b
  <2>3. x.at = b.at /\ x.size = b.size /\ ~x.free
    OBVIOUS
  <2> HIDE DEF x
  <2>4. Laid(m, R)
    BY <1>1, <2>1, <2>3, LaidMark DEF b
  <2>5. Charge(b) = 0 /\ Charge(x) = b.size /\ Span(x) = Span(b) /\ Span(b) \in Nat
    BY <1>2, <1>4, <2>3 DEF Charge, Span
  <2>6. /\ Total(Spans(m)) + Span(b) = Total(Spans(l)) + Span(x)
        /\ Total(Charges(m)) + Charge(b) = Total(Charges(l)) + Charge(x)
    BY <1>1, <2>1, ListReplace DEF b
  <2>7. Total(Spans(m)) \in Nat /\ Total(Charges(m)) \in Nat
    BY <2>1, SpansSeq, ChargesSeq, TotalNat
  <2>8. Total(Spans(m)) = Total(Spans(l)) /\ Total(Charges(m)) = Total(Charges(l)) + b.size
    BY <1>2, <1>5, <2>5, <2>6, <2>7
  <2>9. Live(m) = Live(l) \union {Rng(x)}
    BY <1>1, <1>5, <2>1, <2>3, LiveReplace DEF Own
  <2>10. ASSUME NEW k, Mergeable(m, k) PROVE \E p : p # i - 1 /\ Mergeable(l, p)
    <3>1. k \in Nat /\ m[k].free /\ m[k + 1].free
      BY <2>10 DEF Mergeable
    <3>2. k # i /\ k + 1 # i
      BY <2>1, <2>3, <3>1
    <3>3. Mergeable(l, k)
      BY <1>1, <2>1, <2>10, <3>2, MarkMerge
    <3> QED
      BY <3>1, <3>2, <3>3
  <2>11. b.size <= b.size
    BY <1>2
  <2> QED
    BY <1>4, <2>1, <2>2, <2>3, <2>4, <2>8, <2>9, <2>10, <2>11 DEF m, b
<1> QED
  BY <1>6, <1>7

LEMMA JoinResult ==
  ASSUME NEW l, NEW R, Laid(l, R), NEW i, Mergeable(l, i)
  PROVE  /\ Laid(Join(l, i), R)
         /\ Total(Spans(Join(l, i))) = Total(Spans(l))
         /\ Total(Charges(Join(l, i))) = Total(Charges(l))
         /\ Live(Join(l, i)) = Live(l)
         /\ \A k : Mergeable(Join(l, i), k) => Mergeable(l, IF k < i THEN k ELSE k + 1)
<1> DEFINE m == Join(l, i)
           b == l[i]
           c == l[i + 1]
           w == [at |-> b.at, size |-> b.size + HDR + c.size, free |-> b.free]
<1>1. /\ l \in Seq(Block) /\ Len(l) \in Nat /\ i \in 1..(Len(l) - 1) /\ i \in 1..Len(l) /\ i + 1 \in 1..Len(l)
      /\ b.free /\ c.free /\ c.at = b.at + HDR + b.size
  BY DEF Laid, Mergeable, adjacent
<1>2. b \in Block /\ c \in Block /\ Shaped(b) /\ Shaped(c)
  BY <1>1 DEF Laid
<1>3. m \in Seq(Block) /\ Differ(m, l, i, 1) /\ i \in 1..Len(m) /\ m[i] = w
  BY <1>1, JoinSpec
<1> HIDE DEF m, b, c
<1>4. /\ b.at \in Nat /\ b.size \in Nat /\ HDR \in Nat /\ c.size \in Nat /\ c.at \in Nat
      /\ Span(b) = HDR + b.size /\ Span(c) = HDR + c.size
  BY <1>2, BlockNum
<1>5. /\ b.at % 16 = 0 /\ b.size % 16 = 0 /\ HDR % 16 = 0 /\ c.size % 16 = 0 /\ b.size >= 16
  BY <1>2, HeapConstants DEF Shaped, Grain
<1>6. /\ w.at = b.at /\ w.size = b.size + HDR + c.size /\ w.free /\ w \in Block
      /\ w.size \in Nat
  <2>1. b.size + HDR + c.size \in Nat /\ b.free \in BOOLEAN
    BY <1>2, <1>4, BlockNum
  <2>2. w \in Block
    BY <1>4, <2>1, BlockMake
  <2> QED
    BY <1>1, <2>1, <2>2
<1> HIDE DEF w
<1>7. Span(w) = HDR + (b.size + HDR + c.size)
  BY <1>6 DEF Span
<1>8. Halves(w, b, c)
  BY <1>1, <1>4, <1>6, <1>7 DEF Halves
<1>9. Shaped(w)
  <2>1. (b.size + HDR + c.size) % 16 = 0 /\ b.size + HDR + c.size >= 16
    BY <1>4, <1>5
  <2> QED
    BY <1>5, <1>6, <2>1 DEF Shaped
<1>10. Laid(m, R)
  BY <1>1, <1>3, <1>8, <1>9, LaidJoin DEF b, c
<1>11. /\ Total(Spans(l)) + Span(w) = Total(Spans(m)) + (Span(b) + Span(c))
       /\ Total(Charges(l)) + Charge(w) = Total(Charges(m)) + (Charge(b) + Charge(c))
  BY <1>1, <1>3, ListSplit DEF b, c
<1>12. /\ Total(Spans(m)) \in Nat /\ Total(Charges(m)) \in Nat
       /\ Total(Spans(l)) \in Nat /\ Total(Charges(l)) \in Nat
  BY <1>1, <1>3, SpansSeq, ChargesSeq, TotalNat
<1>13. Charge(b) = 0 /\ Charge(c) = 0 /\ Charge(w) = 0 /\ Own(b) = {} /\ Own(c) = {} /\ Own(w) = {}
  BY <1>1, <1>6 DEF Charge, Own
<1>14. Total(Spans(m)) = Total(Spans(l)) /\ Total(Charges(m)) = Total(Charges(l))
  <2>1. Span(b) + Span(c) = Span(w) /\ Span(w) \in Nat
    BY <1>4, <1>7
  <2> QED
    BY <1>11, <1>12, <1>13, <2>1
<1>15. Live(m) = Live(l)
  <2>1. Live(m) = OtherLive(m, i) \union Own(w)
    BY <1>3, LiveAt
  <2>2. Live(l) = OtherLive(m, i) \union Own(b) \union Own(c)
    BY <1>1, <1>3, LiveSplit DEF b, c
  <2> QED
    BY <1>13, <2>1, <2>2
<1>16. \A k : Mergeable(m, k) => Mergeable(l, IF k < i THEN k ELSE k + 1)
  BY <1>1, <1>3, <1>8, JoinMerge DEF b, c
<1> QED
  BY <1>10, <1>14, <1>15, <1>16 DEF m


\* kfree: the flag is cleared, and the block is merged with both neighbours.
Freed(l, i) == MergePrev(MergeNext([l EXCEPT ![i].free = TRUE], i), i)

LEMMA FreeResult ==
  ASSUME NEW l, NEW R, Laid(l, R), \A k : ~Mergeable(l, k), NEW i \in 1..Len(l), ~l[i].free,
         NEW z, z = Freed(l, i)
  PROVE  /\ Laid(z, R) /\ \A k : ~Mergeable(z, k)
         /\ Total(Spans(z)) = Total(Spans(l))
         /\ Total(Charges(z)) + l[i].size = Total(Charges(l))
         /\ Live(z) = Live(l) \ {Rng(l[i])} /\ Rng(l[i]) \in Live(l)
<1> DEFINE b == l[i]
           x == [b EXCEPT !.free = TRUE]
           m == [l EXCEPT ![i] = x]
           n == MergeNext(m, i)
<1>1. l \in Seq(Block) /\ Len(l) \in Nat /\ b \in Block /\ ~b.free
  BY DEF Laid
<1>2. z = MergePrev(n, i)
  BY DEF Freed
<1>3. x = [at |-> b.at, size |-> b.size, free |-> TRUE]
  <2> HIDE DEF b
  <2>1. 0 \in Nat
    OBVIOUS
  <2> QED
    BY <1>1, <2>1, BlockWith
<1>4. b.at \in Nat /\ b.size \in Nat /\ HDR \in Nat
  BY <1>1, BlockNum
<1>5. x \in Block /\ x.at = b.at /\ x.size = b.size /\ x.free
  <2> HIDE DEF x, b
  <2>1. x \in Block
    BY <1>3, <1>4, BlockMake
  <2> QED
    BY <1>3, <2>1
<1> HIDE DEF x
<1>6. m \in Seq(Block) /\ Differ(l, m, i, 0) /\ m[i] = x
  <2>1. m \in Seq(Block)
    BY <1>1, <1>5, ReplaceSpec
  <2>2. Differ(l, m, i, 0) /\ m[i] = x
    BY <1>1, <1>5, ReplaceDiffer
  <2> QED
    BY <2>1, <2>2
<1> HIDE DEF m
<1>7. Laid(m, R)
  BY <1>1, <1>5, <1>6, LaidMark
<1>8. \A k : Mergeable(m, k) => k = i \/ k = i - 1
  <2> SUFFICES ASSUME NEW k, Mergeable(m, k), k # i, k # i - 1
               PROVE  FALSE
    OBVIOUS
  <2>1. k \in Nat /\ k + 1 # i
    BY DEF Mergeable
  <2>2. Mergeable(l, k)
    BY <1>1, <1>6, <2>1, MarkMerge
  <2> QED
    BY <2>2
<1>9. Total(Spans(m)) = Total(Spans(l)) /\ Total(Charges(m)) + b.size = Total(Charges(l))
  <2>1. /\ Total(Spans(m)) + Span(b) = Total(Spans(l)) + Span(x)
        /\ Total(Charges(m)) + Charge(b) = Total(Charges(l)) + Charge(x)
    BY <1>1, <1>6, ListReplace
  <2>2. /\ Total(Spans(m)) \in Nat /\ Total(Charges(m)) \in Nat
        /\ Total(Spans(l)) \in Nat /\ Total(Charges(l)) \in Nat
    BY <1>1, <1>6, SpansSeq, ChargesSeq, TotalNat
  <2> HIDE DEF b
  <2>3. Charge(x) = 0 /\ Charge(b) = b.size /\ Span(x) = Span(b) /\ Span(b) \in Nat
    BY <1>1, <1>4, <1>5 DEF Charge, Span
  <2> QED
    BY <1>4, <2>1, <2>2, <2>3
<1>10. Live(m) = Live(l) \ {Rng(b)} /\ Rng(b) \in Live(l)
  <2>1. Live(m) = OtherLive(l, i) \union Own(x)
    BY <1>1, <1>6, LiveReplace
  <2>2. Live(l) = OtherLive(l, i) \union Own(b)
    BY <1>1, LiveAt
  <2>3. Own(x) = {} /\ Own(b) = {Rng(b)}
    BY <1>1, <1>5 DEF Own
  <2>4. Rng(b) \notin OtherLive(l, i)
    BY LiveOnce
  <2> HIDE DEF b
  <2> QED
    BY <2>1, <2>2, <2>3, <2>4
<1>11. /\ Laid(n, R)
       /\ Total(Spans(n)) = Total(Spans(m)) /\ Total(Charges(n)) = Total(Charges(m))
       /\ Live(n) = Live(m)
       /\ \A k : Mergeable(n, k) => k = i - 1
  <2>1. CASE Mergeable(m, i)
    <3>1. n = Join(m, i)
      BY <2>1 DEF MergeNext
    <3>2. \A k : Mergeable(n, k) => Mergeable(m, IF k < i THEN k ELSE k + 1)
      BY <1>7, <2>1, <3>1, JoinResult
    <3>3. ASSUME NEW k, Mergeable(n, k) PROVE k = i - 1
      <4>1. k \in Nat
        BY <3>3 DEF Mergeable
      <4>2. CASE k < i
        BY <1>8, <3>2, <3>3, <4>1, <4>2
      <4>3. CASE ~ (k < i)
        <5>1. Mergeable(m, k + 1)
          BY <3>2, <3>3, <4>3
        <5>2. k + 1 = i \/ k + 1 = i - 1
          BY <1>8, <5>1
        <5> QED
          BY <4>1, <4>3, <5>2
      <4> QED
        BY <4>2, <4>3
    <3>4. /\ Laid(n, R)
          /\ Total(Spans(n)) = Total(Spans(m)) /\ Total(Charges(n)) = Total(Charges(m))
          /\ Live(n) = Live(m)
      BY <1>7, <2>1, <3>1, JoinResult
    <3> QED
      BY <3>3, <3>4
  <2>2. CASE ~ Mergeable(m, i)
    <3>1. n = m
      BY <2>2 DEF MergeNext
    <3> QED
      BY <1>7, <1>8, <2>2, <3>1
  <2> QED
    BY <2>1, <2>2
<1> HIDE DEF n
<1>12. /\ Laid(z, R)
       /\ Total(Spans(z)) = Total(Spans(n)) /\ Total(Charges(z)) = Total(Charges(n))
       /\ Live(z) = Live(n)
       /\ \A k : ~Mergeable(z, k)
  <2> DEFINE p == i - 1
  <2>1. CASE Mergeable(n, p)
    <3>1. z = Join(n, p)
      BY <1>2, <2>1 DEF MergePrev
    <3> HIDE DEF p
    <3>2. \A k : Mergeable(z, k) => Mergeable(n, IF k < p THEN k ELSE k + 1)
      BY <1>11, <2>1, <3>1, JoinResult
    <3>3. ASSUME NEW k, Mergeable(z, k) PROVE FALSE
      <4>1. k \in Nat /\ p \in Nat
        BY <3>3 DEF Mergeable, p
      <4>2. (IF k < p THEN k ELSE k + 1) = p
        BY <1>11, <3>2, <3>3 DEF p
      <4> QED
        BY <4>1, <4>2
    <3>4. /\ Laid(z, R)
          /\ Total(Spans(z)) = Total(Spans(n)) /\ Total(Charges(z)) = Total(Charges(n))
          /\ Live(z) = Live(n)
      BY <1>11, <2>1, <3>1, JoinResult
    <3> QED
      BY <3>3, <3>4
  <2>2. CASE ~ Mergeable(n, p)
    <3>1. z = n
      BY <1>2, <2>2 DEF MergePrev
    <3> QED
      BY <1>11, <2>2, <3>1
  <2> QED
    BY <2>1, <2>2
<1> QED
  BY <1>9, <1>10, <1>11, <1>12


\* region_alloc: a new region is large enough for the request.
LEMMA RegionFits ==
  ASSUME NEW size \in Nat, size >= 16
  PROVE  /\ FramesFor(size) \in Nat
         /\ FramesFor(size) * FRAME_SIZE >= HDR + size
         /\ FramesFor(size) * FRAME_SIZE >= HDR + 16
<1> DEFINE a == HDR + size + FRAME_SIZE - 1
           q == a \div FRAME_SIZE
<1>1. HDR \in Nat /\ FRAME_SIZE \in Nat \ {0} /\ a \in Nat
  BY HeapConstants
<1>2. a = HDR + size + FRAME_SIZE - 1
  OBVIOUS
<1>3. FramesFor(size) = q
  BY DEF FramesFor
<1> HIDE DEF a
<1>4. q \in Nat /\ a < q * FRAME_SIZE + FRAME_SIZE
  BY <1>1, DivBounds
<1> HIDE DEF q
<1> DEFINE w == q * FRAME_SIZE
<1>5. w \in Nat /\ a < w + FRAME_SIZE
  BY <1>4, FrameOrder
<1> HIDE DEF w
<1>6. w >= HDR + size /\ w >= HDR + 16
  BY <1>1, <1>2, <1>5
<1> QED
  BY <1>3, <1>4, <1>6 DEF w

LEMMA AppendTotals ==
  ASSUME NEW l \in Seq(Block), NEW r \in Block
  PROVE  /\ Total(Spans(Append(l, r))) = Total(Spans(l)) + Span(r)
         /\ Total(Charges(Append(l, r))) = Total(Charges(l)) + Charge(r)
<1> DEFINE a == Append(l, r)
<1>1. /\ a \in Seq(Block) /\ Len(a) = Len(l) + 1 /\ a[Len(l) + 1] = r
      /\ \A j \in 1..Len(l) : a[j] = l[j]
  OBVIOUS
<1> HIDE DEF a
<1>2. Span(r) \in Nat /\ Charge(r) \in Nat
  BY BlockNum
<1>3. Spans(a) = Append(Spans(l), Span(r))
  <2> DEFINE s == Spans(a)
             u == Append(Spans(l), Span(r))
  <2>1. /\ s \in Seq(Nat) /\ Len(s) = Len(l) + 1 /\ Len(l) \in Nat
        /\ \A j \in 1..(Len(l) + 1) : s[j] = Span(a[j])
    BY <1>1, SpansSeq
  <2>2. /\ u \in Seq(Nat) /\ Len(u) = Len(l) + 1 /\ u[Len(l) + 1] = Span(r)
        /\ \A j \in 1..Len(l) : u[j] = Span(l[j])
    BY <1>2, SpansSeq
  <2> HIDE DEF s, u
  <2>3. \A j \in 1..(Len(l) + 1) : j = Len(l) + 1 \/ j \in 1..Len(l)
    BY <2>1
  <2>4. \A j \in 1..(Len(l) + 1) : s[j] = u[j]
    BY <1>1, <2>1, <2>2, <2>3
  <2>5. s = u
    BY <2>1, <2>2, <2>4, SeqEqual
  <2> QED
    BY <2>5 DEF s, u
<1>4. Charges(a) = Append(Charges(l), Charge(r))
  <2> DEFINE s == Charges(a)
             u == Append(Charges(l), Charge(r))
  <2>1. /\ s \in Seq(Nat) /\ Len(s) = Len(l) + 1 /\ Len(l) \in Nat
        /\ \A j \in 1..(Len(l) + 1) : s[j] = Charge(a[j])
    BY <1>1, ChargesSeq
  <2>2. /\ u \in Seq(Nat) /\ Len(u) = Len(l) + 1 /\ u[Len(l) + 1] = Charge(r)
        /\ \A j \in 1..Len(l) : u[j] = Charge(l[j])
    BY <1>2, ChargesSeq
  <2> HIDE DEF s, u
  <2>3. \A j \in 1..(Len(l) + 1) : j = Len(l) + 1 \/ j \in 1..Len(l)
    BY <2>1
  <2>4. \A j \in 1..(Len(l) + 1) : s[j] = u[j]
    BY <1>1, <2>1, <2>2, <2>3
  <2>5. s = u
    BY <2>1, <2>2, <2>4, SeqEqual
  <2> QED
    BY <2>5 DEF s, u
<1>5. Spans(l) \in Seq(Nat) /\ Charges(l) \in Seq(Nat)
  BY SpansSeq, ChargesSeq
<1> QED
  BY <1>2, <1>3, <1>4, <1>5, TotalAppend DEF a

\* kmalloc, when no free block is large enough: the new region is the block
\* that is used.
Grown(l, R, size, f, count, F, a) ==
  /\ Laid(l, R) /\ (\A k : ~Mergeable(l, k)) /\ size \in Nat /\ size >= 16
  /\ FirstFit(l, size) = 0 /\ f \in Nat /\ count = FramesFor(size)
  /\ F = f..(f + count - 1) /\ F \cap R = {}
  /\ a = Append(l, Region(f, count))

Ready(l, R, size, count, F, a) ==
  /\ Laid(a, R \union F)
  /\ FirstFit(a, size) \in 1..Len(a)
  /\ a[FirstFit(a, size)].free /\ a[FirstFit(a, size)].size >= size
  /\ Total(Spans(a)) = Total(Spans(l)) + count * FRAME_SIZE
  /\ Total(Charges(a)) = Total(Charges(l))
  /\ Live(a) = Live(l)
  /\ \A k : Mergeable(a, k) => k = FirstFit(a, size) - 1

LEMMA GrowResult ==
  ASSUME NEW l, NEW R, NEW size \in Nat, NEW f \in Nat, NEW count \in Nat, NEW F, NEW a,
         Grown(l, R, size, f, count, F, a)
  PROVE  Ready(l, R, size, count, F, a)
<1> USE DEF Grown
<1> DEFINE r == Region(f, count)
           i == FirstFit(a, size)
<1>1. count \in Nat /\ count * FRAME_SIZE >= HDR + size /\ count * FRAME_SIZE >= HDR + 16
  BY RegionFits
<1>2. l \in Seq(Block) /\ Len(l) \in Nat
  BY DEF Laid
<1>3. /\ Shaped(r) /\ r \in Block /\ r.free /\ Span(r) = count * FRAME_SIZE
      /\ r.size = count * FRAME_SIZE - HDR
  BY <1>1, RegionShape DEF Shaped
<1>4. r.size >= size
  <2> DEFINE w == count * FRAME_SIZE
  <2>1. w \in Nat /\ HDR \in Nat /\ w >= HDR + size /\ r.size = w - HDR
    BY <1>1, <1>3, FrameOrder, HeapConstants
  <2> HIDE DEF w
  <2> QED
    BY <2>1
<1>5. Laid(a, R \union F)
  BY <1>1, LaidAppend
<1> HIDE DEF r
<1>6. /\ a \in Seq(Block) /\ Len(a) = Len(l) + 1 /\ a[Len(l) + 1] = r
      /\ \A j \in 1..Len(l) : a[j] = l[j]
  BY <1>2, <1>3 DEF r
<1>7. i = Len(l) + 1 /\ i \in 1..Len(a) /\ a[i] = r
  <2>1. \A j \in 1..Len(l) : ~ (a[j].free /\ a[j].size >= size)
    BY <1>2, <1>6, FirstFitSpec
  <2>2. Len(l) + 1 \in 1..Len(a)
    BY <1>2, <1>6
  <2>3. i # 0
    BY <1>3, <1>4, <1>6, <2>2, FirstFitSpec
  <2>4. i \in 1..Len(a) /\ a[i].free /\ a[i].size >= size
    BY <1>6, <2>3, FirstFitSpec
  <2> HIDE DEF i
  <2>5. i = Len(l) + 1
    BY <1>2, <1>6, <2>1, <2>4
  <2> QED
    BY <1>6, <2>4, <2>5
<1>8. /\ Total(Spans(a)) = Total(Spans(l)) + Span(r)
      /\ Total(Charges(a)) = Total(Charges(l)) + Charge(r)
  BY <1>2, <1>3, AppendTotals DEF r
<1>9. Charge(r) = 0 /\ Own(r) = {} /\ Total(Charges(l)) \in Nat
  BY <1>2, <1>3, ChargesSeq, TotalNat DEF Charge, Own
<1> HIDE DEF i
<1>10. Live(a) = Live(l)
  <2>1. Live(a) = OtherLive(a, i) \union Own(r)
    BY <1>6, <1>7, LiveAt
  <2>2. 1..Len(a) \ {i} = 1..Len(l)
    BY <1>2, <1>6, <1>7
  <2>3. OtherLive(a, i) = UNION {Own(l[j]) : j \in 1..Len(l)}
    BY <1>6, <2>2 DEF OtherLive
  <2> QED
    BY <1>2, <1>9, <2>1, <2>3, LiveOwn
<1>11. \A k : Mergeable(a, k) => k = i - 1
  <2> SUFFICES ASSUME NEW k, Mergeable(a, k), k # i - 1
               PROVE  FALSE
    OBVIOUS
  <2>1. k \in 1..(Len(a) - 1) /\ a[k].free /\ a[k + 1].free /\ adjacent(a[k], a[k + 1])
    BY DEF Mergeable
  <2>2. k \in 1..(Len(l) - 1) /\ k \in 1..Len(l) /\ k + 1 \in 1..Len(l)
    BY <1>2, <1>6, <1>7, <2>1
  <2>3. Mergeable(l, k)
    BY <1>6, <2>1, <2>2 DEF Mergeable
  <2> QED
    BY <2>3
<1> QED
  BY <1>3, <1>4, <1>5, <1>7, <1>8, <1>9, <1>10, <1>11 DEF i, Ready


-----------------------------------------------------------------------------
(* The inductive invariant *)

HInv ==
  /\ HeapTypeOK
  /\ Laid(list, regions)
  /\ \A k : ~Mergeable(list, k)
  /\ regions \cap others = {}
  /\ Total(Spans(list)) = Cardinality(regions) * FRAME_SIZE
  /\ used_bytes = Total(Charges(list))
  /\ block_count = Len(list)

\* pmm_alloc_frames finds a run of free frames if there is one.
LEMMA FirstRunSpec ==
  ASSUME NEW count, RunExists(count)
  PROVE  /\ FirstRun(count) \in Frames
         /\ FirstRun(count)..(FirstRun(count) + count - 1) \subseteq Frames \ (regions \union others)
<1> DEFINE S == {f \in Frames : FreeRun(f, count)}
<1>1. S \in SUBSET Nat /\ S # {}
  BY DEF Frames, RunExists
<1>2. \E f \in S : \A g \in S : f <= g
  <2> HIDE DEF S
  <2> QED
    BY <1>1, LeastExists
<1>3. \E f \in Frames : FreeRun(f, count) /\ \A g \in Frames : FreeRun(g, count) => f <= g
  BY <1>2
<1>4. FirstRun(count) \in Frames /\ FreeRun(FirstRun(count), count)
  BY <1>3 DEF FirstRun
<1> QED
  BY <1>4 DEF FreeRun

\* What a call of kmalloc does, wherever it found the block: a range that
\* was not in use is in use, and the list, the frames and the counts agree.
Allocated(size, R) ==
  \E i \in 1..Len(list') :
    /\ Laid(list', R) /\ (\A k : ~Mergeable(list', k))
    /\ ~list'[i].free /\ list'[i].size >= size
    /\ Live(list') = Live(list) \union {Rng(list'[i])}
    /\ \A r \in Live(list) : r # Rng(list'[i]) /\ Alloc!Disjoint(Rng(list'[i]), r)
    /\ Total(Spans(list')) = Cardinality(R) * FRAME_SIZE
    /\ used_bytes' = Total(Charges(list'))
    /\ block_count' = Len(list')

LEMMA PayloadsApart ==
  \A h, p, s, q, u, v \in Nat :
    (p + (h + s) <= q \/ q + (h + u) <= p) /\ v <= s =>
      p + h + v <= q + h \/ q + h + u <= p + h
OBVIOUS

\* A free block, or a part of it, is disjoint from the ranges in use.
LEMMA LiveDisjoint ==
  ASSUME NEW l, NEW R, Laid(l, R), NEW i \in 1..Len(l), l[i].free,
         NEW c \in Block, c.at = l[i].at, c.size <= l[i].size, c.size >= 16,
         NEW r \in Live(l)
  PROVE  r # Rng(c) /\ Alloc!Disjoint(Rng(c), r)
<1>1. l \in Seq(Block)
  BY DEF Laid
<1>2. PICK j \in 1..Len(l) : r \in Own(l[j])
  BY <1>1, LiveOwn
<1>3. ~l[j].free /\ r = Rng(l[j]) /\ j # i
  BY <1>2 DEF Own
<1> DEFINE a == l[i]
           b == l[j]
<1>4. Apart(a, b) /\ Shaped(a) /\ Shaped(b)
  BY <1>3 DEF Laid
<1>5. c.at = a.at /\ c.size <= a.size
  OBVIOUS
<1> HIDE DEF a, b
<1>6. a \in Block /\ b \in Block /\ b.size >= 16
  BY <1>4 DEF Shaped
<1>7. /\ a.at \in Nat /\ a.size \in Nat /\ b.at \in Nat /\ b.size \in Nat
      /\ c.at \in Nat /\ c.size \in Nat /\ HDR \in Nat
      /\ Span(a) = HDR + a.size /\ Span(b) = HDR + b.size
  BY <1>6, BlockNum
<1>8. a.at + Span(a) <= b.at \/ b.at + Span(b) <= a.at
  BY <1>4 DEF Apart
<1>9. \/ c.at + HDR + c.size <= b.at + HDR
      \/ b.at + HDR + b.size <= c.at + HDR
  <2>1. \/ a.at + (HDR + a.size) <= b.at
        \/ b.at + (HDR + b.size) <= a.at
    BY <1>7, <1>8
  <2>2. \/ a.at + HDR + c.size <= b.at + HDR
        \/ b.at + HDR + b.size <= a.at + HDR
    BY <1>5, <1>7, <2>1, PayloadsApart
  <2> QED
    BY <1>5, <2>2
<1>10. /\ Rng(b).at = b.at + HDR /\ Rng(b).len = b.size
       /\ Rng(c).at = c.at + HDR /\ Rng(c).len = c.size
  BY DEF Rng
<1>11. Alloc!Disjoint(Rng(c), Rng(b))
  BY <1>9, <1>10 DEF Alloc!Disjoint
<1>12. Rng(b) # Rng(c)
  BY <1>6, <1>7, <1>9, <1>10
<1> QED
  BY <1>3, <1>11, <1>12 DEF b

LEMMA TakenStep ==
  ASSUME NEW l, NEW R, Laid(l, R), NEW size \in Nat, size >= 16, size % 16 = 0,
         FirstFit(l, size) \in 1..Len(l), l[FirstFit(l, size)].free,
         l[FirstFit(l, size)].size >= size,
         \A k : Mergeable(l, k) => k = FirstFit(l, size) - 1,
         Live(l) = Live(list), Total(Charges(l)) = used_bytes, used_bytes \in Nat,
         Total(Spans(l)) = Cardinality(R) * FRAME_SIZE,
         list \in Seq(Block), block_count = Len(list), Taken(l, size)
  PROVE  Allocated(size, R)
<1> DEFINE i == FirstFit(l, size)
           m == Take(l, i, size)
<1>1. /\ list' = m /\ used_bytes' = used_bytes + m[i].size
      /\ block_count' = block_count + (Len(m) - Len(list))
  BY DEF Taken
<1>2. i \in 1..Len(l) /\ l[i].free /\ l[i].size >= size
  OBVIOUS
<1> HIDE DEF i
<1>3. /\ Laid(m, R) /\ i \in 1..Len(m) /\ ~m[i].free
      /\ m[i].at = l[i].at /\ m[i].size >= size /\ m[i].size <= l[i].size
      /\ Total(Spans(m)) = Total(Spans(l)) /\ Total(Charges(m)) = Total(Charges(l)) + m[i].size
      /\ Live(m) = Live(l) \union {Rng(m[i])}
      /\ \A k : Mergeable(m, k) => \E p : p # i - 1 /\ Mergeable(l, p)
  BY <1>2, TakeResult
<1> HIDE DEF m
<1>4. \A k : ~Mergeable(m, k)
  BY <1>3 DEF i
<1>5. m \in Seq(Block) /\ m[i] \in Block /\ m[i].size >= 16
  BY <1>3 DEF Laid, Shaped
<1>6. \A r \in Live(l) : r # Rng(m[i]) /\ Alloc!Disjoint(Rng(m[i]), r)
  BY <1>2, <1>3, <1>5, LiveDisjoint
<1>7. block_count' = Len(m)
  BY <1>1, <1>5
<1>8. used_bytes' = Total(Charges(m))
  BY <1>1, <1>3
<1> QED
  BY <1>1, <1>3, <1>4, <1>6, <1>7, <1>8 DEF Allocated


LEMMA MallocStep ==
  ASSUME HInv, NEW n \in Requests, kmalloc(n)
  PROVE  /\ Allocated(Payload(n), regions')
         /\ regions' \subseteq Frames /\ regions' \cap others = {} /\ others' = others
<1> DEFINE size == Payload(n)
<1>1. size \in Nat /\ size >= 16 /\ size % 16 = 0
  BY PayloadSpec, HeapConstants DEF Grain
<1>2. /\ list \in Seq(Block) /\ used_bytes \in Nat /\ regions \subseteq Frames /\ others \subseteq Frames
      /\ Laid(list, regions) /\ (\A k : ~Mergeable(list, k)) /\ regions \cap others = {}
      /\ Total(Spans(list)) = Cardinality(regions) * FRAME_SIZE
      /\ Total(Charges(list)) = used_bytes /\ block_count = Len(list)
  BY DEF HInv, HeapTypeOK
<1>3. CASE FirstFit(list, size) # 0 /\ Taken(list, size) /\ UNCHANGED regions
  <2>1. /\ FirstFit(list, size) \in 1..Len(list) /\ list[FirstFit(list, size)].free
        /\ list[FirstFit(list, size)].size >= size
    BY <1>1, <1>2, <1>3, FirstFitSpec
  <2> HIDE DEF size
  <2>2. \A k : Mergeable(list, k) => k = FirstFit(list, size) - 1
    BY <1>2
  <2>3. Taken(list, size)
    BY <1>3
  <2>4. Allocated(size, regions)
    BY <1>1, <1>2, <2>1, <2>2, <2>3, TakenStep
  <2> QED
    BY <1>2, <1>3, <2>4 DEF size, kmalloc
<1> DEFINE count == FramesFor(size)
           f == FirstRun(count)
           F == f..(f + count - 1)
           a == Append(list, Region(f, count))
<1>4. CASE /\ FirstFit(list, size) = 0 /\ RunExists(count) /\ Taken(a, size)
           /\ regions' = regions \union F
  <2>1. f \in Frames /\ F \subseteq Frames \ (regions \union others)
    BY <1>4, FirstRunSpec
  <2>2. f \in Nat /\ count \in Nat /\ NFrames \in Nat
    BY <1>1, <2>1, RegionFits, HeapConstants DEF Frames
  <2>3. F \cap regions = {} /\ F \cap others = {} /\ F \subseteq Frames
    BY <2>1
  <2>4. /\ FirstFit(list, size) = 0 /\ Taken(a, size)
    BY <1>4
  <2>5. Cardinality(regions \union F) = Cardinality(regions) + count /\ Cardinality(regions) \in Nat
    <3>1. IsFiniteSet(Frames)
      BY <2>2, FS_Interval DEF Frames
    <3>2. IsFiniteSet(regions) /\ IsFiniteSet(F)
      BY <1>2, <2>3, <3>1, FS_Subset
    <3>3. Cardinality(F) = count
      <4>1. f \in Int /\ f + count - 1 \in Int
        BY <2>2
      <4>2. Cardinality(F) = IF f > f + count - 1 THEN 0 ELSE (f + count - 1) - f + 1
        BY <4>1, FS_Interval
      <4> QED
        BY <2>2, <4>2
    <3>4. Cardinality(regions \cap F) = 0 /\ Cardinality(regions) \in Nat
      BY <2>3, <3>2, FS_EmptySet, FS_CardinalityType
    <3>5. Cardinality(regions \union F) = Cardinality(regions) + Cardinality(F) - Cardinality(regions \cap F)
      <4> HIDE DEF F
      <4> QED
        BY <3>2, FS_Union
    <3> QED
      BY <2>2, <3>3, <3>4, <3>5
  <2>6. (Cardinality(regions) + count) * FRAME_SIZE = Cardinality(regions) * FRAME_SIZE + count * FRAME_SIZE
    BY <2>2, <2>5, FrameOrder
  <2>7. count = FramesFor(size) /\ a = Append(list, Region(f, count)) /\ F = f..(f + count - 1)
    OBVIOUS
  <2> HIDE DEF size, count, f, F, a
  <2>8. /\ Laid(a, regions \union F)
        /\ FirstFit(a, size) \in 1..Len(a)
        /\ a[FirstFit(a, size)].free /\ a[FirstFit(a, size)].size >= size
        /\ Total(Spans(a)) = Total(Spans(list)) + count * FRAME_SIZE
        /\ Total(Charges(a)) = Total(Charges(list))
        /\ Live(a) = Live(list)
        /\ \A k : Mergeable(a, k) => k = FirstFit(a, size) - 1
    <3>1. Grown(list, regions, size, f, count, F, a)
      BY <1>1, <1>2, <2>2, <2>3, <2>4, <2>7 DEF Grown
    <3>2. Ready(list, regions, size, count, F, a)
      BY <1>1, <2>2, <3>1, GrowResult
    <3> QED
      BY <3>2 DEF Ready
  <2>9. Total(Spans(a)) = Cardinality(regions \union F) * FRAME_SIZE
    BY <1>2, <2>5, <2>6, <2>8
  <2>10. Total(Charges(a)) = used_bytes
    BY <1>2, <2>8
  <2>11. Allocated(size, regions \union F)
    BY <1>1, <1>2, <2>4, <2>8, <2>9, <2>10, TakenStep
  <2> QED
    BY <1>2, <1>4, <2>3, <2>11 DEF size, kmalloc
<1> QED
  BY <1>3, <1>4 DEF kmalloc

LEMMA FreeStep ==
  ASSUME HInv, NEW i \in DOMAIN list, kfree(i)
  PROVE  /\ HInv'
         /\ Rng(list[i]) \in Live(list) /\ Live(list') = Live(list) \ {Rng(list[i])}
         /\ others' = others
<1>1. /\ list \in Seq(Block) /\ used_bytes \in Nat /\ regions \subseteq Frames /\ others \subseteq Frames
      /\ Laid(list, regions) /\ (\A k : ~Mergeable(list, k)) /\ regions \cap others = {}
      /\ Total(Spans(list)) = Cardinality(regions) * FRAME_SIZE
      /\ used_bytes = Total(Charges(list)) /\ block_count = Len(list)
  BY DEF HInv, HeapTypeOK
<1>2. i \in 1..Len(list) /\ ~list[i].free
  BY <1>1 DEF kfree
<1>3. list' = Freed(list, i)
  BY DEF kfree, Freed
<1>4. /\ Laid(list', regions) /\ (\A k : ~Mergeable(list', k))
      /\ Total(Spans(list')) = Total(Spans(list))
      /\ Total(Charges(list')) + list[i].size = Total(Charges(list))
      /\ Live(list') = Live(list) \ {Rng(list[i])} /\ Rng(list[i]) \in Live(list)
  BY <1>1, <1>2, <1>3, FreeResult
<1>5. list' \in Seq(Block) /\ Len(list') \in Nat
  BY <1>4 DEF Laid
<1>6. Total(Charges(list')) \in Nat /\ list[i].size \in Nat
  BY <1>1, <1>2, <1>5, ChargesSeq, TotalNat, BlockNum
<1>7. used_bytes' = Total(Charges(list'))
  <2>1. used_bytes' = used_bytes - list[i].size
    BY DEF kfree
  <2> QED
    BY <1>1, <1>4, <1>6, <2>1
<1>8. block_count' = Len(list')
  <2>1. block_count' = block_count - (Len(list) - Len(list')) /\ Len(list) \in Nat
    BY <1>1 DEF kfree
  <2> QED
    BY <1>1, <1>5, <2>1
<1>9. regions' = regions /\ others' = others
  BY DEF kfree
<1>10. HInv'
  BY <1>1, <1>4, <1>5, <1>6, <1>7, <1>8, <1>9 DEF HInv, HeapTypeOK
<1> QED
  BY <1>4, <1>9, <1>10

LEMMA AllocatedInv ==
  ASSUME HInv, NEW size, Allocated(size, regions'),
         regions' \subseteq Frames, regions' \cap others = {}, others' = others
  PROVE  HInv'
<1>1. /\ Laid(list', regions') /\ (\A k : ~Mergeable(list', k))
      /\ Total(Spans(list')) = Cardinality(regions') * FRAME_SIZE
      /\ used_bytes' = Total(Charges(list')) /\ block_count' = Len(list')
  BY DEF Allocated
<1>2. list' \in Seq(Block) /\ Len(list') \in Nat
  BY <1>1 DEF Laid
<1>3. Total(Charges(list')) \in Nat
  BY <1>2, ChargesSeq, TotalNat
<1>4. others \subseteq Frames
  BY DEF HInv, HeapTypeOK
<1> QED
  BY <1>1, <1>2, <1>3, <1>4 DEF HInv, HeapTypeOK

LEMMA OneRun ==
  ASSUME RunExists(1)
  PROVE  FirstRun(1) \in Frames \ (regions \union others)
<1> DEFINE f == FirstRun(1)
<1>1. f \in Frames /\ f..(f + 1 - 1) \subseteq Frames \ (regions \union others)
  BY FirstRunSpec
<1> HIDE DEF f
<1>2. f \in Nat
  BY <1>1 DEF Frames
<1>3. f \in f..(f + 1 - 1)
  BY <1>2
<1>4. f \in Frames \ (regions \union others)
  BY <1>1, <1>3
<1> QED
  BY <1>4 DEF f


-----------------------------------------------------------------------------
(* Theorems *)

LEMMA HInvInit ==
  HeapInit => HInv
<1> SUFFICES ASSUME HeapInit PROVE HInv
  OBVIOUS
<1>1. /\ list = <<>> /\ used_bytes = 0 /\ block_count = 0 /\ regions = {} /\ others = {}
  BY DEF HeapInit
<1>2. list \in Seq(Block) /\ Len(list) = 0 /\ 1..Len(list) = {}
  BY <1>1
<1>3. Laid(list, regions) /\ \A k : ~Mergeable(list, k)
  BY <1>2 DEF Laid, Mergeable
<1>4. \A s \in Seq(Nat) : Len(s) = 0 => Total(s) = 0
  BY TotalSums DEF Sums
<1>5. Total(Spans(list)) = 0 /\ Total(Charges(list)) = 0
  BY <1>2, <1>4, SpansSeq, ChargesSeq
<1>6. Cardinality(regions) * FRAME_SIZE = 0
  BY <1>1, FS_EmptySet, HeapConstants
<1>7. HeapTypeOK
  BY <1>1, <1>2 DEF HeapTypeOK
<1> QED
  BY <1>1, <1>2, <1>3, <1>5, <1>6, <1>7 DEF HInv

LEMMA HInvNext ==
  HInv /\ [HeapNext]_heapVars => HInv'
<1> SUFFICES ASSUME HInv, [HeapNext]_heapVars PROVE HInv'
  OBVIOUS
<1>1. ASSUME NEW n \in Requests, kmalloc(n) PROVE HInv'
  BY <1>1, MallocStep, AllocatedInv
<1>2. ASSUME NEW i \in DOMAIN list, kfree(i) PROVE HInv'
  BY <1>2, FreeStep
<1>3. ASSUME pmm_alloc_frame PROVE HInv'
  <2>1. /\ others' = others \union {FirstRun(1)} /\ UNCHANGED <<list, used_bytes, block_count, regions>>
        /\ FirstRun(1) \in Frames \ (regions \union others)
    BY <1>3, OneRun DEF pmm_alloc_frame
  <2> QED
    BY <2>1 DEF HInv, HeapTypeOK
<1>4. ASSUME NEW f \in Frames, pmm_free_frame(f) PROVE HInv'
  BY <1>4 DEF HInv, HeapTypeOK, pmm_free_frame
<1>5. CASE UNCHANGED heapVars
  BY <1>5 DEF HInv, HeapTypeOK, heapVars
<1> QED
  BY <1>1, <1>2, <1>3, <1>4, <1>5 DEF HeapNext

\* The invariant of the heap that the theorems below rest on.
THEOREM HeapInvariant == HeapSpec => []HInv
<1>1. HeapInit => HInv
  BY HInvInit
<1>2. HInv /\ [HeapNext]_heapVars => HInv'
  BY HInvNext
<1> QED
  BY <1>1, <1>2, PTL DEF HeapSpec

LEMMA TiledFrames ==
  ASSUME NEW b, NEW R, Shaped(b), Inside(b, R)
  PROVE  (b.at \div FRAME_SIZE)..((b.at + Span(b) - 1) \div FRAME_SIZE) \subseteq R
<1> DEFINE e == b.at + Span(b)
           p == b.at \div FRAME_SIZE
           c == b.at + Span(b) - 1
           q == c \div FRAME_SIZE
<1>1. b.at \in Nat /\ e \in Nat /\ e > 0 /\ FRAME_SIZE \in Nat \ {0} /\ c = e - 1
  <2>1. b \in Block /\ b.size >= 16
    BY DEF Shaped
  <2>2. b.at \in Nat /\ b.size \in Nat /\ HDR \in Nat /\ Span(b) = HDR + b.size
    BY <2>1, BlockNum
  <2> QED
    BY <2>1, <2>2, HeapConstants
<1> HIDE DEF e, c
<1>2. p \in Nat /\ b.at < p * FRAME_SIZE + FRAME_SIZE
  BY <1>1, DivBounds
<1>3. q \in Nat /\ q * FRAME_SIZE <= c
  <2>1. c \in Nat
    BY <1>1
  <2> QED
    BY <1>1, <2>1, DivBounds
<1> HIDE DEF p, q
<1>4. ASSUME NEW f \in p..q PROVE f \in R
  <2>1. f \in Nat /\ p <= f /\ f <= q
    BY <1>2, <1>3
  <2>2. /\ f * FRAME_SIZE \in Nat /\ p * FRAME_SIZE \in Nat /\ q * FRAME_SIZE \in Nat
        /\ p * FRAME_SIZE <= f * FRAME_SIZE /\ f * FRAME_SIZE <= q * FRAME_SIZE
    BY <1>2, <1>3, <2>1, FrameOrder
  <2> DEFINE x == p * FRAME_SIZE
             y == f * FRAME_SIZE
             z == q * FRAME_SIZE
  <2>3. x \in Nat /\ y \in Nat /\ z \in Nat /\ x <= y /\ y <= z
    BY <2>2
  <2>4. b.at < x + FRAME_SIZE /\ z <= c
    BY <1>2, <1>3
  <2> HIDE DEF x, y, z
  <2>5. y < e /\ b.at < y + FRAME_SIZE
    BY <1>1, <2>3, <2>4
  <2>6. Touches(b, f)
    BY <2>5 DEF Touches, y, e
  <2> QED
    BY <2>1, <2>6 DEF Inside
<1>5. p..q \subseteq R
  BY <1>4
<1> QED
  BY <1>5, Zenon DEF p, q, c

LEMMA HInvTiled ==
  HInv => Tiled
<1> SUFFICES ASSUME HInv PROVE Tiled
  OBVIOUS
<1>1. /\ list \in Seq(Block) /\ DOMAIN list = 1..Len(list) /\ ToSet(list) = {list[i] : i \in 1..Len(list)}
  BY DEF HInv, Laid, ToSet
<1>2. \A i, j \in DOMAIN list : i # j =>
        \/ list[i].at + Span(list[i]) <= list[j].at
        \/ list[j].at + Span(list[j]) <= list[i].at
  BY <1>1 DEF HInv, Laid, Apart
<1>3. \A i \in 1..Len(list) : Shaped(list[i]) /\ Inside(list[i], regions)
  BY DEF HInv, Laid
<1>4. \A b \in ToSet(list) :
        (b.at \div FRAME_SIZE)..((b.at + Span(b) - 1) \div FRAME_SIZE) \subseteq regions
  <2> TAKE b \in ToSet(list)
  <2>1. Shaped(b) /\ Inside(b, regions)
    BY <1>1, <1>3
  <2> QED
    BY <2>1, TiledFrames
<1> QED
  BY <1>2, <1>4 DEF HInv, Tiled

\* kmalloc, kfree and the growth of the heap keep the blocks exactly on the
\* heap's frames, and the counts that MemInfo prints exact.
THEOREM BlocksTile == HeapSpec => []Tiled
<1>1. HInv => Tiled
  BY HInvTiled
<1> QED
  BY <1>1, HeapInvariant, PTL

\* kfree's two merges, with the split of kmalloc, never leave two adjacent
\* free blocks, also where a new region continues the last one.
THEOREM AlwaysCoalesced == HeapSpec => []Coalesced
<1>1. HInv => Coalesced
  BY DEF HInv, Coalesced
<1> QED
  BY <1>1, HeapInvariant, PTL


-----------------------------------------------------------------------------
(* The heap implements the allocator *)

AllRanges ==
  [at: {Grain * k : k \in 0..(((NFrames + 1) * FRAME_SIZE) \div Grain)},
   len: {Grain * k : k \in 1..((NFrames * FRAME_SIZE) \div Grain)}]

AllocFrame(f) == [at |-> f * FRAME_SIZE, len |-> FRAME_SIZE]

LEMMA Sixteenths ==
  ASSUME NEW a \in Nat, NEW x \in Nat, a % 16 = 0, a <= x
  PROVE  a \div 16 \in Nat /\ a = 16 * (a \div 16) /\ a \div 16 <= x \div 16 /\ x \div 16 \in Nat
         /\ (a >= 16 => a \div 16 >= 1)
OBVIOUS

\* A block of the heap is in the pool.
LEMMA BlockBounds ==
  ASSUME NEW b, NEW R, Shaped(b), Inside(b, R), R \subseteq Frames
  PROVE  /\ b.at + HDR <= (NFrames + 1) * FRAME_SIZE
         /\ b.size <= NFrames * FRAME_SIZE
<1> DEFINE p == b.at \div FRAME_SIZE
           c == b.at + Span(b) - 1
           q == c \div FRAME_SIZE
<1>1. b \in Block /\ b.size >= 16
  BY DEF Shaped
<1>2. b.at \in Nat /\ b.size \in Nat /\ HDR \in Nat /\ Span(b) = HDR + b.size
  BY <1>1, BlockNum
<1>3. c \in Nat /\ c = b.at + HDR + b.size - 1 /\ b.at <= c
  BY <1>1, <1>2
<1>4. FRAME_SIZE \in Nat \ {0} /\ NFrames \in Nat
  BY HeapConstants
<1>5. p..q \subseteq R
  BY TiledFrames
<1> HIDE DEF c
<1>6. p \in Nat /\ p * FRAME_SIZE <= b.at /\ b.at < p * FRAME_SIZE + FRAME_SIZE
  BY <1>2, <1>4, DivBounds
<1>7. q \in Nat /\ q * FRAME_SIZE <= c /\ c < q * FRAME_SIZE + FRAME_SIZE
  BY <1>3, <1>4, DivBounds
<1> HIDE DEF p, q
<1> DEFINE x == p * FRAME_SIZE
           y == q * FRAME_SIZE
           n == NFrames * FRAME_SIZE
<1>8. x \in Nat /\ y \in Nat /\ n \in Nat /\ (NFrames + 1) * FRAME_SIZE = n + FRAME_SIZE
  BY <1>4, <1>6, <1>7, FrameOrder
<1>9. p <= q
  <2>1. x < (q + 1) * FRAME_SIZE
    <3>1. (q + 1) * FRAME_SIZE = y + FRAME_SIZE
      BY <1>7, FrameOrder
    <3>2. x <= b.at /\ c < y + FRAME_SIZE
      BY <1>6, <1>7
    <3> HIDE DEF x, y
    <3> QED
      BY <1>2, <1>3, <1>4, <1>8, <3>1, <3>2
  <2>2. q + 1 \in Nat
    BY <1>7
  <2>3. p < q + 1
    BY <1>6, <2>1, <2>2, FrameOrder
  <2> QED
    BY <1>6, <1>7, <2>3
<1>10. p \in Frames /\ q \in Frames
  BY <1>5, <1>6, <1>7, <1>9
<1>11. 1 <= p /\ q <= NFrames
  BY <1>10, <1>4 DEF Frames
<1>12. FRAME_SIZE <= x /\ y <= n
  <2>1. 1 * FRAME_SIZE <= x /\ y <= n
    BY <1>4, <1>6, <1>7, <1>11, Times
  <2> QED
    BY <1>4, <2>1
<1>13. x <= b.at /\ c < y + FRAME_SIZE
  BY <1>6, <1>7
<1> HIDE DEF x, y, n
<1>14. b.at + HDR + b.size <= n + FRAME_SIZE /\ FRAME_SIZE <= b.at
  BY <1>1, <1>2, <1>3, <1>4, <1>8, <1>12, <1>13
<1>15. b.at + HDR <= n + FRAME_SIZE /\ b.size <= n
  BY <1>2, <1>4, <1>8, <1>14
<1> QED
  BY <1>8, <1>15 DEF n

LEMMA RangeKnown ==
  ASSUME NEW b, NEW R, Shaped(b), Inside(b, R), R \subseteq Frames
  PROVE  Rng(b) \in AllRanges
<1> DEFINE a == b.at + HDR
           s == b.size
           x == (NFrames + 1) * FRAME_SIZE
           y == NFrames * FRAME_SIZE
<1>1. b \in Block /\ b.size >= 16 /\ b.at % 16 = 0 /\ b.size % 16 = 0
  BY DEF Shaped
<1>2. b.at \in Nat /\ b.size \in Nat /\ HDR \in Nat /\ HDR % 16 = 0 /\ NFrames \in Nat /\ NFrames + 1 \in Nat
  BY <1>1, BlockNum, HeapConstants DEF Grain
<1>3. a \in Nat /\ s \in Nat /\ a % 16 = 0 /\ s % 16 = 0 /\ s >= 16
  BY <1>1, <1>2
<1>4. x \in Nat /\ y \in Nat
  BY <1>2, FrameOrder
<1>5. a <= x /\ s <= y
  BY BlockBounds
<1>6. Rng(b) = [at |-> a, len |-> s]
  BY DEF Rng
<1> HIDE DEF a, s, x, y
<1>7. a \in {16 * k : k \in 0..(x \div 16)}
  <2>1. a \div 16 \in Nat /\ a = 16 * (a \div 16) /\ a \div 16 <= x \div 16 /\ x \div 16 \in Nat
    BY <1>3, <1>4, <1>5, Sixteenths
  <2>2. a \div 16 \in 0..(x \div 16)
    BY <2>1
  <2> QED
    BY <2>1, <2>2
<1>8. s \in {16 * k : k \in 1..(y \div 16)}
  <2>1. s \div 16 \in Nat /\ s = 16 * (s \div 16) /\ s \div 16 <= y \div 16 /\ y \div 16 \in Nat /\ s \div 16 >= 1
    BY <1>3, <1>4, <1>5, Sixteenths
  <2>2. s \div 16 \in 1..(y \div 16)
    BY <2>1
  <2> QED
    BY <2>1, <2>2
<1>9. [at |-> a, len |-> s] \in [at: {16 * k : k \in 0..(x \div 16)}, len: {16 * k : k \in 1..(y \div 16)}]
  BY <1>7, <1>8
<1> QED
  BY <1>6, <1>9 DEF AllRanges, Grain, x, y

\* A block is disjoint from the frames in which it has no byte.
LEMMA FrameDisjoint ==
  ASSUME NEW b, NEW R, Shaped(b), Inside(b, R), NEW f \in Nat, f \notin R
  PROVE  Alloc!Disjoint(Rng(b), AllocFrame(f))
<1> DEFINE w == f * FRAME_SIZE
           F == AllocFrame(f)
<1>1. b \in Block
  BY DEF Shaped
<1>2. b.at \in Nat /\ b.size \in Nat /\ HDR \in Nat /\ Span(b) = HDR + b.size
  BY <1>1, BlockNum
<1>3. w \in Nat /\ FRAME_SIZE \in Nat
  BY FrameOrder
<1>4. ~ (w < b.at + Span(b) /\ b.at < w + FRAME_SIZE)
  BY DEF Inside, Touches
<1>5. F.at = w /\ F.len = FRAME_SIZE /\ Rng(b).at = b.at + HDR /\ Rng(b).len = b.size
  BY DEF AllocFrame, Rng
<1> HIDE DEF w, F
<1>6. b.at + HDR + b.size <= w \/ w + FRAME_SIZE <= b.at + HDR
  BY <1>2, <1>3, <1>4
<1>7. Alloc!Disjoint(Rng(b), F)
  BY <1>5, <1>6 DEF Alloc!Disjoint
<1> QED
  BY <1>7 DEF F


LEMMA LiveList ==
  {[at |-> b.at + HDR, len |-> b.size] : b \in InUse} = Live(list)
BY DEF InUse, Live, Rng

\* The ranges in use are apart from the frames outside the heap.
LEMMA LiveFrames ==
  ASSUME HInv, NEW f \in Nat, f \notin regions, NEW r \in Live(list)
  PROVE  Alloc!Disjoint(r, AllocFrame(f))
<1>1. list \in Seq(Block) /\ \A i \in 1..Len(list) : Shaped(list[i]) /\ Inside(list[i], regions)
  BY DEF HInv, Laid
<1>2. PICK i \in 1..Len(list) : r \in Own(list[i])
  BY <1>1, LiveOwn
<1>3. r = Rng(list[i])
  BY <1>2 DEF Own
<1> QED
  BY <1>1, <1>3, FrameDisjoint

LEMMA MallocAllocates ==
  ASSUME HInv, NEW n \in Requests, kmalloc(n)
  PROVE  Alloc!Alloc(n)
<1>1. /\ Allocated(Payload(n), regions')
      /\ regions' \subseteq Frames /\ regions' \cap others = {} /\ others' = others
  BY MallocStep
<1>2. PICK i \in 1..Len(list') :
        /\ Laid(list', regions')
        /\ list'[i].size >= Payload(n)
        /\ Live(list') = Live(list) \union {Rng(list'[i])}
        /\ \A s \in Live(list) : s # Rng(list'[i]) /\ Alloc!Disjoint(Rng(list'[i]), s)
  BY <1>1 DEF Allocated
<1> DEFINE b == list'[i]
           r == Rng(b)
<1>3. Shaped(b) /\ Inside(b, regions')
  BY <1>2 DEF Laid
<1>4. r \in AllRanges
  BY <1>1, <1>3, RangeKnown
<1>5. r.len >= n
  <2>1. b \in Block /\ b.size >= Payload(n)
    BY <1>2, <1>3 DEF Shaped
  <2> HIDE DEF b
  <2>2. r.len = b.size
    BY DEF Rng
  <2>3. b.size \in Nat /\ n \in Nat /\ Payload(n) \in Nat /\ Payload(n) >= n
    BY <2>1, BlockNum, PayloadSpec, HeapConstants
  <2> QED
    BY <2>1, <2>2, <2>3
<1>6. \A f \in others : Alloc!Disjoint(r, AllocFrame(f))
  <2> TAKE f \in others
  <2>1. f \in Nat /\ f \notin regions'
    BY <1>1 DEF HInv, HeapTypeOK, Frames
  <2> QED
    BY <1>3, <2>1, FrameDisjoint
<1>7. r \in Live(list)' \ Live(list) /\ Live(list)' = Live(list) \union {r}
  BY <1>2
<1>8. \A s \in Live(list) : Alloc!Disjoint(r, s)
  BY <1>2
<1>9. Live(list) = {[at |-> c.at + HDR, len |-> c.size] : c \in InUse}
  BY LiveList
<1>10. Live(list)' = {[at |-> c.at + HDR, len |-> c.size] : c \in InUse}'
  BY DEF InUse, Live, Rng
<1> HIDE DEF r
<1> QED
  BY <1>1, <1>4, <1>5, <1>6, <1>7, <1>8, <1>9, <1>10 DEF Alloc!Alloc, AllRanges, AllocFrame

LEMMA StepAllocates ==
  ASSUME HInv, [HeapNext]_heapVars
  PROVE  [Alloc!Next]_<<{[at |-> b.at + HDR, len |-> b.size] : b \in InUse}, others>>
<1>1. ASSUME NEW n \in Requests, kmalloc(n) PROVE Alloc!Next
  BY <1>1, MallocAllocates DEF Alloc!Next
<1>2. ASSUME NEW i \in DOMAIN list, kfree(i) PROVE Alloc!Next
  <2>1. /\ Rng(list[i]) \in Live(list) /\ Live(list)' = Live(list) \ {Rng(list[i])}
        /\ others' = others
    BY <1>2, FreeStep
  <2>2. Live(list) = {[at |-> c.at + HDR, len |-> c.size] : c \in InUse}
    BY LiveList
  <2>3. Live(list)' = {[at |-> c.at + HDR, len |-> c.size] : c \in InUse}'
    BY DEF InUse, Live, Rng
  <2>4. Alloc!Free
    BY <2>1, <2>2, <2>3 DEF Alloc!Free
  <2> QED
    BY <2>4 DEF Alloc!Next
<1>3. ASSUME pmm_alloc_frame PROVE Alloc!Next
  <2> DEFINE f == FirstRun(1)
  <2>1. /\ f \in Frames \ (regions \union others)
        /\ others' = others \union {f} /\ list' = list
    BY <1>3, OneRun DEF pmm_alloc_frame
  <2> HIDE DEF f
  <2>2. f \in Nat
    BY <2>1 DEF Frames
  <2>3. \A r \in Live(list) : Alloc!Disjoint(r, AllocFrame(f))
    BY <2>1, <2>2, LiveFrames
  <2>4. Live(list) = {[at |-> c.at + HDR, len |-> c.size] : c \in InUse}
    BY LiveList
  <2>5. InUse' = InUse
    BY <2>1 DEF InUse
  <2>6. Alloc!TakeFrame(f)
    BY <2>1, <2>3, <2>4, <2>5 DEF Alloc!TakeFrame, AllocFrame
  <2> QED
    BY <2>1, <2>6 DEF Alloc!Next
<1>4. ASSUME NEW f \in Frames, pmm_free_frame(f) PROVE Alloc!Next
  <2>1. InUse' = InUse
    BY <1>4 DEF InUse, pmm_free_frame
  <2>2. Alloc!ReleaseFrame(f)
    BY <1>4, <2>1 DEF Alloc!ReleaseFrame, pmm_free_frame
  <2> QED
    BY <2>2 DEF Alloc!Next
<1>5. CASE UNCHANGED heapVars
  <2>1. InUse' = InUse /\ others' = others
    BY <1>5 DEF InUse, heapVars
  <2> QED
    BY <2>1
<1> QED
  BY <1>1, <1>2, <1>3, <1>4, <1>5 DEF HeapNext

\* The heap implements the allocator its callers rely on: kmalloc returns
\* memory that nobody else has, kfree gives back exactly one range, and what
\* the rest of the kernel takes from the pool is never memory in use.
THEOREM HeapImplementsAllocator == HeapSpec => ImplementsAllocator
<1>1. HeapInit => Alloc!Init
  <2> SUFFICES ASSUME HeapInit PROVE Alloc!Init
    OBVIOUS
  <2>1. list = <<>> /\ others = {}
    BY DEF HeapInit
  <2>2. InUse = {}
    BY <2>1 DEF InUse, ToSet
  <2> QED
    BY <2>1, <2>2 DEF Alloc!Init
<1>2. HInv /\ [HeapNext]_heapVars
        => [Alloc!Next]_<<{[at |-> b.at + HDR, len |-> b.size] : b \in InUse}, others>>
  BY StepAllocates
<1> QED
  BY <1>1, <1>2, HeapInvariant, PTL DEF HeapSpec, ImplementsAllocator, Alloc!Spec
=============================================================================
