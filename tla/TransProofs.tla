----------------------------- MODULE TransProofs -----------------------------
(***************************************************************************)
(* Proofs about the size of the transformer.                               *)
(***************************************************************************)
EXTENDS TransConfig, Lemmas

USE DEF Configs

-----------------------------------------------------------------------------
(* Sizes *)

\* The bytes whose KB working_kb returns.
WorkingBytes(c) ==
  workspace_bytes(c) + activations_bytes(c) + gradients_bytes(c) + weights_bytes_of(c)

\* The sizes as sums of multiples of products of the parameters.
LEMMA WeightsSum ==
  ASSUME NEW c \in Configs
  PROVE  weights_bytes_of(c) =
           TRANS_HDR + 2 * (TRANS_VOCAB * c.d_model) + 4 * (c.n_layers * (c.d_model * c.d_model))
             + 2 * (c.n_layers * (c.d_model * c.d_ff)) + 4 * (c.n_layers * c.d_model)
             + 2 * c.d_model
<1> DEFINE L == c.n_layers   D == c.d_model   F == c.d_ff   V == TRANS_VOCAB   H == TRANS_HDR
<1>1. L \in Nat /\ D \in Nat /\ F \in Nat /\ V \in Nat /\ H \in Nat
  BY TransAssumption
<1>2. weights_bytes_of(c) = H + 2 * V * D + L * (4 * D * D + 2 * D * F + 4 * D) + 2 * D
  BY DEF weights_bytes_of, lay_size
<1> HIDE DEF L, D, F, V, H
<1>3. H + 2 * V * D + L * (4 * D * D + 2 * D * F + 4 * D) + 2 * D
        = H + 2 * (V * D) + 4 * (L * (D * D)) + 2 * (L * (D * F)) + 4 * (L * D) + 2 * D
  BY <1>1
<1> QED
  BY <1>2, <1>3 DEF L, D, F, V, H

\* The code's own sum is the sum of what is asked for: both are the same
\* polynomial.
LEMMA WorkingIsSum ==
  ASSUME NEW c \in Configs
  PROVE  /\ workspace_bytes(c) \in Nat /\ weights_bytes_of(c) \in Nat
         /\ activations_bytes(c) + gradients_bytes(c) \in Nat
         /\ WorkingBytes(c) \in Nat
         /\ working_kb(c) = (WorkingBytes(c) + 1023) \div 1024
         /\ WorkingBytes(c) =
              26 * (c.n_layers * (c.ctx * c.d_model)) + 16 * (c.ctx * c.d_model)
                + 4 * (c.n_layers * (c.n_heads * (c.ctx * c.ctx))) + 4 * (TRANS_VOCAB * c.ctx)
                + 2 * c.d_ff + 2 * (c.n_layers * (c.ctx * c.d_ff)) + 18 * c.d_model
                + 26 * (TRANS_VOCAB * c.d_model) + 36 * (c.n_layers * (c.d_model * c.d_model))
                + 18 * (c.n_layers * (c.d_model * c.d_ff)) + 36 * (c.n_layers * c.d_model)
                + TRANS_HDR
<1> DEFINE L == c.n_layers   D == c.d_model   F == c.d_ff   V == TRANS_VOCAB   H == TRANS_HDR
           C == c.ctx   N == c.n_heads
           lay == 4 * C * D + N * C * C
           W == H + 2 * (V * D) + 4 * (L * (D * D)) + 2 * (L * (D * F)) + 4 * (L * D) + 2 * D
           ws == 2 * ((L + 1) * C * D + L * lay + C * V + C * D + F)
           act == 2 * (2 * L * C * D + L * C * F + 2 * (L + 1) * C * D + L * lay + C * V)
           grad == 8 * ((W - H) + V * D + C * D)
           laybuf == 3 * C * D + N * C * C + C * D
           fwdw == (L + 1) * C * D + L * laybuf + C * V + C * D + F
           xtra == L * 2 * C * D + L * C * F + (L + 1) * C * D
           bwdw == L * laybuf + (L + 1) * C * D + C * V
           bytes == (fwdw + xtra + bwdw) * 2 + 8 * (W - H) + 8 * V * D + 8 * C * D + W
           sum == 26 * (L * (C * D)) + 16 * (C * D) + 4 * (L * (N * (C * C))) + 4 * (V * C)
                    + 2 * F + 2 * (L * (C * F)) + 18 * D + 26 * (V * D) + 36 * (L * (D * D))
                    + 18 * (L * (D * F)) + 36 * (L * D) + H
<1>1. /\ L \in Nat /\ D \in Nat /\ F \in Nat /\ V \in Nat /\ H \in Nat /\ C \in Nat
      /\ N \in Nat
  BY TransAssumption
<1>2. weights_bytes_of(c) = W
  BY WeightsSum
<1>3. workspace_bytes(c) = ws /\ activations_bytes(c) = act /\ gradients_bytes(c) = grad
  <2> HIDE DEF W
  <2>1. workspace_bytes(c) = ws /\ activations_bytes(c) = act
    BY DEF workspace_bytes, activations_bytes, laybuf_words
  <2>2. gradients_bytes(c) = 8 * (W - H + V * D + C * D)
    BY <1>2 DEF gradients_bytes
  <2>3. W \in Int
    BY <1>1 DEF W
  <2> QED
    BY <1>1, <2>1, <2>2, <2>3
<1>4. working_kb(c) = (bytes + 1023) \div 1024
  <2> HIDE DEF W
  <2> QED
    BY <1>2 DEF working_kb
<1> HIDE DEF L, D, F, V, H, C, N
<1>5. L * (C * D) \in Nat /\ C * D \in Nat /\ L * (N * (C * C)) \in Nat /\ V * C \in Nat
  BY <1>1
<1>6. L * (C * F) \in Nat /\ V * D \in Nat /\ L * (D * D) \in Nat /\ L * (D * F) \in Nat
  BY <1>1
<1>7. L * D \in Nat
  BY <1>1
<1>8. ws = 10 * (L * (C * D)) + 4 * (C * D) + 2 * (L * (N * (C * C))) + 2 * (V * C) + 2 * F
  BY <1>1
<1>9. act = 16 * (L * (C * D)) + 2 * (L * (C * F)) + 4 * (C * D) + 2 * (L * (N * (C * C)))
              + 2 * (V * C)
  BY <1>1
<1>10. grad = 24 * (V * D) + 32 * (L * (D * D)) + 16 * (L * (D * F)) + 32 * (L * D)
                + 16 * D + 8 * (C * D)
  BY <1>1
<1>11. bytes = sum
  BY <1>1
<1>12. W \in Nat /\ ws \in Nat /\ act + grad \in Nat /\ sum \in Nat
       /\ ws + act + grad + W = sum
  <2> DEFINE m1 == L * (C * D)   m2 == C * D   m3 == L * (N * (C * C))   m4 == V * C
             m5 == L * (C * F)   m6 == V * D   m7 == L * (D * D)   m8 == L * (D * F)
             m9 == L * D
  <2> HIDE DEF m1, m2, m3, m4, m5, m6, m7, m8, m9, ws, act, grad
  <2>1. /\ m1 \in Nat /\ m2 \in Nat /\ m3 \in Nat /\ m4 \in Nat /\ m5 \in Nat /\ m6 \in Nat
        /\ m7 \in Nat /\ m8 \in Nat /\ m9 \in Nat
    BY <1>5, <1>6, <1>7 DEF m1, m2, m3, m4, m5, m6, m7, m8, m9
  <2>2. W = H + 2 * m6 + 4 * m7 + 2 * m8 + 4 * m9 + 2 * D
    BY DEF m6, m7, m8, m9
  <2>3. ws = 10 * m1 + 4 * m2 + 2 * m3 + 2 * m4 + 2 * F
    BY <1>8 DEF m1, m2, m3, m4
  <2>4. act = 16 * m1 + 2 * m5 + 4 * m2 + 2 * m3 + 2 * m4
    BY <1>9 DEF m1, m2, m3, m4, m5
  <2>5. grad = 24 * m6 + 32 * m7 + 16 * m8 + 32 * m9 + 16 * D + 8 * m2
    BY <1>10 DEF m2, m6, m7, m8, m9
  <2>6. sum = 26 * m1 + 16 * m2 + 4 * m3 + 4 * m4 + 2 * F + 2 * m5 + 18 * D + 26 * m6
                + 36 * m7 + 18 * m8 + 36 * m9 + H
    BY DEF m1, m2, m3, m4, m5, m6, m7, m8, m9
  <2> HIDE DEF W, sum
  <2> QED
    BY <1>1, <2>1, <2>2, <2>3, <2>4, <2>5, <2>6
<1>13. WorkingBytes(c) = ws + act + grad + W
  <2> HIDE DEF ws, act, grad, W
  <2> QED
    BY <1>2, <1>3 DEF WorkingBytes
<1> HIDE DEF ws, act, grad, W, bytes, sum
<1>14. WorkingBytes(c) = sum /\ WorkingBytes(c) \in Nat
  BY <1>12, <1>13
<1>15. working_kb(c) = (WorkingBytes(c) + 1023) \div 1024
  BY <1>4, <1>11, <1>14
<1>16. workspace_bytes(c) \in Nat /\ weights_bytes_of(c) \in Nat
       /\ activations_bytes(c) + gradients_bytes(c) \in Nat
  BY <1>2, <1>3, <1>12
<1> QED
  BY <1>14, <1>15, <1>16 DEF sum, L, D, F, V, H, C, N

\* A configuration with no larger parameters.
Within(a, b) ==
  /\ a.d_model <= b.d_model /\ a.n_heads <= b.n_heads /\ a.d_ff <= b.d_ff
  /\ a.n_layers <= b.n_layers /\ a.ctx <= b.ctx

LEMMA SizesMonotone ==
  ASSUME NEW a \in Configs, NEW b \in Configs, Within(a, b)
  PROVE  weights_bytes_of(a) <= weights_bytes_of(b) /\ WorkingBytes(a) <= WorkingBytes(b)
<1> DEFINE V == TRANS_VOCAB   H == TRANS_HDR
           L == a.n_layers   D == a.d_model   F == a.d_ff   C == a.ctx   N == a.n_heads
           L2 == b.n_layers  D2 == b.d_model  F2 == b.d_ff  C2 == b.ctx  N2 == b.n_heads
<1>1. /\ V \in Nat /\ H \in Nat
      /\ L \in Nat /\ D \in Nat /\ F \in Nat /\ C \in Nat /\ N \in Nat
      /\ L2 \in Nat /\ D2 \in Nat /\ F2 \in Nat /\ C2 \in Nat /\ N2 \in Nat
  BY TransAssumption
<1>2. L <= L2 /\ D <= D2 /\ F <= F2 /\ C <= C2 /\ N <= N2
  BY DEF Within
<1>3. /\ weights_bytes_of(a) =
           H + 2 * (V * D) + 4 * (L * (D * D)) + 2 * (L * (D * F)) + 4 * (L * D) + 2 * D
      /\ weights_bytes_of(b) =
           H + 2 * (V * D2) + 4 * (L2 * (D2 * D2)) + 2 * (L2 * (D2 * F2)) + 4 * (L2 * D2) + 2 * D2
  BY WeightsSum
<1>4. WorkingBytes(a) =
         26 * (L * (C * D)) + 16 * (C * D) + 4 * (L * (N * (C * C))) + 4 * (V * C)
           + 2 * F + 2 * (L * (C * F)) + 18 * D + 26 * (V * D) + 36 * (L * (D * D))
           + 18 * (L * (D * F)) + 36 * (L * D) + H
  BY WorkingIsSum
<1>5. WorkingBytes(b) =
         26 * (L2 * (C2 * D2)) + 16 * (C2 * D2) + 4 * (L2 * (N2 * (C2 * C2))) + 4 * (V * C2)
           + 2 * F2 + 2 * (L2 * (C2 * F2)) + 18 * D2 + 26 * (V * D2) + 36 * (L2 * (D2 * D2))
           + 18 * (L2 * (D2 * F2)) + 36 * (L2 * D2) + H
  BY WorkingIsSum
<1> HIDE DEF V, H, L, D, F, C, N, L2, D2, F2, C2, N2
<1> DEFINE n1 == C * D   n2 == C * C   n3 == N * n2   n4 == C * F   n5 == D * D   n6 == D * F
           q1 == C2 * D2   q2 == C2 * C2   q3 == N2 * q2   q4 == C2 * F2   q5 == D2 * D2
           q6 == D2 * F2
           m1 == L * n1   m3 == L * n3   m4 == V * C   m5 == L * n4   m6 == V * D
           m7 == L * n5   m8 == L * n6   m9 == L * D
           p1 == L2 * q1   p3 == L2 * q3   p4 == V * C2   p5 == L2 * q4   p6 == V * D2
           p7 == L2 * q5   p8 == L2 * q6   p9 == L2 * D2
<1>6. /\ n1 \in Nat /\ n2 \in Nat /\ n4 \in Nat /\ n5 \in Nat /\ n6 \in Nat
      /\ q1 \in Nat /\ q2 \in Nat /\ q4 \in Nat /\ q5 \in Nat /\ q6 \in Nat
      /\ n1 <= q1 /\ n2 <= q2 /\ n4 <= q4 /\ n5 <= q5 /\ n6 <= q6
  BY <1>1, <1>2, ProductMonotone
<1> HIDE DEF n1, n2, n4, n5, n6, q1, q2, q4, q5, q6
<1>7. n3 \in Nat /\ q3 \in Nat /\ n3 <= q3
  BY <1>1, <1>2, <1>6, ProductMonotone
<1> HIDE DEF n3, q3
<1>8. /\ m1 \in Nat /\ m3 \in Nat /\ m4 \in Nat /\ m5 \in Nat /\ m6 \in Nat
      /\ m7 \in Nat /\ m8 \in Nat /\ m9 \in Nat
      /\ p1 \in Nat /\ p3 \in Nat /\ p4 \in Nat /\ p5 \in Nat /\ p6 \in Nat
      /\ p7 \in Nat /\ p8 \in Nat /\ p9 \in Nat
  BY <1>1, <1>6, <1>7
<1>9. m1 <= p1 /\ m3 <= p3 /\ m4 <= p4 /\ m5 <= p5
  BY <1>1, <1>2, <1>6, <1>7, ProductMonotone
<1>10. m6 <= p6 /\ m7 <= p7 /\ m8 <= p8 /\ m9 <= p9
  BY <1>1, <1>2, <1>6, <1>7, ProductMonotone
<1>11. /\ weights_bytes_of(a) = H + 2 * m6 + 4 * m7 + 2 * m8 + 4 * m9 + 2 * D
       /\ weights_bytes_of(b) = H + 2 * p6 + 4 * p7 + 2 * p8 + 4 * p9 + 2 * D2
  BY <1>3 DEF n5, n6, q5, q6
<1>12. /\ WorkingBytes(a) = 26 * m1 + 16 * n1 + 4 * m3 + 4 * m4 + 2 * F + 2 * m5 + 18 * D
                              + 26 * m6 + 36 * m7 + 18 * m8 + 36 * m9 + H
       /\ WorkingBytes(b) = 26 * p1 + 16 * q1 + 4 * p3 + 4 * p4 + 2 * F2 + 2 * p5 + 18 * D2
                              + 26 * p6 + 36 * p7 + 18 * p8 + 36 * p9 + H
  BY <1>4, <1>5 DEF n1, n2, n3, n4, n5, n6, q1, q2, q3, q4, q5, q6
<1> HIDE DEF m1, m3, m4, m5, m6, m7, m8, m9, p1, p3, p4, p5, p6, p7, p8, p9
<1>13. weights_bytes_of(a) <= weights_bytes_of(b)
  BY <1>1, <1>2, <1>8, <1>10, <1>11
<1>14. WorkingBytes(a) <= WorkingBytes(b)
  BY <1>1, <1>2, <1>6, <1>8, <1>9, <1>10, <1>12
<1> QED
  BY <1>13, <1>14

-----------------------------------------------------------------------------
(* The search *)

Room == /\ total_kb \in Nat /\ wbudget_kb \in Nat /\ acap_kb \in Nat
        /\ wbudget_kb >= 8192

LEMMA RoomTyped ==
  ASSUME total_kb \in Nat
  PROVE  Room
<1> DEFINE a == total_kb \div 8   b == total_kb \div 4
<1>1. a \in Nat /\ b \in Nat
  OBVIOUS
<1>2. 2^20 \in Nat /\ 2^20 >= 8192
  <2>1. 2^20 = 1048576
    OBVIOUS
  <2> QED
    BY <2>1
<1> HIDE DEF a, b
<1>3. Clamp(a, 8192, 2^20) \in Nat /\ Clamp(a, 8192, 2^20) >= 8192 /\ Clamp(b, 4096, 2^20) \in Nat
  BY <1>1, <1>2 DEF Clamp
<1> QED
  BY <1>3 DEF a, b, wbudget_kb, acap_kb, Room

\* What grows smaller with every round of degrade: a narrower model may get a
\* larger d_ff than it had, at most four times the width it gave up.
Size(c) == c.ctx + c.n_layers + c.d_ff + 5 * c.d_model

LEMMA ShrunkSmaller ==
  ASSUME NEW c \in Configs, Shrinkable(c)
  PROVE  Shrunk(c) \in Configs /\ Size(Shrunk(c)) < Size(c) /\ Size(c) \in Nat
<1>1. /\ TRANS_CTX_MIN \in Nat /\ TRANS_LAYERS_MIN \in Nat /\ TRANS_D_MIN \in Nat
      /\ TRANS_D_MIN >= 8
  BY TransAssumption
<1>2. c.ctx \in Nat /\ c.n_layers \in Nat /\ c.d_ff \in Nat /\ c.d_model \in Nat /\ c.n_heads \in 0..8
  OBVIOUS
<1>3. Size(c) \in Nat
  BY <1>2 DEF Size
<1>4. CASE c.ctx > TRANS_CTX_MIN
  <2>1. Shrunk(c) = [c EXCEPT !.ctx = @ \div 2]
    BY <1>4 DEF Shrunk
  <2>2. c.ctx \div 2 \in Nat /\ c.ctx \div 2 < c.ctx
    BY <1>1, <1>2, <1>4
  <2> QED
    BY <1>2, <1>3, <2>1, <2>2 DEF Size
<1>5. CASE ~ (c.ctx > TRANS_CTX_MIN) /\ c.d_ff > c.d_model
  <2>1. Shrunk(c) = [c EXCEPT !.d_ff = @ \div 2]
    BY <1>5 DEF Shrunk
  <2>2. c.d_ff \div 2 \in Nat /\ c.d_ff \div 2 < c.d_ff
    BY <1>1, <1>2, <1>5
  <2> QED
    BY <1>2, <1>3, <2>1, <2>2 DEF Size
<1>6. CASE ~ (c.ctx > TRANS_CTX_MIN) /\ ~ (c.d_ff > c.d_model) /\ c.n_layers > TRANS_LAYERS_MIN
  <2>1. Shrunk(c) = [c EXCEPT !.n_layers = @ \div 2]
    BY <1>6 DEF Shrunk
  <2>2. c.n_layers \div 2 \in Nat /\ c.n_layers \div 2 < c.n_layers
    BY <1>1, <1>2, <1>6
  <2> QED
    BY <1>2, <1>3, <2>1, <2>2 DEF Size
<1>7. CASE /\ ~ (c.ctx > TRANS_CTX_MIN) /\ ~ (c.d_ff > c.d_model)
           /\ ~ (c.n_layers > TRANS_LAYERS_MIN) /\ c.d_model > TRANS_D_MIN
  <2> DEFINE d == c.d_model \div 2
  <2>1. Shrunk(c) = [c EXCEPT !.d_model = d, !.d_ff = 4 * d, !.n_heads = Heads(d)]
    BY <1>7 DEF Shrunk, Widened
  <2>2. d \in Nat /\ 9 * d < 5 * c.d_model
    BY <1>1, <1>2, <1>7
  <2>3. Heads(d) \in 0..8 /\ 4 * d \in Nat
    BY <2>2 DEF Heads
  <2> HIDE DEF d
  <2>4. /\ Shrunk(c).ctx = c.ctx /\ Shrunk(c).n_layers = c.n_layers
        /\ Shrunk(c).d_ff = 4 * d /\ Shrunk(c).d_model = d
    BY <2>1
  <2>5. Shrunk(c) \in Configs
    BY <1>2, <2>1, <2>2, <2>3
  <2>6. Size(Shrunk(c)) = c.ctx + c.n_layers + 4 * d + 5 * d
    BY <2>4 DEF Size
  <2> QED
    BY <1>2, <1>3, <2>2, <2>5, <2>6 DEF Size
<1> QED
  BY <1>4, <1>5, <1>6, <1>7 DEF Shrinkable

\* degrade stops, at a configuration that fits or that it cannot shrink.
LEMMA DegradeStops ==
  ASSUME NEW c \in Configs, NEW kb
  PROVE  /\ degrade(c, kb) \in Configs
         /\ Fits(degrade(c, kb), kb) \/ ~Shrinkable(degrade(c, kb))
<1> DEFINE Stop == {x \in Configs : Fits(x, kb) \/ ~Shrinkable(x)}
           next == [x \in Configs |-> IF Shrinkable(x) THEN Shrunk(x) ELSE x]
           size == [x \in Configs |-> Size(x)]
           Step(f) == [x \in Configs |-> IF Fits(x, kb) \/ ~Shrinkable(x) THEN x
                                           ELSE f[Shrunk(x)]]
           stop == CHOOSE f : f = Step(f)
           S == Configs
<1> USE DEF Configs
<1>1. degrade(c, kb) = stop[c]
  BY DEF degrade
<1>2. next \in [S -> S] /\ size \in [S -> Nat] /\ Shrinks(S, Stop, next, size)
  <2>1. next \in [S -> S]
    BY ShrunkSmaller
  <2>2. ASSUME NEW x \in Configs PROVE Size(x) \in Nat
    BY DEF Size
  <2>3. size \in [S -> Nat]
    BY <2>2
  <2>4. ASSUME NEW x \in S, x \notin Stop PROVE size[next[x]] < size[x]
    BY <2>4, ShrunkSmaller
  <2> HIDE DEF Stop, next, size, S
  <2> QED
    BY <2>1, <2>3, <2>4 DEF Shrinks
<1>3. ASSUME NEW f PROVE Step(f) = [x \in S |-> IF x \in Stop THEN x ELSE f[next[x]]]
  OBVIOUS
<1> HIDE DEF Stop, next, size, S
<1>4. PICK f : DOMAIN f = S /\ f = [x \in S |-> f[x]] /\ Solves(f, S, Stop, next)
  BY <1>2, LoopExists
<1>5. f = Step(f)
  <2>1. \A x \in S : f[x] = IF x \in Stop THEN x ELSE f[next[x]]
    BY <1>4 DEF Solves
  <2> HIDE DEF Step
  <2> QED
    BY <1>3, <1>4, <2>1
<1>6. stop = Step(stop)
  <2> HIDE DEF Step
  <2> QED
    BY <1>5
<1> HIDE DEF stop, Step
<1>7. Solves(stop, S, Stop, next)
  BY <1>3, <1>6 DEF Solves
<1>8. c \in S
  BY DEF S
<1>9. stop[c] \in S /\ stop[c] \in Stop
  BY <1>2, <1>7, <1>8, LoopStops
<1> QED
  BY <1>1, <1>9 DEF S, Stop

LEMMA FloorTyped ==
  Floor \in Configs
<1>1. TRANS_D_MIN \in Nat /\ TRANS_LAYERS_MIN \in Nat /\ TRANS_CTX_MIN \in Nat
  BY TransAssumption
<1>2. Heads(TRANS_D_MIN) \in 0..8
  BY <1>1 DEF Heads
<1> QED
  BY <1>1, <1>2 DEF Floor

\* What cannot be shrunk is no larger than the smallest configuration.
LEMMA LeastWithin ==
  ASSUME NEW c \in Configs, ~Shrinkable(c)
  PROVE  Within(c, Floor)
<1>1. /\ TRANS_D_MIN \in Nat /\ TRANS_LAYERS_MIN \in Nat /\ TRANS_CTX_MIN \in Nat
      /\ TRANS_D_MIN >= 8
  BY TransAssumption
<1>2. /\ Floor.d_model = TRANS_D_MIN /\ Floor.d_ff = TRANS_D_MIN /\ Floor.n_heads = 8
      /\ Floor.n_layers = TRANS_LAYERS_MIN /\ Floor.ctx = TRANS_CTX_MIN
  BY <1>1 DEF Floor, Heads
<1> QED
  BY <1>1, <1>2 DEF Within, Shrinkable

\* Weights within the budget of the machine.
WeightsFit(c) == weights_bytes_of(c) \div 1024 <= wbudget_kb

LEMMA DegradeFits ==
  ASSUME NEW c \in Configs, NEW kb \in Nat, Room
  PROVE  /\ degrade(c, kb) \in Configs
         /\ WeightsFit(degrade(c, kb))
         /\ Fits(degrade(c, kb), kb) \/ ~Fits(Floor, kb)
<1> DEFINE r == degrade(c, kb)
<1>1. r \in Configs /\ (Fits(r, kb) \/ ~Shrinkable(r))
  BY DegradeStops
<1> HIDE DEF r
<1>2. CASE Fits(r, kb)
  BY <1>1, <1>2 DEF Fits, WeightsFit, r
<1>3. CASE ~Shrinkable(r)
  <2> DEFINE wr == weights_bytes_of(r)   wf == weights_bytes_of(Floor)
             br == WorkingBytes(r)   bf == WorkingBytes(Floor)
  <2>1. wr <= wf /\ br <= bf
    BY <1>1, <1>3, LeastWithin, FloorTyped, SizesMonotone
  <2>2. wr \in Nat /\ wf \in Nat /\ br \in Nat /\ bf \in Nat
    BY <1>1, FloorTyped, WorkingIsSum
  <2>3. working_kb(r) = (br + 1023) \div 1024 /\ working_kb(Floor) = (bf + 1023) \div 1024
    BY <1>1, FloorTyped, WorkingIsSum
  <2>4. wf <= 1024 * 8192
    BY WindowAssumption
  <2> HIDE DEF wr, wf, br, bf
  <2>5. wr \div 1024 <= wf \div 1024 /\ (br + 1023) \div 1024 <= (bf + 1023) \div 1024
        /\ wf \div 1024 <= 8192
    BY <2>1, <2>2, <2>4
  <2>6. wr \div 1024 \in Nat /\ wf \div 1024 \in Nat /\ (br + 1023) \div 1024 \in Nat
        /\ (bf + 1023) \div 1024 \in Nat
    BY <2>2
  <2>7. wr \div 1024 <= wbudget_kb
    BY <2>5, <2>6 DEF Room
  <2>8. Fits(Floor, kb) => Fits(r, kb)
    BY <2>3, <2>5, <2>6, <2>7 DEF Fits, wr, wf, Room
  <2> QED
    BY <1>1, <2>7, <2>8 DEF WeightsFit, wr, r
<1> QED
  BY <1>1, <1>2, <1>3

-----------------------------------------------------------------------------
(* The invariant *)


TransTyped ==
  /\ total_kb \in Rams /\ cfg \in Configs /\ acap_override_kb \in Nat
  /\ wbytes \in Nat /\ block \in Nat /\ tpc \in {"autotune", "ready"}

\* Nothing is allocated before the configuration is chosen.
BootClean ==
  tpc = "autotune" => /\ fwd = NoBuf /\ bwd = NoBuf /\ passed = 0
                      /\ block = 0 /\ acap_override_kb = 0

\* The configuration fits the budget of weights, and the cap or no model does.
ConfigFits ==
  tpc = "ready" => WeightsFit(cfg) /\ (Fits(cfg, Cap) \/ ~Fits(Floor, Cap))

TransInv == TransTyped /\ BootClean /\ ConfigFits /\ BuffersMatch

LEMMA TypedRoom ==
  ASSUME TransTyped
  PROVE  Room /\ Cap \in Nat /\ total_kb \in Nat
<1>1. total_kb \in Nat
  BY TransAssumption DEF TransTyped
<1> QED
  BY <1>1, RoomTyped DEF TransTyped, Cap, trans_activ_cap_kb, Room

\* The window shows all of a blob that is within the budget.
LEMMA WindowShows ==
  ASSUME total_kb \in Rams, NEW n \in Nat, n \div 1024 <= wbudget_kb
  PROVE  4096 * WindowPages(n) >= n
<1> DEFINE b == wbudget_kb   p == (n + 4095) \div 4096   u == USER_MODEL_PAGES
<1>1. total_kb \in Nat /\ u \in Nat
  BY TransAssumption
<1>2. b \in Nat
  BY <1>1, RoomTyped DEF Room
<1>3. 1024 * b + 1023 <= 4096 * u
  BY WindowAssumption DEF wbudget_kb
<1>4. n \div 1024 <= b
  OBVIOUS
<1> HIDE DEF b, u
<1>5. n <= 1024 * b + 1023
  BY <1>2, <1>4
<1>6. n <= 4096 * u
  BY <1>1, <1>2, <1>3, <1>5
<1>7. p \in Nat /\ 4096 * p >= n
  OBVIOUS
<1> HIDE DEF p
<1>8. WindowPages(n) = IF p < 1 THEN 1 ELSE IF p > u THEN u ELSE p
  BY DEF WindowPages, Clamp, p, u
<1> QED
  BY <1>1, <1>6, <1>7, <1>8

\* A blob that is allocated: as large as the configuration asks.
LEMMA BlobFits ==
  ASSUME NEW c \in Configs, alloc_blob(c), block = 0 \/ wbytes <= block,
         wbytes \in Nat, block \in Nat
  PROVE  /\ wbytes' = weights_bytes_of(c) /\ wbytes' <= block'
         /\ wbytes' \in Nat /\ block' \in Nat
<1>1. weights_bytes_of(c) \in Nat
  BY WorkingIsSum
<1> DEFINE n == weights_bytes_of(c)
<1>2. wbytes' = n /\ block' = (IF block # 0 /\ wbytes >= n /\ wbytes <= 2 * n THEN block ELSE n)
  BY DEF alloc_blob
<1> HIDE DEF n
<1> QED
  BY <1>1, <1>2 DEF n

\* The builtins that change the model leave everything in line with it.
LEMMA ReconfigureKeeps ==
  ASSUME TransInv, tpc = "ready", NEW c \in Configs, WeightsFit(c), Reconfigure(c),
         UNCHANGED <<total_kb, tpc>>, passed' = 0
  PROVE  cfg' = c /\ BuffersMatch' /\ WeightsFit(cfg)' /\ wbytes' \in Nat /\ block' \in Nat
<1>1. wbudget_kb' = wbudget_kb
  BY DEF wbudget_kb
<1>2. cfg' = c
  BY DEF Reconfigure
<1>3. WeightsFit(cfg)'
  BY <1>1, <1>2 DEF WeightsFit
<1>4. CASE c = cfg
  <2>1. UNCHANGED <<cfg, wbytes, block, fwd, bwd, win_pages>>
    BY <1>4 DEF Reconfigure
  <2> QED
    BY <1>2, <1>3, <2>1 DEF TransInv, TransTyped, BuffersMatch
<1>5. CASE c # cfg
  <2>1. alloc_blob(c) /\ fwd' = NoBuf /\ bwd' = NoBuf /\ win_pages' = WindowPages(wbytes')
    BY <1>5 DEF Reconfigure, free_workspace, model_window_setup
  <2>2. wbytes' = weights_bytes_of(c) /\ wbytes' <= block' /\ wbytes' \in Nat /\ block' \in Nat
    BY <2>1, BlobFits DEF TransInv, TransTyped, BuffersMatch
  <2>3. 4096 * win_pages' >= wbytes'
    BY <2>1, <2>2, WindowShows DEF TransInv, TransTyped, WeightsFit
  <2> QED
    BY <1>2, <1>3, <2>1, <2>2, <2>3 DEF BuffersMatch
<1> QED
  BY <1>4, <1>5

LEMMA EffectiveFits ==
  ASSUME TransInv, tpc = "ready", NEW t \in Configs, NEW kb \in Nat
  PROVE  /\ Effective(t, kb) \in Configs /\ WeightsFit(Effective(t, kb))
         /\ \/ Fits(Effective(t, kb), kb)
            \/ Effective(t, kb) = cfg /\ ~Fits(Floor, kb)
<1>1. Room
  BY TypedRoom DEF TransInv
<1>2. /\ degrade(t, kb) \in Configs /\ WeightsFit(degrade(t, kb))
      /\ Fits(degrade(t, kb), kb) \/ ~Fits(Floor, kb)
  BY <1>1, DegradeFits
<1>3. cfg \in Configs /\ WeightsFit(cfg)
  BY DEF TransInv, TransTyped, ConfigFits
<1> QED
  BY <1>2, <1>3 DEF Effective

-----------------------------------------------------------------------------
(* The steps *)

LEMMA InitKeeps ==
  TransInit => TransInv
<1> SUFFICES ASSUME TransInit PROVE TransInv
  OBVIOUS
<1>1. TransTyped
  BY DEF TransInit, TransTyped
<1> QED
  BY <1>1 DEF TransInit, TransInv, BootClean, ConfigFits, BuffersMatch

LEMMA TrialsTyped ==
  ASSUME NEW c \in Configs, NEW i \in 1..4
  PROVE  Trials(c)[i] \in Configs
<1>1. TRANS_CTX_MAX \in Nat /\ TRANS_LAYERS_MAX \in Nat /\ TRANS_D_MAX \in Nat
  BY TransAssumption
<1>2. \A x \in Nat, y \in Nat : Clamp(2 * x, 0, y) \in Nat
  BY DEF Clamp
<1>3. c.ctx \in Nat /\ c.n_layers \in Nat /\ c.d_ff \in Nat /\ c.d_model \in Nat /\ c.n_heads \in 0..8
  OBVIOUS
<1> DEFINE d == Clamp(2 * c.d_model, 0, TRANS_D_MAX)
<1>4. d \in Nat
  BY <1>1, <1>2, <1>3
<1>5. Heads(d) \in 0..8 /\ 4 * d \in Nat /\ 16 * c.d_model \in Nat
  BY <1>3, <1>4 DEF Heads
<1> HIDE DEF d
<1>6. Widened(c, d) \in Configs
  BY <1>3, <1>4, <1>5 DEF Widened
<1>7. [c EXCEPT !.ctx = Clamp(2 * @, 0, TRANS_CTX_MAX)] \in Configs
  BY <1>1, <1>2, <1>3
<1>8. [c EXCEPT !.d_ff = Clamp(2 * @, 0, 16 * c.d_model)] \in Configs
  BY <1>2, <1>3, <1>5
<1>9. [c EXCEPT !.n_layers = Clamp(2 * @, 0, TRANS_LAYERS_MAX)] \in Configs
  BY <1>1, <1>2, <1>3
<1> DEFINE a == [c EXCEPT !.ctx = Clamp(2 * @, 0, TRANS_CTX_MAX)]
           b == [c EXCEPT !.d_ff = Clamp(2 * @, 0, 16 * c.d_model)]
           e == [c EXCEPT !.n_layers = Clamp(2 * @, 0, TRANS_LAYERS_MAX)]
           w == Widened(c, d)
<1>10. Trials(c) = <<a, b, e, w>>
  BY DEF Trials, d
<1>11. a \in Configs /\ b \in Configs /\ e \in Configs /\ w \in Configs
  BY <1>6, <1>7, <1>8, <1>9
<1> HIDE DEF a, b, e, w
<1> QED
  BY <1>10, <1>11

LEMMA AutotuneGrowKeeps ==
  ASSUME TransInv, AutotuneGrow
  PROVE  TransInv'
<1> DEFINE F == Fitting(cfg)
           i == CHOOSE k \in F : \A j \in F : k <= j
<1>1. F \in SUBSET Nat /\ F # {} /\ F \subseteq 1..4
  BY DEF Fitting, AutotuneGrow
<1>2. i \in F
  <2> HIDE DEF F
  <2>1. \E k \in F : \A j \in F : k <= j
    BY <1>1, LeastExists
  <2> QED
    BY <2>1
<1>3. cfg' = Trials(cfg)[i]
  BY DEF AutotuneGrow
<1>4. cfg' \in Configs
  BY <1>1, <1>2, <1>3, TrialsTyped DEF TransInv, TransTyped
<1>5. tpc = "autotune" /\ tpc' = "autotune"
  BY DEF AutotuneGrow
<1>6. TransTyped' /\ BootClean'
  BY <1>4, <1>5 DEF TransInv, TransTyped, BootClean, AutotuneGrow
<1> QED
  BY <1>5, <1>6 DEF TransInv, ConfigFits, BuffersMatch

LEMMA AutotuneDoneKeeps ==
  ASSUME TransInv, AutotuneDone
  PROVE  TransInv'
<1>1. Room /\ Cap = acap_kb /\ Cap \in Nat /\ cfg \in Configs
  <2>1. acap_override_kb = 0
    BY DEF TransInv, BootClean, AutotuneDone
  <2> QED
    BY <2>1, TypedRoom DEF TransInv, TransTyped, Cap, trans_activ_cap_kb
<1>2. /\ cfg' \in Configs /\ WeightsFit(cfg')
      /\ Fits(cfg', Cap) \/ ~Fits(Floor, Cap)
  BY <1>1, DegradeFits DEF AutotuneDone
<1>3. wbudget_kb' = wbudget_kb /\ Cap' = Cap /\ tpc' = "ready"
  BY DEF wbudget_kb, Cap, trans_activ_cap_kb, acap_kb, AutotuneDone
<1>4. wbytes' = weights_bytes_of(cfg') /\ wbytes' <= block' /\ wbytes' \in Nat
       /\ block' \in Nat
  BY <1>2, BlobFits DEF AutotuneDone, TransInv, TransTyped, BootClean
<1>5. 4096 * win_pages' >= wbytes'
  BY <1>2, <1>4, WindowShows
     DEF AutotuneDone, model_window_setup, TransInv, TransTyped, WeightsFit
<1>6. TransTyped' /\ BootClean'
  BY <1>2, <1>3, <1>4 DEF AutotuneDone, TransInv, TransTyped, BootClean
<1>7. ConfigFits'
  BY <1>2, <1>3 DEF ConfigFits, WeightsFit, Fits
<1>8. BuffersMatch'
  BY <1>4, <1>5 DEF AutotuneDone, BuffersMatch, TransInv, BootClean
<1> QED
  BY <1>6, <1>7, <1>8 DEF TransInv

LEMMA ConfigKeeps ==
  ASSUME TransInv, NEW l, NEW x, trans_config(l, x)
  PROVE  TransInv'
<1> DEFINE t == [cfg EXCEPT !.n_layers = InRange(l, TRANS_LAYERS_MIN, TRANS_LAYERS_MAX, @),
                            !.ctx = InRange(x, TRANS_CTX_MIN, TRANS_CTX_MAX, @)]
           c == IF t = cfg THEN cfg ELSE Effective(t, Cap)
<1>1. /\ tpc = "ready" /\ Reconfigure(c) /\ passed' = 0
      /\ UNCHANGED <<total_kb, acap_override_kb, tpc>>
  BY DEF trans_config, Cap
<1>2. cfg \in Configs /\ Cap \in Nat
  BY TypedRoom DEF TransInv, TransTyped
<1>3. t \in Configs
  <2>1. /\ TRANS_LAYERS_MIN \in Nat /\ TRANS_LAYERS_MAX \in Nat
        /\ TRANS_CTX_MIN \in Nat /\ TRANS_CTX_MAX \in Nat
    BY TransAssumption
  <2>2. ASSUME NEW lo \in Nat, NEW hi \in Nat, NEW y, NEW e \in Nat
        PROVE  InRange(y, lo, hi, e) \in Nat
    BY DEF InRange
  <2>3. cfg.n_layers \in Nat /\ cfg.ctx \in Nat
    BY <1>2
  <2>4. InRange(l, TRANS_LAYERS_MIN, TRANS_LAYERS_MAX, cfg.n_layers) \in Nat
        /\ InRange(x, TRANS_CTX_MIN, TRANS_CTX_MAX, cfg.ctx) \in Nat
    BY <2>1, <2>2, <2>3
  <2> QED
    BY <1>2, <2>4
<1> HIDE DEF t
<1>4. /\ c \in Configs /\ WeightsFit(c)
      /\ Fits(c, Cap) \/ ~Fits(Floor, Cap)
  <2>1. WeightsFit(cfg) /\ (Fits(cfg, Cap) \/ ~Fits(Floor, Cap))
    BY <1>1 DEF TransInv, ConfigFits
  <2> QED
    BY <1>1, <1>2, <1>3, <2>1, EffectiveFits
<1> HIDE DEF c
<1>5. /\ cfg' = c /\ BuffersMatch' /\ WeightsFit(cfg)' /\ wbytes' \in Nat /\ block' \in Nat
  BY <1>1, <1>4, ReconfigureKeeps
<1>6. wbudget_kb' = wbudget_kb /\ Cap' = Cap
  BY <1>1 DEF wbudget_kb, Cap, trans_activ_cap_kb, acap_kb
<1>7. ConfigFits'
  BY <1>4, <1>5, <1>6 DEF ConfigFits, Fits
<1>8. TransTyped' /\ BootClean'
  BY <1>1, <1>4, <1>5 DEF TransInv, TransTyped, BootClean
<1> QED
  BY <1>5, <1>7, <1>8 DEF TransInv

LEMMA SetCapKeeps ==
  ASSUME TransInv, NEW kb \in CapArgs, trans_set_act_cap(kb)
  PROVE  TransInv'
<1> DEFINE over == IF kb = 0 THEN 0 ELSE Clamp(kb, 64, 2^20)
           k == trans_activ_cap_kb(over)
           c == Effective(cfg, k)
<1>1. /\ tpc = "ready" /\ Reconfigure(c) /\ passed' = 0 /\ acap_override_kb' = over
      /\ UNCHANGED <<total_kb, tpc>>
  BY DEF trans_set_act_cap
<1>2. cfg \in Configs /\ Room
  BY TypedRoom DEF TransInv, TransTyped
<1>3. over \in Nat
  <2>1. kb \in Nat /\ 2^20 \in Nat
    <3>1. 2^20 = 1048576
      OBVIOUS
    <3> QED
      BY <3>1, TransAssumption
  <2> QED
    BY <2>1 DEF Clamp
<1> HIDE DEF over
<1>4. k \in Nat
  BY <1>2, <1>3 DEF trans_activ_cap_kb, Room
<1> HIDE DEF k
<1>5. /\ c \in Configs /\ WeightsFit(c)
      /\ Fits(c, k) \/ ~Fits(Floor, k)
  BY <1>1, <1>2, <1>4, EffectiveFits
<1> HIDE DEF c
<1>6. /\ cfg' = c /\ BuffersMatch' /\ WeightsFit(cfg)' /\ wbytes' \in Nat /\ block' \in Nat
  BY <1>1, <1>5, ReconfigureKeeps
<1>7. wbudget_kb' = wbudget_kb /\ Cap' = k
  BY <1>1 DEF wbudget_kb, Cap, trans_activ_cap_kb, acap_kb, k
<1>8. ConfigFits'
  BY <1>5, <1>6, <1>7 DEF ConfigFits, Fits
<1>9. TransTyped' /\ BootClean'
  BY <1>1, <1>3, <1>5, <1>6 DEF TransInv, TransTyped, BootClean
<1> QED
  BY <1>6, <1>8, <1>9 DEF TransInv

\* What the steps that leave the configuration alone keep.
LEMMA SameConfigKeeps ==
  ASSUME TransInv, UNCHANGED <<total_kb, cfg, acap_override_kb, tpc>>, tpc = "ready",
         wbytes' \in Nat, block' \in Nat, BuffersMatch'
  PROVE  TransInv'
<1>1. wbudget_kb' = wbudget_kb /\ Cap' = Cap
  BY DEF wbudget_kb, Cap, trans_activ_cap_kb, acap_kb
<1>2. ConfigFits'
  BY <1>1 DEF TransInv, ConfigFits, Fits, WeightsFit
<1>3. TransTyped' /\ BootClean'
  BY DEF TransInv, TransTyped, BootClean
<1> QED
  BY <1>2, <1>3 DEF TransInv

LEMMA ResetKeeps ==
  ASSUME TransInv, trans_reset
  PROVE  TransInv'
<1>1. /\ wbytes' = weights_bytes_of(cfg) /\ wbytes' <= block'
      /\ wbytes' \in Nat /\ block' \in Nat
  BY BlobFits DEF trans_reset, TransInv, TransTyped, BuffersMatch
<1>2. BuffersMatch'
  BY <1>1 DEF trans_reset, TransInv, BuffersMatch
<1> QED
  BY <1>1, <1>2, SameConfigKeeps DEF trans_reset

\* A pass: the buffers it uses are those of the configuration, and it stays
\* within its context.
LEMMA PassKeeps ==
  ASSUME TransInv, tpc = "ready", UNCHANGED <<total_kb, cfg, acap_override_kb, tpc>>,
         UNCHANGED <<wbytes, block, win_pages>>,
         fwd' \in Allocates(fwd), bwd' \in {bwd} \cup Allocates(bwd),
         passed' > 0 => fwd' # NoBuf /\ (passed' <= cfg.ctx \/ passed' <= TRANS_GEN_WIN)
  PROVE  TransInv'
<1>1. fwd' \in {NoBuf, cfg} /\ bwd' \in {NoBuf, cfg}
  BY DEF TransInv, BuffersMatch, Allocates
<1>2. BuffersMatch'
  BY <1>1 DEF TransInv, BuffersMatch
<1> QED
  BY <1>2, SameConfigKeeps DEF TransInv, TransTyped

LEMMA TokensBounded ==
  ASSUME TransInv, NEW nb \in Nat
  PROVE  Tokens(nb) <= cfg.ctx
<1>1. cfg.ctx \in Nat
  BY DEF TransInv, TransTyped
<1> DEFINE x == cfg.ctx
<1> HIDE DEF x
<1>2. Clamp(nb - 2, 0, x) <= x
  BY <1>1 DEF Clamp, x
<1> QED
  BY <1>2 DEF Tokens, x

LEMMA TransNextKeeps ==
  TransInv /\ [TransNext]_transVars => TransInv'
<1> SUFFICES ASSUME TransInv, [TransNext]_transVars PROVE TransInv'
  OBVIOUS
<1>1. CASE AutotuneGrow
  BY <1>1, AutotuneGrowKeeps
<1>2. CASE AutotuneDone
  BY <1>2, AutotuneDoneKeeps
<1>3. CASE trans_reset
  BY <1>3, ResetKeeps
<1>4. ASSUME NEW l \in LayerArgs, NEW c \in CtxArgs, trans_config(l, c) PROVE TransInv'
  BY <1>4, ConfigKeeps
<1>5. ASSUME NEW kb \in CapArgs, trans_set_act_cap(kb) PROVE TransInv'
  BY <1>5, SetCapKeeps
<1>6. ASSUME NEW nb \in LogSizes, trans_train(nb) PROVE TransInv'
  <2>1. Tokens(nb) <= cfg.ctx
    BY TokensBounded, TransAssumption
  <2>2. passed' > 0 => fwd' # NoBuf /\ passed' <= cfg.ctx
    BY <1>6, <2>1 DEF trans_train
  <2> QED
    BY <1>6, <2>2, PassKeeps DEF trans_train
<1>7. ASSUME NEW nb \in LogSizes, trans_eval(nb) PROVE TransInv'
  <2>1. Tokens(nb) <= cfg.ctx
    BY TokensBounded, TransAssumption
  <2>2. passed' > 0 => fwd' # NoBuf /\ passed' <= cfg.ctx
    BY <1>7, <2>1 DEF trans_eval
  <2> QED
    BY <1>7, <2>2, PassKeeps DEF trans_eval
<1>8. ASSUME NEW n \in {1, TRANS_GEN_WIN}, trans_generate(n) PROVE TransInv'
  <2>1. n <= TRANS_GEN_WIN
    BY TransAssumption
  <2>2. passed' > 0 => fwd' # NoBuf /\ passed' <= TRANS_GEN_WIN
    BY <1>8, <2>1 DEF trans_generate
  <2> QED
    BY <1>8, <2>2, PassKeeps DEF trans_generate
<1>9. CASE UNCHANGED transVars
  <2>1. wbudget_kb' = wbudget_kb /\ Cap' = Cap
    BY <1>9 DEF transVars, wbudget_kb, Cap, trans_activ_cap_kb, acap_kb
  <2>2. TransTyped' /\ BootClean' /\ BuffersMatch'
    BY <1>9 DEF transVars, TransInv, TransTyped, BootClean, BuffersMatch
  <2>3. ConfigFits'
    BY <1>9, <2>1 DEF transVars, TransInv, ConfigFits, Fits, WeightsFit
  <2> QED
    BY <2>2, <2>3 DEF TransInv
<1> QED
  BY <1>1, <1>2, <1>3, <1>4, <1>5, <1>6, <1>7, <1>8, <1>9 DEF TransNext

\* The weights and the buffers are a part of what working_kb sums up.
LEMMA UsedCovered ==
  ASSUME TransInv, tpc = "ready"
  PROVE  working_kb(cfg) \in Int /\ Used \in Int /\ Used <= 1024 * working_kb(cfg)
<1>1. cfg \in Configs
  BY DEF TransInv, TransTyped
<1> DEFINE W == weights_bytes_of(cfg)   A == workspace_bytes(cfg)
           B == activations_bytes(cfg) + gradients_bytes(cfg)   T == WorkingBytes(cfg)
           k == working_kb(cfg)
<1>2. W \in Nat /\ A \in Nat /\ B \in Nat /\ T \in Nat /\ k = (T + 1023) \div 1024
  BY <1>1, WorkingIsSum
<1>3. T = A + B + W
  <2>1. activations_bytes(cfg) \in Int /\ gradients_bytes(cfg) \in Int
    <3>1. cfg.ctx \in Nat /\ cfg.n_layers \in Nat /\ cfg.d_ff \in Nat /\ cfg.d_model \in Nat
          /\ cfg.n_heads \in Nat /\ TRANS_VOCAB \in Nat /\ TRANS_HDR \in Nat
      BY <1>1, TransAssumption
    <3>2. W \in Int
      BY <1>2
    <3> QED
      BY <3>1, <3>2 DEF activations_bytes, gradients_bytes, laybuf_words
  <2> QED
    BY <1>2, <2>1 DEF WorkingBytes
<1>4. /\ Used = wbytes + ((IF fwd = NoBuf THEN 0 ELSE workspace_bytes(fwd))
                     + (IF bwd = NoBuf THEN 0 ELSE activations_bytes(bwd) + gradients_bytes(bwd)))
      /\ wbytes = W /\ fwd \in {NoBuf, cfg} /\ bwd \in {NoBuf, cfg}
  BY DEF Used, Buffers, TransInv, BuffersMatch
<1>5. \E x \in {0, A}, y \in {0, B} : Used = W + (x + y)
  BY <1>4
<1> HIDE DEF W, A, B, T, k
<1>6. Used <= T /\ Used \in Int
  BY <1>2, <1>3, <1>5
<1>7. k \in Int /\ T <= 1024 * k
  BY <1>2
<1>8. Used <= 1024 * k
  BY <1>2, <1>6, <1>7
<1> QED
  BY <1>6, <1>7, <1>8 DEF k

LEMMA InvFits ==
  TransInv => FitsWhenPossible
<1> SUFFICES ASSUME TransInv, tpc = "ready"
             PROVE  Used <= 1024 * working_kb(cfg) /\ (Fits(Floor, Cap) => Fits(cfg, Cap))
  BY DEF FitsWhenPossible
<1>1. Fits(cfg, Cap) \/ ~Fits(Floor, Cap)
  BY DEF TransInv, ConfigFits
<1> QED
  BY <1>1, UsedCovered

\* Nothing but the steps of the model leads to a state that breaks the
\* invariant.
LEMMA TransInvariant ==
  TransSpec => []TransInv
<1>1. TransInit => TransInv
  BY InitKeeps
<1>2. TransInv /\ [TransNext]_transVars => TransInv'
  BY TransNextKeeps
<1> QED
  BY <1>1, <1>2, PTL DEF TransSpec

\* After any sequence of requests, caps, resets and passes, on every machine
\* and for every set of limits, working_kb covers the weights and the buffers
\* allocated for the configuration, and a model that degrade could make fit the
\* cap that holds now fits it.  (A cap below the smallest model, and the block
\* that alloc_blob keeps, are ModelFits and FootprintTracked, which fail.)
THEOREM ModelFitsWhenPossible ==
  TransSpec => []FitsWhenPossible
<1>1. TransInv => FitsWhenPossible
  BY InvFits
<1> QED
  BY <1>1, TransInvariant, PTL

\* Whatever reconfigured the model between two calls: the blob and the window
\* over it hold all weights, the buffers that exist are sized for the present
\* configuration, and a training or evaluation pass stays within them, as does
\* trans_generate unless ctx is below its window of TRANS_GEN_WIN tokens
\* (alloc_blob, alloc_workspace, trans_config and trans_set_act_cap).
THEOREM BuffersAlwaysMatch ==
  TransSpec => []BuffersMatch
<1>1. TransInv => BuffersMatch
  BY DEF TransInv
<1> QED
  BY <1>1, TransInvariant, PTL

\* With the cap that trans_init derives from the RAM, of at least 4 MB, weights
\* and buffers stay within it, given that the smallest model needs no more
\* (with the code's constants it needs 154 KB).
THEOREM DefaultCapHolds ==
  ASSUME working_kb(Floor) <= 4096
  PROVE  TransSpec => [](tpc = "ready" /\ acap_override_kb = 0 => Used <= 1024 * acap_kb)
<1>1. ASSUME TransInv, tpc = "ready", acap_override_kb = 0
      PROVE  Used <= 1024 * acap_kb
  <2>1. Room /\ Cap = acap_kb /\ acap_kb >= 4096
    <3>1. total_kb \in Nat
      BY <1>1, TypedRoom DEF TransInv
    <3> DEFINE b == total_kb \div 4
    <3>2. b \in Nat /\ 2^20 = 1048576
      BY <3>1
    <3> HIDE DEF b
    <3>3. Clamp(b, 4096, 2^20) >= 4096
      BY <3>2 DEF Clamp
    <3> QED
      BY <1>1, <3>3, TypedRoom DEF b, acap_kb, Cap, trans_activ_cap_kb, TransInv
  <2>2. weights_bytes_of(Floor) \in Nat /\ working_kb(Floor) \in Nat
    BY FloorTyped, WorkingIsSum
  <2>3. weights_bytes_of(Floor) \div 1024 <= 8192
    BY <2>2, WindowAssumption
  <2>4. Fits(Floor, Cap)
    BY <2>1, <2>2, <2>3 DEF Fits, Room
  <2> QED
    <3>1. working_kb(cfg) <= acap_kb
      BY <1>1, <2>1, <2>4, InvFits DEF FitsWhenPossible, Fits
    <3>2. Used \in Int /\ working_kb(cfg) \in Int /\ Used <= 1024 * working_kb(cfg)
      BY <1>1, UsedCovered
    <3>3. acap_kb \in Nat
      BY <2>1 DEF Room
    <3> DEFINE u == Used   k == working_kb(cfg)   c == acap_kb
    <3> HIDE DEF u, k, c
    <3>4. u <= 1024 * c
      <4>1. u \in Int /\ k \in Int /\ c \in Nat /\ u <= 1024 * k /\ k <= c
        BY <3>1, <3>2, <3>3 DEF u, k, c
      <4> QED
        BY <4>1
    <3> QED
      BY <3>4 DEF u, c
<1>2. TransInv => (tpc = "ready" /\ acap_override_kb = 0 => Used <= 1024 * acap_kb)
  BY <1>1
<1> QED
  BY <1>2, TransInvariant, PTL
=============================================================================
