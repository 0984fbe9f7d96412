-------------------------------- MODULE Bigram --------------------------------
(***************************************************************************)
(* The byte-bigram model (src/kernel/noc/train.c): saturating counts of    *)
(* transitions, halved when too many of them saturate in a pass, scored    *)
(* with a fixed-point logarithm and read back greedily.  Batches come from *)
(* the interaction log (module Interact), here any batch of a given set.   *)
(***************************************************************************)
EXTENDS Integers, SequencesExt

CONSTANTS LastByte,   \* 255
          Batches,    \* what il_copy_tail may return, at least TRAIN_MIN long
          Seeds,      \* the last bytes of the seeds of train_generate
          WMax,       \* 255
          SatMax,     \* 64
          MaxPasses,  \* 4
          PassBytes,  \* 1024: a pass for each of these many bytes, and one
          OutMax,     \* room for generated bytes
          MaxTrains   \* bound: training cycles

Bytes == 0..LastByte

\* The sum of a row is far from the limits of a u32.
ASSUME BigramAssumption ==
  /\ LastByte \in Nat /\ WMax \in Nat \ {0} /\ (LastByte + 1) * WMax < 2^30
  /\ SatMax \in Nat /\ PassBytes \in Nat \ {0} /\ MaxPasses \in Nat \ {0}
  /\ Batches \subseteq Seq(Bytes) /\ \A b \in Batches : Len(b) >= 2

VARIABLES
  w,        \* w[prev, next]
  pass,     \* passes still to run on the batch, 0 between calls
  batch,    \* the batch being trained on
  score,    \* what the loss was last computed from
  gen,      \* what was last generated
  trains    \* training cycles still allowed

bigramVars == <<w, pass, batch, score, gen, trains>>

BigramInit ==
  /\ w = [p \in Bytes \X Bytes |-> 0]
  /\ pass = 0 /\ batch = <<>> /\ score = {} /\ gen = <<>>
  /\ trains = MaxTrains

-----------------------------------------------------------------------------
(* log2_mbit: 1000 * log2(n), from a table of log2(1 + k/16) *)

log2t == <<0, 88, 170, 248, 322, 392, 459, 524, 585, 644, 700, 755, 807, 858, 907, 954>>

\* floor(log2(n)); the loop leaves 0 for n = 0.
Floor2(n) == IF n = 0 THEN 0 ELSE CHOOSE b \in 0..31 : 2^b <= n /\ n < 2^(b + 1)
Mantissa(n) == IF Floor2(n) >= 8 THEN n \div 2^(Floor2(n) - 8) ELSE n * 2^(8 - Floor2(n))
log2_mbit(n) == Floor2(n) * 1000 + log2t[((Mantissa(n) - 256) \div 16) + 1]

-----------------------------------------------------------------------------
Pairs(b) == [i \in 1..(Len(b) - 1) |-> <<b[i], b[i + 1]>>]

\* One transition: its weight, and how many weights have reached the cap.
Count(acc, p) ==
  IF acc.w[p] < WMax
    THEN [w   |-> [acc.w EXCEPT ![p] = @ + 1],
          sat |-> acc.sat + (IF acc.w[p] + 1 = WMax THEN 1 ELSE 0)]
    ELSE acc

\* All transitions of a batch, in their order.
Counted(ps) ==
  LET acc[i \in 0..Len(ps)] == IF i = 0 THEN [w |-> w, sat |-> 0] ELSE Count(acc[i - 1], ps[i])
  IN acc[Len(ps)]

Decays(acc) == acc.sat > SatMax

TrainStart ==
  /\ pass = 0 /\ trains > 0
  /\ \E b \in Batches :
       /\ batch' = b
       /\ pass' = Min({MaxPasses, (Len(b) \div PassBytes) + 1})
  /\ trains' = trains - 1 /\ score' = {}
  /\ UNCHANGED <<w, gen>>

\* Mutant of RowSum: the loop stops before the last column.
RowSum_LastLeftOut(v, r) ==
  LET sum[c \in Bytes] == (IF c = LastByte THEN 0 ELSE v[<<r, c>>]) + (IF c = 0 THEN 0 ELSE sum[c - 1])
  IN sum[LastByte]

RowSum(v, r) ==
  LET sum[c \in Bytes] == v[<<r, c>>] + (IF c = 0 THEN 0 ELSE sum[c - 1]) IN sum[LastByte]

\* Scoring adds log2_mbit(rt) - log2_mbit(cnt) for each transition of the
\* batch, log2_mbit(rt) if cnt is 0: the pairs of rt and cnt.
Scored(v) == {[rt |-> RowSum(v, p[1]), cnt |-> v[p]] : p \in ToSet(Pairs(batch))}

\* One accumulation pass; the last one is followed by the scoring.
TrainPass ==
  LET acc == Counted(Pairs(batch))
      v == IF Decays(acc) THEN [p \in Bytes \X Bytes |-> acc.w[p] \div 2] ELSE acc.w IN
  /\ pass > 0
  /\ w' = v /\ pass' = pass - 1
  /\ score' = (IF pass = 1 THEN Scored(v) ELSE {})
  /\ UNCHANGED <<batch, gen, trains>>

train_reset ==
  /\ pass = 0
  /\ w' = [p \in Bytes \X Bytes |-> 0]
  /\ score' = {}
  /\ UNCHANGED <<pass, batch, gen, trains>>

\* The likeliest follower of a byte, the lowest of several.
Follower(r) ==
  CHOOSE c \in Bytes : \A d \in Bytes :
    w[<<r, c>>] > w[<<r, d>>] \/ (w[<<r, c>>] = w[<<r, d>>] /\ c <= d)

Generated(seed) ==
  LET extend(out, k) ==
        LET prev == IF out.bytes = <<>> THEN seed ELSE Last(out.bytes) IN
        IF out.stop \/ w[<<prev, Follower(prev)>>] = 0
          THEN [out EXCEPT !.stop = TRUE]
          ELSE [out EXCEPT !.bytes = Append(@, Follower(prev))] IN
  FoldLeft(extend, [bytes |-> <<>>, stop |-> FALSE], [k \in 1..OutMax |-> k]).bytes

train_generate(seed) ==
  /\ pass = 0
  /\ gen' = Generated(seed)
  /\ UNCHANGED <<w, pass, batch, score, trains>>

BigramNext ==
  \/ TrainStart \/ TrainPass \/ train_reset
  \/ \E seed \in Seeds : train_generate(seed)

BigramSpec == BigramInit /\ [][BigramNext]_bigramVars

-----------------------------------------------------------------------------
(* Properties *)

BigramTypeOK ==
  /\ w \in [Bytes \X Bytes -> 0..WMax]
  /\ pass \in 0..MaxPasses

\* No unsigned difference of logarithms in the loss wraps around, also after a
\* pass that halved the weights: a count is part of the sum of its row, and the
\* table is monotone across mantissas and exponents.
LossNeverWraps ==
  \A s \in score : s.cnt >= 1 => s.rt >= s.cnt /\ log2_mbit(s.rt) >= log2_mbit(s.cnt)

\* "log2(n) * 1000 for n >= 1" (train.c:28): the loss takes no logarithm of 0,
\* for which log2_mbit reads outside its table.
LogDefined == \A s \in score : s.rt >= 1
=============================================================================
