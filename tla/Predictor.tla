------------------------------- MODULE Predictor -------------------------------
(***************************************************************************)
(* The two next-item predictors: of commands (src/kernel/noc/predict.c)    *)
(* and of faulting pages (src/kernel/mm/pgpred.c).  Both keep the last     *)
(* items in a ring and predict the most frequent follower of the newest    *)
(* item, or else the most frequent item.  They differ in what is recorded  *)
(* and in the answer for `none`: NULL, which is no command, and 0, which   *)
(* is also the number of the first page.                                   *)
(***************************************************************************)
EXTENDS Integers, SequencesExt

CONSTANTS HIST_MAX,   \* CMDHIST_MAX, PGHIST_MAX
          Typed,      \* commands
          Metas,      \* those is_meta tells apart
          Pages,      \* page numbers, 0 among them
          MaxItems    \* bound: items fed since the ring was last cleared

ASSUME PredictorAssumption == HIST_MAX \in Nat \ {0} /\ Metas \subseteq Typed /\ MaxItems \in Nat

VARIABLES
  kind,   \* "commands" or "pages"
  ring,   \* hist[], pfns[]
  count,  \* hist_count, count
  wr,     \* hist_wr, wr
  seen    \* history: what was recorded since the ring was last cleared

predictorVars == <<kind, ring, count, wr, seen>>

None == IF kind = "pages" THEN 0 ELSE "NULL"

PredictorInit ==
  /\ kind \in {"commands", "pages"}
  /\ ring = [i \in 0..(HIST_MAX - 1) |-> None] /\ count = 0 /\ wr = 0 /\ seen = <<>>

Record(x) ==
  /\ Len(seen) < MaxItems
  /\ ring' = [ring EXCEPT ![wr] = x]
  /\ wr' = (wr + 1) % HIST_MAX
  /\ count' = Min({count + 1, HIST_MAX})
  /\ seen' = Append(seen, x)
  /\ UNCHANGED kind

\* Queries and resets of the predictor itself are not recorded.
cmdhist_add(c) == kind = "commands" /\ c \notin Metas /\ Record(c)
pgpred_fault(p) == kind = "pages" /\ Record(p)

\* cmdhist_clear, pgpred_clear; the ring keeps its bytes.
clear ==
  /\ count' = 0 /\ wr' = 0 /\ seen' = <<>>
  /\ UNCHANGED <<kind, ring>>

-----------------------------------------------------------------------------
\* Mutant of hist_idx: counted from the place of the next write.
hist_idx_FromNext(back) == (wr + HIST_MAX - back + 1) % HIST_MAX

hist_idx(back) == (wr + HIST_MAX - back) % HIST_MAX
Entry(back) == ring[hist_idx(back)]

\* pick_best over the entries in hits: the item that most of them hold, among
\* several the one whose oldest such entry is the youngest (the scan runs
\* from new to old and overwrites the recency of a candidate).
Same(hits, i) == {j \in hits : Entry(j) = Entry(i)}
Beats(hits, i, j) ==
  \/ Cardinality(Same(hits, i)) > Cardinality(Same(hits, j))
  \/ /\ Cardinality(Same(hits, i)) = Cardinality(Same(hits, j))
     /\ Max(Same(hits, i)) <= Max(Same(hits, j))
pick_best(hits) ==
  IF hits = {} THEN None
  ELSE Entry(CHOOSE i \in hits : \A j \in hits : Beats(hits, i, j))

Followers == {i \in 1..(count - 1) : Entry(i + 1) = Entry(1)}

\* cmdhist_predict, pgpred_predict.
predict == IF pick_best(Followers) # None THEN pick_best(Followers) ELSE pick_best(1..count)

PredictorNext ==
  \/ \E c \in Typed : cmdhist_add(c)
  \/ \E p \in Pages : pgpred_fault(p)
  \/ clear

PredictorSpec == PredictorInit /\ [][PredictorNext]_predictorVars

-----------------------------------------------------------------------------
(* Properties *)

PredictorTypeOK == count \in 0..HIST_MAX /\ wr \in 0..(HIST_MAX - 1)

\* What the last HIST_MAX recorded items are.
Recent == SubSeq(seen, Len(seen) - Min({Len(seen), HIST_MAX}) + 1, Len(seen))

\* The items of s at the places in at that are most frequent there.
MostFrequent(s, at) ==
  {s[i] : i \in {i \in at : \A j \in at :
     Cardinality({k \in at : s[k] = s[i]}) >= Cardinality({k \in at : s[k] = s[j]})}}

\* Also after the ring has wrapped or was cleared, the prediction is a most
\* frequent follower of the last item within the last HIST_MAX items, or a
\* most frequent item of them if the last one was never followed by
\* anything (predict.c:4 "the command most likely to follow what was just
\* typed").  Page 0 as the likeliest follower counts as no follower.
PredictsLikeliest ==
  LET n == Len(Recent)
      after == {i \in 2..n : Recent[i - 1] = Recent[n]} IN
  IF n = 0 THEN predict = None
  ELSE \/ predict \in MostFrequent(Recent, after)
       \/ /\ after = {} \/ None \in MostFrequent(Recent, after)
          /\ predict \in MostFrequent(Recent, 1..n)
=============================================================================
