------------------------------- MODULE MCLearn -------------------------------
(***************************************************************************)
(* The shell's line editor and the parts of the system that learn from     *)
(* what the user does, each over its own instance: a behaviour is one of   *)
(* them, the others do not move.                                           *)
(***************************************************************************)
EXTENDS Interact, Bigram, Corpus, Predictor, TransConfig, LineEdit

VARIABLE part   \* the part that this behaviour is about

vars == <<part, logVars, bigramVars, corpusVars, predictorVars, transVars, lineVars>>

Init ==
  /\ part \in {"log", "bigram", "corpus", "predictor", "model", "line"}
  /\ LogInit /\ BigramInit /\ CorpusInit /\ PredictorInit /\ TransInit /\ LineInit
  /\ part # "predictor" => kind = "commands"
  /\ part # "model" => \A r \in Rams : total_kb <= r
  /\ part # "line" => strlen(buf) = 0

Next ==
  /\ UNCHANGED part
  /\ \/ part = "log" /\ LogNext
        /\ UNCHANGED <<bigramVars, corpusVars, predictorVars, transVars, lineVars>>
     \/ part = "bigram" /\ BigramNext
        /\ UNCHANGED <<logVars, corpusVars, predictorVars, transVars, lineVars>>
     \/ part = "corpus" /\ CorpusNext
        /\ UNCHANGED <<logVars, bigramVars, predictorVars, transVars, lineVars>>
     \/ part = "predictor" /\ PredictorNext
        /\ UNCHANGED <<logVars, bigramVars, corpusVars, transVars, lineVars>>
     \/ part = "model" /\ TransNext
        /\ UNCHANGED <<logVars, bigramVars, corpusVars, predictorVars, lineVars>>
     \/ part = "line" /\ LineNext
        /\ UNCHANGED <<logVars, bigramVars, corpusVars, predictorVars, transVars>>

Spec == Init /\ [][Next]_vars

\* The buffers, counters and files of the parts stay within their sizes:
\* the log leaves room for its terminator, weights fit a byte, a checkpoint
\* fits its file.
LearnTypeOK == LogTypeOK /\ BigramTypeOK /\ CorpusTypeOK /\ PredictorTypeOK
                 /\ LineTypeOK

MCCommands == {<<"\\">>}
MCBatches == {<<0, 1, 0>>, <<2, 0, 1, 0>>, <<0, 1, 2, 0, 1>>}
=============================================================================
