------------------------------ MODULE MCStore -------------------------------
(***************************************************************************)
(* The two allocators that everything else builds on, the file system on   *)
(* disk and the heap in memory, each over its own instance: a behaviour is *)
(* one of them, the other does not move.                                   *)
(***************************************************************************)
EXTENDS MCNoosFS, MCHeap

VARIABLE part   \* the part that this behaviour is about

Init == part \in {"fs", "heap"} /\ FSInit /\ HeapInit

Next ==
  /\ UNCHANGED part
  /\ \/ part = "fs" /\ FSNext /\ UNCHANGED heapVars
     \/ part = "heap" /\ HeapNext /\ UNCHANGED fsVars

Spec == Init /\ [][Next]_<<part, fsVars, heapVars>>
=============================================================================
