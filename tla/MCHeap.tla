------------------------------- MODULE MCHeap -------------------------------
(***************************************************************************)
(* Frames of 96 bytes with headers of 32 (4096 and 32 in the kernel):      *)
(* requests that split a region, that use it up, and that need two frames. *)
(***************************************************************************)
EXTENDS Heap

MCRequests == {0, 48, 100}
=============================================================================
