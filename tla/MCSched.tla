------------------------------ MODULE MCSched ------------------------------
(* The scheduler with three user slots, a keyboard ring of one key, and     *)
(* sleeps shorter than a tick, and of two ticks.                            *)
EXTENDS Sched

MCSleepMs == {5, 20}
=============================================================================
