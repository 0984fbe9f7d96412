------------------------------ MODULE MCNoosFS ------------------------------
(***************************************************************************)
(* Three files on a disk with room for two directory entries and three     *)
(* data blocks, so that saves run out of inodes, entries and clusters.     *)
(***************************************************************************)
EXTENDS NoosFS, TLC

\* The power may fail at any step.
MCAnywhere == Steps \ {"off"}

\* The system is only rebooted between operations.
MCReboot == {"idle"}

\* File names are interchangeable.
MCSymmetry == Permutations(Names)
=============================================================================
