---------------------------- MODULE MCPartition ----------------------------
(***************************************************************************)
(* Instances of Partition for TLC.                                         *)
(***************************************************************************)
EXTENDS Partition, TLC

\* Groups and goroutines are interchangeable (safety runs only).
MCSymmetry == Permutations(Group) \cup Permutations(Proc)
=============================================================================
