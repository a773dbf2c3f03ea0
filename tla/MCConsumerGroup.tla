-------------------------- MODULE MCConsumerGroup --------------------------
(***************************************************************************)
(* Instances of ConsumerGroup for TLC.                                     *)
(***************************************************************************)
EXTENDS ConsumerGroup, TLC

\* Members are interchangeable, and so are keys.
MCSymmetry == Permutations(Member) \cup Permutations(Key)
=============================================================================
