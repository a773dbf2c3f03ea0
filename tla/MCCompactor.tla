---------------------------- MODULE MCCompactor ----------------------------
(***************************************************************************)
(* Instances of Compactor for TLC.                                         *)
(***************************************************************************)
EXTENDS Compactor, TLC

MCMaxLength  == <<0, 2>>   \* every message has a key of the second partition
MCNoMessages == <<0>>

\* Loops are interchangeable (runs that check no liveness).
MCSymmetry == Permutations(Loop)
=============================================================================
