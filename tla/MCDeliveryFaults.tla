-------------------------- MODULE MCDeliveryFaults --------------------------
(***************************************************************************)
(* Instances of DeliveryFaults for TLC.                                    *)
(***************************************************************************)
EXTENDS DeliveryFaults, TLC

CONSTANTS c1, g1, g2

\* The collector is of one group; the other has none and commits nothing.
OneGroup == [c \in Consumer |-> g1]
=============================================================================
