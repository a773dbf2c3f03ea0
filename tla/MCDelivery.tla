----------------------------- MODULE MCDelivery -----------------------------
(***************************************************************************)
(* Instances of Delivery for TLC.                                          *)
(***************************************************************************)
EXTENDS Delivery, TLC

CONSTANTS c1, c2, g1, g2

OneGroup      == [c \in Consumer |-> g1]
GroupEach     == (c1 :> g1) @@ (c2 :> g2)
=============================================================================
