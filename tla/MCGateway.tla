----------------------------- MODULE MCGateway -----------------------------
(***************************************************************************)
(* Instances of Gateway for TLC.                                           *)
(***************************************************************************)
EXTENDS Gateway, TLC

CONSTANT g1

File            == <<g1>>
OnePartition    == [g \in Gpu |-> 1]
UpToFirstSecond == {<<NoTime, 0>>}
=============================================================================
