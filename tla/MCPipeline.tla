----------------------------- MODULE MCPipeline -----------------------------
(***************************************************************************)
(* Instances of Pipeline for TLC.                                          *)
(***************************************************************************)
EXTENDS Pipeline, TLC

CONSTANTS g1, g2

JustGpu       == <<g1>>
OneGpu        == <<g1, NoGpu>>
MCPartitionOf == (g1 :> 1) @@ (g2 :> 2)
=============================================================================
