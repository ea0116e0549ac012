----------------------------- MODULE MCPipeline -----------------------------
(***************************************************************************)
(* Instances of Pipeline for TLC.                                          *)
(***************************************************************************)
EXTENDS Pipeline, TLC

CONSTANTS NB, c1, c2

FewBlocks == [ch \in Channels |-> IF ch = WB THEN 2 ELSE 1]
=============================================================================
