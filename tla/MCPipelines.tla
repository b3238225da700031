---------------------------- MODULE MCPipelines ----------------------------
(* Instances of Pipelines for model checking. *)
EXTENDS Pipelines, TLC

CONSTANTS a1, a2, a3, x1, r1, r2

Second == {2}
=============================================================================
