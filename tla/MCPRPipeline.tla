---------------------------- MODULE MCPRPipeline ----------------------------
(***************************************************************************)
(* Instances of PRPipeline for TLC: one commit, which breaks what the      *)
(* baseline promises.                                                      *)
(***************************************************************************)
EXTENDS PRPipeline

CONSTANTS a1, v0

MCVerdict ==
    [bc \in ({a1, v0} \X {a1, v0}) |->
        IF bc = <<v0, a1>> THEN "BLOCK" ELSE "PASS"]

=============================================================================
