-------------------------- MODULE MCComputeOptimizer --------------------------
(***************************************************************************)
(* Findings with and without an option of rank 1, of two types.            *)
(***************************************************************************)
EXTENDS ComputeOptimizer

MCFindings == {[current |-> "m7i", recommended |-> "m7g"], [current |-> "m7g", recommended |-> NoOption]}
=============================================================================
