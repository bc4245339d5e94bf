-------------------------------- MODULE MCMcp --------------------------------
(***************************************************************************)
(* Mcp with interchangeable callers.                                       *)
(***************************************************************************)
EXTENDS Mcp, TLC

Callers == Permutations(Calls)
=============================================================================
