------------------------- MODULE MCFunctionsDeploy -------------------------
(***************************************************************************)
(* FunctionsDeploy for TLC: two clients and two functions, the least for a *)
(* race and for a bulk update.                                             *)
(***************************************************************************)
EXTENDS FunctionsDeploy, TLC

Symmetry == Permutations(Clients) \cup Permutations(Functions)
=============================================================================
