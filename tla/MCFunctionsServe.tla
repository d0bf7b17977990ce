-------------------------- MODULE MCFunctionsServe --------------------------
(***************************************************************************)
(* One directory with the functions and one that they may import from.     *)
(***************************************************************************)
EXTENDS FunctionsServe
=============================================================================
