----------------------------- MODULE MCJobQueue -----------------------------
(***************************************************************************)
(* JobQueue for TLC: four jobs over two workers make a worker serve two    *)
(* jobs, a Put block, and errors wait in the channel while others run.     *)
(***************************************************************************)
EXTENDS JobQueue
=============================================================================
