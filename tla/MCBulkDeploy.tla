---------------------------- MODULE MCBulkDeploy ----------------------------
(***************************************************************************)
(* The job queue with its three kinds of callers, bulk deploys among them, *)
(* for TLC: four jobs over two workers make a worker serve two jobs, a Put *)
(* block, and errors wait in the channel while others run.                 *)
(***************************************************************************)
EXTENDS BulkDeploy
=============================================================================
