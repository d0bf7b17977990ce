----------------------------- MODULE BulkDeploy -----------------------------
(***************************************************************************)
(* functions deploy --use-api of two or more functions: EdgeRuntimeAPI's   *)
(* bulkUpload on top of the job queue.                                     *)
(*                                                                         *)
(* Each job bundles one function on the server (bundleOnly: nothing goes   *)
(* live) and fills the function's entry of toUpdate, an array that the     *)
(* jobs share with the caller.  When Collect has returned without an error,*)
(* one request makes the whole array live.  The caller of Put returns with *)
(* the first error and leaves the other uploads behind (policy "stop"); the *)
(* callers of the two other policies run beside it in the same model, fill *)
(* an array that nobody reads, and never send the request.                 *)
(***************************************************************************)
EXTENDS JobQueue

VARIABLES
  filled,  \* entries of toUpdate that their job has written
  live,    \* functions that the project runs in the new version
  update   \* the bulk update: "no" | "done" | "failed"

bulkVars == <<vars, filled, live, update>>

-----------------------------------------------------------------------------
(***************************************************************************)
(* Faulty variants, each a plausible slip in the code.                     *)
(***************************************************************************)

\* Collect's error is looked at after the bulk update.
ErrorIgnored == collected

-----------------------------------------------------------------------------

BulkInit ==
  /\ Init
  /\ filled = {}
  /\ live = {}
  /\ update = "no"

\* The job of function i: the upload is answered, or fails.
Upload(i) ==
  /\ Finish(i)
  /\ filled' = IF outcome'[i] = NoErr THEN filled \cup {i} ELSE filled
  /\ UNCHANGED <<live, update>>

\* What the queue and the caller's use of it do besides.
QueueStep ==
  /\ \/ Put \/ CallCollect \/ IterationFails
     \/ WaitReturns \/ Drain \/ CollectReturns
     \/ \E i \in Jobs : Send(i) \/ Exit(i)
  /\ UNCHANGED <<filled, live, update>>

\* No Put has returned an error, and neither has Collect.
Collected == collected /\ reported = {}

\* V1BulkUpdateFunctions: the server takes the array as it is at this moment,
\* all of it or none; its answer may be lost.
BulkUpdate ==
  /\ policy = "stop"
  /\ caller = "returned"
  /\ Collected
  /\ update = "no"
  /\ \/ live' = filled /\ update' \in {"done", "failed"}
     \/ live' = live /\ update' = "failed"
  /\ UNCHANGED <<vars, filled>>

\* Nothing is left to run.
BulkQuiescent ==
  /\ Quiescent
  /\ policy = "stop" /\ Collected => update # "no"
  /\ UNCHANGED bulkVars

BulkNext ==
  \/ QueueStep
  \/ \E i \in Jobs : Upload(i)
  \/ BulkUpdate
  \/ BulkQuiescent

BulkSpec == BulkInit /\ [][BulkNext]_bulkVars
BulkFairSpec == BulkSpec /\ Fairness

-----------------------------------------------------------------------------
\* Every variable holds a value of its type.
BulkTypeOK ==
  /\ filled \subseteq Jobs
  /\ live \subseteq Jobs
  /\ update \in {"no", "done", "failed"}

\* A deploy goes live as a whole: if any upload has failed, or the command has
\* returned early, no function changes.  When the request is sent, every entry
\* of the shared array has been filled and no upload is running any more, so
\* that no job writes an entry while the request reads it.
AllOrNothing ==
  /\ update # "no" => filled = Jobs /\ Failed = {} /\ Pending = {}
  /\ live # {} => update # "no" /\ live = Jobs
=============================================================================
