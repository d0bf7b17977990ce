------------------------------ MODULE JobPool -------------------------------
(***************************************************************************)
(* What the job queue of pkg/queue/queue.go promises to its callers, with  *)
(* no channel and no wait group: a pool in which at most Cap jobs run at a *)
(* time, in which an error is handed to the caller at most once, and whose *)
(* collection ends only when every job has finished and every error has    *)
(* been handed over.  JobQueue implements it (JobQueue!PoolSpec).          *)
(***************************************************************************)
EXTENDS Naturals, FiniteSets

CONSTANTS NumJobs, Cap

Jobs == 1 .. NumJobs

VARIABLES started,   \* the jobs the caller has put
          running,   \* the jobs inside job()
          failed,    \* the jobs that have finished with an error
          reported,  \* the errors handed to the caller
          collected  \* has Collect returned?

vars == <<started, running, failed, reported, collected>>

Init ==
  /\ started = {}
  /\ running = {}
  /\ failed = {}
  /\ reported = {}
  /\ collected = FALSE

\* The caller is handed at most one error that it has not been given yet.
HandOver ==
  \/ reported' = reported
  \/ \E e \in failed \ reported : reported' = reported \cup {e}

\* Put starts a job while fewer than Cap run, and may hand over an error.
Start(i) ==
  /\ ~collected
  /\ i \notin started
  /\ Cardinality(running) < Cap
  /\ started' = started \cup {i}
  /\ running' = running \cup {i}
  /\ HandOver
  /\ UNCHANGED <<failed, collected>>

Finish(i) ==
  /\ i \in running
  /\ running' = running \ {i}
  /\ failed' \in {failed, failed \cup {i}}
  /\ UNCHANGED <<started, reported, collected>>

\* One error is handed over by Collect, when no job runs any more.
Report ==
  /\ ~collected
  /\ running = {}
  /\ HandOver
  /\ UNCHANGED <<started, running, failed, collected>>

Collect ==
  /\ ~collected
  /\ running = {}
  /\ reported = failed
  /\ collected' = TRUE
  /\ UNCHANGED <<started, running, failed, reported>>

Next ==
  \/ \E i \in Jobs : Start(i) \/ Finish(i)
  \/ Report
  \/ Collect

Spec == Init /\ [][Next]_vars
=============================================================================
