------------------------------ MODULE JobQueue ------------------------------
(***************************************************************************)
(* The background job processor of pkg/queue/queue.go and the three ways   *)
(* its callers drive it.                                                   *)
(*                                                                         *)
(* A JobQueue is one buffered channel, errCh, that plays two roles at once *)
(* : its length is the number of idle workers, and its values are the      *)
(* errors of the jobs those workers ran last.  Put takes a token (and with *)
(* it the error of an EARLIER job) before it starts the new job; the job's *)
(* goroutine gives the token back with its own error; Collect waits for    *)
(* the wait group, then exchanges every token for nil.                     *)
(*                                                                         *)
(* Jobs are started in the order 1..NumJobs by one caller goroutine.  The  *)
(* error of job i is the number i itself, so that errors can be told apart *)
(* and NoErr (nil) is 0.  policy is what the caller does with an error     *)
(* that Put returns:                                                       *)
(*   "stop"  return it at once, without Collect                            *)
(*           (bulkUpload, StorageAPI.UpsertObjects, template download)     *)
(*   "join"  stop putting, then Collect and return both                    *)
(*           (storage cp -r, both directions)                              *)
(*   "log"   log it and go on, then Collect                                *)
(*           (LinkServices, listRemoteImages)                              *)
(***************************************************************************)
EXTENDS Naturals, Sequences, FiniteSets

CONSTANTS NumJobs,   \* how many jobs the caller has to run
          Cap        \* maxConcurrency of NewJobQueue

ASSUME NumJobsAssumption == NumJobs \in Nat
ASSUME CapAssumption == Cap \in Nat

Jobs == 1 .. NumJobs
NoErr == 0
Policies == {"stop", "join", "log"}

VARIABLES
  policy,    \* which of the callers drives the queue, fixed from the start
  errCh,     \* the channel: a sequence of errors, one per idle worker
  wg,        \* counter of the wait group
  job,       \* where the goroutine of each job stands
  outcome,   \* what job() evaluated to, for the jobs that have finished
  next,      \* the job that the caller's loop puts next
  caller,    \* "put" | "wait" | "drain" | "returned"
  drained,   \* iterations of Collect's loop already done
  reported,  \* the errors Put and Collect have handed to the caller
  collected  \* did the caller go through Collect?

vars == <<policy, errCh, wg, job, outcome, next, caller, drained, reported,
          collected>>

\* The errors that one received channel value adds to what the caller knows.
ErrorsOf(e) == {e} \ {NoErr}

In(states) == {i \in Jobs : job[i] \in states}

\* Jobs whose goroutine is inside job(): the concurrency the queue bounds.
Running == In({"running"})
\* Jobs whose goroutine owns a worker token.
Holding == In({"running", "sending"})
\* Jobs whose goroutine has not called wg.Done yet.
Pending == In({"running", "sending", "sent"})
\* Jobs that have finished with an error.
Failed ==
  {i \in In({"sending", "sent", "exited"}) : outcome[i] # NoErr}

\* Where the caller goes after Put has returned err.
AfterPut(err) ==
  IF err = NoErr \/ policy = "log" THEN "put"
  ELSE IF policy = "join" THEN "wait" ELSE "returned"

-----------------------------------------------------------------------------
(***************************************************************************)
(* Faulty variants of the steps below, each a plausible slip in queue.go.  *)
(***************************************************************************)

\* Put looks at the last error without taking the worker's token.
PutWithoutToken ==
  /\ caller = "put"
  /\ next \in Jobs
  /\ wg' = wg + 1
  /\ job' = [job EXCEPT ![next] = "running"]
  /\ next' = next + 1
  /\ UNCHANGED <<policy, errCh, outcome, caller, drained, reported, collected>>

\* Collect does not wait for the group.
WaitSkipped ==
  /\ caller = "wait"
  /\ caller' = "drain"
  /\ drained' = 0
  /\ UNCHANGED <<policy, errCh, wg, job, outcome, next, reported, collected>>

\* Collect puts the error back instead of nil.
DrainPutsBack ==
  /\ caller = "drain"
  /\ drained < Cap
  /\ errCh # <<>>
  /\ errCh' = Append(Tail(errCh), Head(errCh))
  /\ reported' = reported \cup ErrorsOf(Head(errCh))
  /\ drained' = drained + 1
  /\ UNCHANGED <<policy, wg, job, outcome, next, caller, collected>>

\* Collect empties the channel without refilling it.
DrainWithoutRefill ==
  /\ caller = "drain"
  /\ drained < Cap
  /\ errCh # <<>>
  /\ errCh' = Tail(errCh)
  /\ reported' = reported \cup ErrorsOf(Head(errCh))
  /\ drained' = drained + 1
  /\ UNCHANGED <<policy, wg, job, outcome, next, caller, collected>>

\* The goroutine gives its token back with nil, whatever job() returned.
SendNil(i) ==
  /\ job[i] = "sending"
  /\ Len(errCh) < Cap
  /\ errCh' = Append(errCh, NoErr)
  /\ job' = [job EXCEPT ![i] = "sent"]
  /\ UNCHANGED <<policy, wg, outcome, next, caller, drained, reported,
                 collected>>

\* wg.Done is skipped when the job failed.
ExitWithoutDone(i) ==
  /\ job[i] = "sent"
  /\ wg' = IF outcome[i] = NoErr THEN wg - 1 ELSE wg
  /\ job' = [job EXCEPT ![i] = "exited"]
  /\ UNCHANGED <<policy, errCh, outcome, next, caller, drained, reported,
                 collected>>

-----------------------------------------------------------------------------
(***************************************************************************)
(* NewJobQueue: the channel is filled with one nil per worker.             *)
(***************************************************************************)
Init ==
  /\ policy \in Policies
  /\ errCh = [k \in 1 .. Cap |-> NoErr]
  /\ wg = 0
  /\ job = [i \in Jobs |-> "new"]
  /\ outcome = [i \in Jobs |-> NoErr]
  /\ next = 1
  /\ caller = "put"
  /\ drained = 0
  /\ reported = {}
  /\ collected = FALSE

(***************************************************************************)
(* The caller's goroutine.                                                 *)
(***************************************************************************)

\* Put: blocks until a worker is idle, takes its token and the error in it,
\* and starts the job, whatever that error was.
Put ==
  /\ caller = "put"
  /\ next \in Jobs
  /\ errCh # <<>>
  /\ errCh' = Tail(errCh)
  /\ reported' = reported \cup ErrorsOf(Head(errCh))
  /\ wg' = wg + 1
  /\ job' = [job EXCEPT ![next] = "running"]
  /\ next' = next + 1
  /\ caller' = AfterPut(Head(errCh))
  /\ UNCHANGED <<policy, outcome, drained, collected>>

\* The loop has put every job and calls Collect, which starts with wg.Wait.
CallCollect ==
  /\ caller = "put"
  /\ next \notin Jobs
  /\ caller' = "wait"
  /\ UNCHANGED <<policy, errCh, wg, job, outcome, next, drained, reported, collected>>

\* The iteration that feeds the loop fails between two Puts: a directory
\* walk, a paginated listing or a GitHub listing returns an error of its own.
\* LinkServices and listRemoteImages loop over a fixed slice: they never fail.
IterationFails ==
  /\ caller = "put"
  /\ next \in Jobs
  /\ policy # "log"
  /\ caller' = IF policy = "join" THEN "wait" ELSE "returned"
  /\ UNCHANGED <<policy, errCh, wg, job, outcome, next, drained, reported, collected>>

\* wg.Wait returns.
WaitReturns ==
  /\ caller = "wait"
  /\ wg = 0
  /\ caller' = "drain"
  /\ drained' = 0
  /\ UNCHANGED <<policy, errCh, wg, job, outcome, next, reported, collected>>

\* One iteration of Collect's loop: receive a token, put a nil back.
Drain ==
  /\ caller = "drain"
  /\ drained < Cap
  /\ errCh # <<>>
  /\ errCh' = Append(Tail(errCh), NoErr)
  /\ reported' = reported \cup ErrorsOf(Head(errCh))
  /\ drained' = drained + 1
  /\ UNCHANGED <<policy, wg, job, outcome, next, caller, collected>>

\* Collect returns the joined errors.
CollectReturns ==
  /\ caller = "drain"
  /\ drained = Cap
  /\ caller' = "returned"
  /\ collected' = TRUE
  /\ UNCHANGED <<policy, errCh, wg, job, outcome, next, drained, reported>>

(***************************************************************************)
(* The goroutine of job i: run job(), send its error, then the deferred    *)
(* wg.Done.                                                                *)
(***************************************************************************)
Finish(i) ==
  /\ job[i] = "running"
  /\ job' = [job EXCEPT ![i] = "sending"]
  /\ \E err \in {NoErr, i} : outcome' = [outcome EXCEPT ![i] = err]
  /\ UNCHANGED <<policy, errCh, wg, next, caller, drained, reported, collected>>

Send(i) ==
  /\ job[i] = "sending"
  /\ Len(errCh) < Cap
  /\ errCh' = Append(errCh, outcome[i])
  /\ job' = [job EXCEPT ![i] = "sent"]
  /\ UNCHANGED <<policy, wg, outcome, next, caller, drained, reported, collected>>

Exit(i) ==
  /\ job[i] = "sent"
  /\ wg' = wg - 1
  /\ job' = [job EXCEPT ![i] = "exited"]
  /\ UNCHANGED <<policy, errCh, outcome, next, caller, drained, reported, collected>>

\* Nothing is left to run.
Quiescent ==
  /\ caller = "returned"
  /\ Pending = {}
  /\ UNCHANGED vars

Next ==
  \/ Put \/ CallCollect \/ IterationFails
  \/ WaitReturns \/ Drain \/ CollectReturns
  \/ \E i \in Jobs : Finish(i) \/ Send(i) \/ Exit(i)
  \/ Quiescent

\* Every goroutine that can take a step of the queue takes it.  Nothing obliges
\* job() to return, nor an iteration to fail: the clients that the jobs of
\* functions deploy, cp to a project and bootstrap use have no time-out.
Fairness ==
  /\ WF_vars(Put) /\ WF_vars(CallCollect) /\ WF_vars(WaitReturns)
  /\ WF_vars(Drain) /\ WF_vars(CollectReturns)
  /\ \A i \in Jobs : WF_vars(Send(i)) /\ WF_vars(Exit(i))

Spec == Init /\ [][Next]_vars
FairSpec == Spec /\ Fairness

-----------------------------------------------------------------------------
(***************************************************************************)
(* Properties                                                              *)
(***************************************************************************)

\* Every variable holds a value of its type.
TypeOK ==
  /\ policy \in Policies
  /\ errCh \in Seq({NoErr} \cup Jobs)
  /\ wg \in Nat
  /\ job \in [Jobs -> {"new", "running", "sending", "sent", "exited"}]
  /\ outcome \in [Jobs -> {NoErr} \cup Jobs]
  /\ next \in 1 .. NumJobs + 1
  /\ caller \in {"put", "wait", "drain", "returned"}
  /\ drained \in 0 .. Cap
  /\ reported \subseteq Jobs
  /\ collected \in BOOLEAN

\* A worker token is never created or destroyed: the idle workers in the
\* channel and the goroutines that own one always add up to the capacity
\* ("After finishing a job, the worker is added back to the channel").
TokensConserved == Len(errCh) + Cardinality(Holding) = Cap

\* At most Cap jobs run at the same time, the promise in maxConcurrency.
BoundedConcurrency == Cardinality(Running) <= Cap

\* The goroutine of a job never blocks on its send, even when the caller has
\* left the queue without Collect: a blocked send would leak the goroutine
\* and keep wg.Wait from ever returning.
SendNeverBlocks == \A i \in Jobs : job[i] = "sending" => Len(errCh) < Cap

\* No error is lost on the way: the error of a job that has given its token
\* back is in the caller's hands or still in the channel.
NoErrorLost ==
  \A i \in Failed : job[i] # "sending" =>
    \/ i \in reported
    \/ \E k \in 1 .. Len(errCh) : errCh[k] = i

\* No error is reported twice, by two Puts or by a Put and by Collect: it is
\* in the channel once at most, and not any more when it has been reported.
ReportedOnce ==
  \A k \in 1 .. Len(errCh) : errCh[k] # NoErr =>
    /\ errCh[k] \notin reported
    /\ \A m \in 1 .. Len(errCh) : errCh[m] = errCh[k] => m = k

\* "Collect waits for all jobs to finish, returning any errors": when it has
\* returned, no goroutine is left and the caller has every error.
CollectIsComplete ==
  collected => /\ Pending = {}
               /\ reported = Failed

\* Collect hands back a queue as NewJobQueue made it, ready for another round.
CollectResets == collected => errCh = [k \in 1 .. Cap |-> NoErr]

\* A job runs once, so that each of them returns if none is left running.
JobsReturn == []<>(Running = {})

\* Each Put blocks only while all workers are busy, and Collect only while a
\* job runs: nothing but a job that never returns keeps the caller from its
\* result.
CallerReturns == JobsReturn => <>(caller = "returned")

\* The queue implements the pool: started are the jobs whose goroutine
\* exists, and an error counts as the pool's from the moment job() returns.
Pool == INSTANCE JobPool WITH
          started <- In({"running", "sending", "sent", "exited"}),
          running <- Running,
          failed <- Failed
PoolSpec == Pool!Spec

=============================================================================
