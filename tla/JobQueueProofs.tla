--------------------------- MODULE JobQueueProofs ---------------------------
(***************************************************************************)
(* For every number of jobs and every capacity, the job queue keeps its    *)
(* tokens, bounds its concurrency, neither loses nor repeats an error, and *)
(* implements the JobPool specification.  The bulk deploy that is built on *)
(* it goes live as a whole or not at all: every step of BulkDeploy is a    *)
(* step of JobQueue or leaves the queue alone, so that the invariant of    *)
(* the queue carries over.                                                 *)
(***************************************************************************)
EXTENDS BulkDeploy, FiniteSetTheorems, SequenceTheorems, TLAPS

\* The jobs whose error has left their goroutine.
Given == {i \in Failed : job[i] # "sending"}

\* The wait group counts the goroutines that have not exited.
WgCounts == wg = Cardinality(Pending)

\* The loop starts the jobs in order.
StartedInOrder == \A i \in Jobs : job[i] = "new" <=> next <= i

\* A job can only fail with its own error.
OwnErrors == \A i \in Jobs : outcome[i] \in {NoErr, i}

\* The channel and the caller hold errors of jobs that gave them away.
ErrorsGiven ==
  /\ \A k \in 1 .. Len(errCh) : errCh[k] \in {NoErr} \cup Given
  /\ reported \subseteq Given

\* Collect's loop runs with no job left, and refills the channel from its end.
Draining ==
  caller = "drain" =>
    /\ wg = 0
    /\ \A k \in 1 .. Len(errCh) : k > Cap - drained => errCh[k] = NoErr

CollectedReturned == collected => caller = "returned"

\* The inductive invariant.
IInv ==
  /\ TypeOK
  /\ TokensConserved
  /\ WgCounts
  /\ StartedInOrder
  /\ OwnErrors
  /\ ErrorsGiven
  /\ NoErrorLost
  /\ ReportedOnce
  /\ Draining
  /\ CollectedReturned
  /\ CollectIsComplete
  /\ CollectResets

USE NumJobsAssumption, CapAssumption

-----------------------------------------------------------------------------
(***************************************************************************)
(* Lemmas about the sets of jobs and about the channel                     *)
(***************************************************************************)

\* Sets of jobs are finite: their cardinality is a number.
LEMMA InFinite ==
  ASSUME NEW S
  PROVE  /\ IsFiniteSet(In(S))
         /\ Cardinality(In(S)) \in Nat
<1>1. IsFiniteSet(Jobs)
  BY FS_Interval DEF Jobs
<1>2. In(S) \in SUBSET Jobs
  BY DEF In
<1> QED
  BY <1>1, <1>2, FS_Subset, FS_CardinalityType

\* The two sets that the invariant counts.
LEMMA CountedFinite ==
  /\ IsFiniteSet(Holding) /\ Cardinality(Holding) \in Nat
  /\ IsFiniteSet(Pending) /\ Cardinality(Pending) \in Nat
  BY InFinite DEF Holding, Pending

\* Receiving from a channel that is not empty.
LEMMA Receive ==
  ASSUME NEW S, NEW q \in Seq(S), q # <<>>
  PROVE  /\ Len(q) \in Nat \ {0}
         /\ Head(q) = q[1]
         /\ Head(q) \in S
         /\ Tail(q) \in Seq(S)
         /\ Len(Tail(q)) = Len(q) - 1
         /\ \A k \in 1 .. Len(q) - 1 : Tail(q)[k] = q[k + 1]
  OBVIOUS

\* Sending to a channel.
LEMMA SendTo ==
  ASSUME NEW S, NEW q \in Seq(S), NEW e \in S
  PROVE  /\ Append(q, e) \in Seq(S)
         /\ Len(Append(q, e)) = Len(q) + 1
         /\ \A k \in 1 .. Len(q) : Append(q, e)[k] = q[k]
         /\ Append(q, e)[Len(q) + 1] = e
  OBVIOUS

-----------------------------------------------------------------------------
(***************************************************************************)
(* The inductive invariant                                                 *)
(***************************************************************************)

LEMMA InitIInv == Init => IInv
<1> SUFFICES ASSUME Init
             PROVE  IInv
  OBVIOUS
<1>1. errCh \in Seq({NoErr} \cup Jobs) /\ Len(errCh) = Cap
  BY DEF Init, NoErr
<1>2. TypeOK
  <2>1. next \in 1 .. NumJobs + 1 /\ drained \in 0 .. Cap
    BY DEF Init
  <2> QED
    BY <1>1, <2>1 DEF Init, TypeOK
<1>3. Pending = {} /\ Holding = {} /\ Failed = {}
  BY DEF Init, Pending, Holding, Failed, In
<1>4. TokensConserved /\ WgCounts
  BY <1>1, <1>3, FS_EmptySet DEF Init, TokensConserved, WgCounts
<1>5. StartedInOrder /\ OwnErrors
  BY DEF Init, StartedInOrder, OwnErrors, Jobs
<1>6. ErrorsGiven /\ NoErrorLost /\ ReportedOnce
  BY <1>1, <1>3 DEF Init, ErrorsGiven, NoErrorLost, ReportedOnce
<1>7. Draining /\ CollectedReturned /\ CollectIsComplete /\ CollectResets
  BY DEF Init, Draining, CollectedReturned, CollectIsComplete, CollectResets
<1> QED
  BY <1>2, <1>4, <1>5, <1>6, <1>7 DEF IInv

LEMMA PutStep == IInv /\ Put => IInv'
<1> SUFFICES ASSUME IInv, Put
             PROVE  IInv'
  OBVIOUS
<1> USE DEF IInv
<1>1. /\ job' = [job EXCEPT ![next] = "running"]
      /\ next \in Jobs
      /\ job[next] = "new"
      /\ next' = next + 1
  BY DEF Put, StartedInOrder, TypeOK, Jobs
<1>2. /\ Len(errCh) \in Nat \ {0}
      /\ Head(errCh) = errCh[1]
      /\ Head(errCh) \in {NoErr} \cup Jobs
      /\ errCh' \in Seq({NoErr} \cup Jobs)
      /\ Len(errCh') = Len(errCh) - 1
      /\ \A k \in 1 .. Len(errCh) - 1 : errCh'[k] = errCh[k + 1]
  BY Receive DEF Put, TypeOK
<1>3. TypeOK'
  <2>1. next' \in 1 .. NumJobs + 1
    BY <1>1 DEF Jobs
  <2>2. reported' \subseteq Jobs
    BY <1>2 DEF Put, TypeOK, ErrorsOf
  <2>3. caller' \in {"put", "wait", "drain", "returned"}
    BY DEF Put, AfterPut
  <2> QED
    BY <2>1, <2>2, <2>3, <1>1, <1>2 DEF Put, TypeOK
<1>4. TokensConserved'
  <2>1. Holding' = Holding \cup {next} /\ next \notin Holding
    BY <1>1 DEF Holding, In, TypeOK
  <2>2. Cardinality(Holding') = Cardinality(Holding) + 1
    BY <2>1, CountedFinite, FS_AddElement
  <2> QED
    BY <2>2, <1>2, CountedFinite DEF TokensConserved
<1>5. WgCounts'
  <2>1. Pending' = Pending \cup {next} /\ next \notin Pending
    BY <1>1 DEF Pending, In, TypeOK
  <2>2. Cardinality(Pending') = Cardinality(Pending) + 1
    BY <2>1, CountedFinite, FS_AddElement
  <2> QED
    BY <2>2 DEF WgCounts, Put
<1>6. StartedInOrder' /\ OwnErrors'
  BY <1>1 DEF StartedInOrder, OwnErrors, Put, TypeOK, Jobs
<1>7. Failed' = Failed /\ Given' = Given
  BY <1>1 DEF Failed, Given, In, Put, TypeOK
<1>8. reported' = reported \cup ErrorsOf(errCh[1])
  BY <1>2 DEF Put
<1>9. ErrorsGiven'
  BY <1>2, <1>7, <1>8 DEF ErrorsGiven, ErrorsOf
<1>10. NoErrorLost'
  <2> SUFFICES ASSUME NEW i \in Failed, job'[i] # "sending", i \notin reported'
               PROVE  \E k \in 1 .. Len(errCh') : errCh'[k] = i
    BY <1>7 DEF NoErrorLost
  <2>1. job[i] # "sending" /\ i \notin reported /\ i \in Jobs /\ i # NoErr
    BY <1>1, <1>8 DEF Failed, In, TypeOK, Jobs, NoErr
  <2>2. PICK k \in 1 .. Len(errCh) : errCh[k] = i
    BY <2>1 DEF NoErrorLost
  <2>3. k # 1
    BY <2>1, <2>2, <1>8 DEF ErrorsOf
  <2>4. k - 1 \in 1 .. Len(errCh') /\ errCh'[k - 1] = errCh[k]
    BY <2>3, <1>2
  <2> QED
    BY <2>2, <2>4
<1>11. ReportedOnce'
  <2> SUFFICES ASSUME NEW k \in 1 .. Len(errCh'), errCh'[k] # NoErr
               PROVE  /\ errCh'[k] \notin reported'
                      /\ \A m \in 1 .. Len(errCh') :
                           errCh'[m] = errCh'[k] => m = k
    BY DEF ReportedOnce
  <2>1. k + 1 \in 1 .. Len(errCh) /\ errCh'[k] = errCh[k + 1] /\ k + 1 # 1
    BY <1>2
  <2>2. errCh[k + 1] \notin reported /\ errCh[k + 1] # errCh[1]
    BY <2>1, <1>2 DEF ReportedOnce
  <2> QED
    BY <2>1, <2>2, <1>2, <1>8 DEF ReportedOnce, ErrorsOf
<1>12. ~collected' /\ caller' # "drain"
  BY DEF Put, CollectedReturned, AfterPut
<1>13. Draining' /\ CollectedReturned' /\ CollectIsComplete' /\ CollectResets'
  BY <1>12 DEF Draining, CollectedReturned, CollectIsComplete, CollectResets
<1> QED
  BY <1>3, <1>4, <1>5, <1>6, <1>9, <1>10, <1>11, <1>13

\* Steps of the caller that touch neither the channel nor a job.
LEMMA CallerStep ==
  IInv /\ (CallCollect \/ IterationFails \/ WaitReturns) => IInv'
<1> SUFFICES ASSUME IInv, CallCollect \/ IterationFails \/ WaitReturns
             PROVE  IInv'
  OBVIOUS
<1> USE DEF IInv, CallCollect, IterationFails, WaitReturns
<1>1. UNCHANGED <<policy, errCh, wg, job, outcome, next, reported, collected>>
  OBVIOUS
<1>2. TypeOK'
  BY <1>1 DEF TypeOK
<1>3. UNCHANGED <<Pending, Holding, Failed, Given>>
  BY <1>1 DEF Pending, Holding, Failed, Given, In
<1>4. TokensConserved' /\ WgCounts' /\ StartedInOrder' /\ OwnErrors'
  BY <1>1, <1>3 DEF TokensConserved, WgCounts, StartedInOrder, OwnErrors
<1>5. ErrorsGiven' /\ NoErrorLost' /\ ReportedOnce'
  BY <1>1, <1>3 DEF ErrorsGiven, NoErrorLost, ReportedOnce
<1>6. Draining'
  <2>1. Cardinality(Holding) = 0 \/ caller' # "drain"
    <3>1. Holding \in SUBSET Pending
      BY DEF Holding, Pending, In
    <3> QED
      BY <3>1, InFinite, FS_Subset DEF WgCounts, Holding, Pending
  <2>2. Len(errCh) \in Nat
    BY DEF TypeOK
  <2> QED
    BY <2>1, <2>2, <1>1 DEF Draining, TokensConserved
<1>7. ~collected'
  BY DEF CollectedReturned
<1> QED
  BY <1>2, <1>4, <1>5, <1>6, <1>7
     DEF CollectedReturned, CollectIsComplete, CollectResets

LEMMA DrainStep == IInv /\ Drain => IInv'
<1> SUFFICES ASSUME IInv, Drain
             PROVE  IInv'
  OBVIOUS
<1> USE DEF IInv
<1> DEFINE rest == Tail(errCh)
<1>1. /\ UNCHANGED <<policy, wg, job, outcome, next, caller, collected>>
      /\ drained' = drained + 1 /\ drained < Cap
      /\ caller = "drain"
  BY DEF Drain
<1>2. /\ Len(errCh) \in Nat \ {0}
      /\ Head(errCh) = errCh[1]
      /\ Head(errCh) \in {NoErr} \cup Jobs
      /\ rest \in Seq({NoErr} \cup Jobs)
      /\ Len(rest) = Len(errCh) - 1
      /\ \A k \in 1 .. Len(errCh) - 1 : rest[k] = errCh[k + 1]
  BY Receive DEF Drain, TypeOK
<1> HIDE DEF rest
<1>3. /\ errCh' \in Seq({NoErr} \cup Jobs)
      /\ Len(errCh') = Len(errCh)
      /\ \A k \in 1 .. Len(errCh) - 1 : errCh'[k] = errCh[k + 1]
      /\ errCh'[Len(errCh)] = NoErr
  <2>1. errCh' = Append(rest, NoErr)
    BY DEF Drain, rest
  <2> QED
    BY <2>1, <1>2, SendTo
<1>4. TypeOK'
  <2>1. reported' \subseteq Jobs
    BY <1>2 DEF Drain, TypeOK, ErrorsOf
  <2>2. drained' \in 0 .. Cap
    BY <1>1 DEF TypeOK
  <2> QED
    BY <2>1, <2>2, <1>1, <1>3 DEF TypeOK
<1>5. UNCHANGED <<Pending, Holding, Failed, Given>>
  BY <1>1 DEF Pending, Holding, Failed, Given, In
<1>6. TokensConserved' /\ WgCounts' /\ StartedInOrder' /\ OwnErrors'
  BY <1>1, <1>3, <1>5 DEF TokensConserved, WgCounts, StartedInOrder, OwnErrors
<1>7. reported' = reported \cup ErrorsOf(errCh[1])
  BY <1>2 DEF Drain
<1>8. ErrorsGiven'
  <2>1. \A k \in 1 .. Len(errCh') : errCh'[k] \in {NoErr} \cup Given
    BY <1>2, <1>3 DEF ErrorsGiven
  <2>2. reported' \subseteq Given
    BY <1>2, <1>7 DEF ErrorsGiven, ErrorsOf
  <2> QED
    BY <2>1, <2>2, <1>5 DEF ErrorsGiven
<1>9. NoErrorLost'
  <2> SUFFICES ASSUME NEW i \in Failed, job[i] # "sending", i \notin reported'
               PROVE  \E k \in 1 .. Len(errCh') : errCh'[k] = i
    BY <1>1, <1>5 DEF NoErrorLost
  <2>1. i \notin reported /\ i \in Jobs /\ i # NoErr
    BY <1>7 DEF Failed, In, Jobs, NoErr
  <2>2. PICK k \in 1 .. Len(errCh) : errCh[k] = i
    BY <2>1 DEF NoErrorLost
  <2>3. k # 1
    BY <2>1, <2>2, <1>7 DEF ErrorsOf
  <2>4. k - 1 \in 1 .. Len(errCh') /\ errCh'[k - 1] = errCh[k]
    BY <2>3, <1>2, <1>3
  <2> QED
    BY <2>2, <2>4
<1>10. ReportedOnce'
  <2> SUFFICES ASSUME NEW k \in 1 .. Len(errCh'), errCh'[k] # NoErr
               PROVE  /\ errCh'[k] \notin reported'
                      /\ \A m \in 1 .. Len(errCh') :
                           errCh'[m] = errCh'[k] => m = k
    BY DEF ReportedOnce
  <2>1. /\ k \in 1 .. Len(errCh) - 1 /\ k + 1 \in 1 .. Len(errCh)
        /\ errCh'[k] = errCh[k + 1] /\ k + 1 # 1
    BY <1>2, <1>3
  <2>2. errCh[k + 1] \notin reported /\ errCh[k + 1] # errCh[1]
    BY <2>1, <1>2 DEF ReportedOnce
  <2>3. ASSUME NEW m \in 1 .. Len(errCh'), errCh'[m] = errCh'[k]
        PROVE  m = k
    <3>1. m \in 1 .. Len(errCh) - 1
      BY <2>3, <1>2, <1>3
    <3> QED
      BY <3>1, <2>1, <2>3, <1>2, <1>3 DEF ReportedOnce
  <2> QED
    BY <2>1, <2>2, <2>3, <1>7 DEF ErrorsOf
<1>11. Draining'
  BY <1>1, <1>2, <1>3 DEF Draining, TokensConserved, TypeOK
<1>12. ~collected'
  BY <1>1 DEF CollectedReturned
<1> QED
  BY <1>4, <1>6, <1>8, <1>9, <1>10, <1>11, <1>12
     DEF CollectedReturned, CollectIsComplete, CollectResets

LEMMA CollectReturnsStep == IInv /\ CollectReturns => IInv'
<1> SUFFICES ASSUME IInv, CollectReturns
             PROVE  IInv'
  OBVIOUS
<1> USE DEF IInv
<1>1. /\ UNCHANGED <<policy, errCh, wg, job, outcome, next, drained, reported>>
      /\ caller = "drain" /\ caller' = "returned" /\ drained = Cap
  BY DEF CollectReturns
<1>2. TypeOK'
  BY <1>1 DEF TypeOK, CollectReturns
<1>3. UNCHANGED <<Pending, Holding, Failed, Given>>
  BY <1>1 DEF Pending, Holding, Failed, Given, In
<1>4. TokensConserved' /\ WgCounts' /\ StartedInOrder' /\ OwnErrors'
  BY <1>1, <1>3 DEF TokensConserved, WgCounts, StartedInOrder, OwnErrors
<1>5. ErrorsGiven' /\ NoErrorLost' /\ ReportedOnce'
  BY <1>1, <1>3 DEF ErrorsGiven, NoErrorLost, ReportedOnce
<1>6. Draining' /\ CollectedReturned'
  BY <1>1 DEF Draining, CollectedReturned
<1>7. Pending = {} /\ Holding = {}
  <2>1. Pending = {}
    BY <1>1, InFinite, FS_EmptySet DEF Draining, WgCounts, Pending
  <2> QED
    BY <2>1 DEF Pending, Holding, In
<1>8. errCh \in Seq({NoErr} \cup Jobs) /\ Len(errCh) = Cap
  BY <1>7, FS_EmptySet DEF TokensConserved, TypeOK
<1>9. \A k \in 1 .. Cap : errCh[k] = NoErr
  BY <1>1, <1>8 DEF Draining
<1>10. errCh = [k \in 1 .. Cap |-> NoErr]
  BY <1>8, <1>9
<1>11. reported = Failed
  <2>1. \A i \in Failed : job[i] # "sending" /\ i # NoErr
    BY <1>7 DEF Failed, Holding, In, Jobs, NoErr
  <2>2. Failed \subseteq reported
    BY <2>1, <1>8, <1>9 DEF NoErrorLost
  <2> QED
    BY <2>2 DEF ErrorsGiven, Given
<1>12. CollectIsComplete' /\ CollectResets'
  BY <1>1, <1>3, <1>7, <1>10, <1>11 DEF CollectIsComplete, CollectResets
<1> QED
  BY <1>2, <1>4, <1>5, <1>6, <1>12

\* The three steps of a job's goroutine happen only while Collect has not
\* returned, because collected implies that Pending is empty.
LEMMA NotCollected ==
  ASSUME CollectIsComplete, NEW i \in Jobs,
         job[i] \in {"running", "sending", "sent"}
  PROVE  ~collected
  BY DEF CollectIsComplete, Pending, In

LEMMA FinishStep ==
  ASSUME IInv, NEW i \in Jobs, Finish(i)
  PROVE  IInv'
<1> USE DEF IInv
<1>1. /\ UNCHANGED <<policy, errCh, wg, next, caller, drained, reported, collected>>
      /\ job[i] = "running" /\ job' = [job EXCEPT ![i] = "sending"]
  BY DEF Finish
<1>2. PICK err \in {NoErr, i} : outcome' = [outcome EXCEPT ![i] = err]
  BY DEF Finish
<1>3. TypeOK'
  BY <1>1, <1>2 DEF TypeOK
<1>4. Holding' = Holding /\ Pending' = Pending
  BY <1>1 DEF Holding, Pending, In, TypeOK
<1>5. TokensConserved' /\ WgCounts'
  BY <1>1, <1>4 DEF TokensConserved, WgCounts
<1>6. StartedInOrder' /\ OwnErrors'
  BY <1>1, <1>2 DEF StartedInOrder, OwnErrors, TypeOK
<1>7. Given' = Given /\ \A j \in Failed' : j # i => j \in Failed
  BY <1>1, <1>2 DEF Given, Failed, In, TypeOK
<1>8. ErrorsGiven' /\ ReportedOnce'
  BY <1>1, <1>7 DEF ErrorsGiven, ReportedOnce
<1>9. NoErrorLost'
  BY <1>1, <1>7 DEF NoErrorLost, TypeOK, Failed, In
<1>10. Draining' /\ CollectedReturned'
  BY <1>1 DEF Draining, CollectedReturned
<1>11. ~collected'
  BY <1>1, NotCollected
<1> QED
  BY <1>3, <1>5, <1>6, <1>8, <1>9, <1>10, <1>11
     DEF CollectIsComplete, CollectResets

LEMMA SendStep ==
  ASSUME IInv, NEW i \in Jobs, Send(i)
  PROVE  IInv'
<1> USE DEF IInv
<1>1. /\ UNCHANGED <<policy, wg, outcome, next, caller, drained, reported, collected>>
      /\ job[i] = "sending" /\ job' = [job EXCEPT ![i] = "sent"]
      /\ errCh' = Append(errCh, outcome[i])
      /\ outcome[i] \in {NoErr} \cup Jobs
  BY DEF Send, TypeOK
<1>2. /\ errCh' \in Seq({NoErr} \cup Jobs)
      /\ Len(errCh) \in Nat
      /\ Len(errCh') = Len(errCh) + 1
      /\ \A k \in 1 .. Len(errCh) : errCh'[k] = errCh[k]
      /\ errCh'[Len(errCh) + 1] = outcome[i]
  BY <1>1, SendTo DEF TypeOK
<1>3. TypeOK'
  BY <1>1, <1>2 DEF TypeOK
<1>4. TokensConserved'
  <2>1. Holding' = Holding \ {i} /\ i \in Holding
    BY <1>1 DEF Holding, In, TypeOK
  <2>2. Cardinality(Holding') = Cardinality(Holding) - 1
    BY <2>1, CountedFinite, FS_RemoveElement
  <2> QED
    BY <2>2, <1>2, CountedFinite DEF TokensConserved
<1>5. Pending' = Pending /\ WgCounts'
  BY <1>1 DEF Pending, In, TypeOK, WgCounts
<1>6. StartedInOrder' /\ OwnErrors'
  BY <1>1 DEF StartedInOrder, OwnErrors, TypeOK
<1>7. /\ Failed' = Failed
      /\ Given' = Given \cup ({i} \cap Failed)
      /\ i \notin Given
      /\ outcome[i] = IF i \in Failed THEN i ELSE NoErr
  BY <1>1 DEF Given, Failed, In, TypeOK, OwnErrors
<1>8. ErrorsGiven'
  <2>1. \A k \in 1 .. Len(errCh') : errCh'[k] \in {NoErr} \cup Given'
    <3> TAKE k \in 1 .. Len(errCh')
    <3>1. CASE k = Len(errCh) + 1
      BY <3>1, <1>2, <1>7
    <3>2. CASE k # Len(errCh) + 1
      <4>1. k \in 1 .. Len(errCh) /\ errCh'[k] = errCh[k]
        BY <3>2, <1>2
      <4> QED
        BY <4>1, <1>7 DEF ErrorsGiven
    <3> QED
      BY <3>1, <3>2
  <2> QED
    BY <2>1, <1>1, <1>7 DEF ErrorsGiven
<1>9. NoErrorLost'
  <2> SUFFICES ASSUME NEW j \in Failed, job'[j] # "sending", j \notin reported
               PROVE  \E k \in 1 .. Len(errCh') : errCh'[k] = j
    BY <1>1, <1>7 DEF NoErrorLost
  <2>1. CASE j = i
    BY <2>1, <1>2, <1>7
  <2>2. CASE j # i
    <3>1. j \in Jobs /\ job[j] # "sending"
      BY <2>2, <1>1 DEF Failed, In, TypeOK
    <3>2. PICK k \in 1 .. Len(errCh) : errCh[k] = j
      BY <3>1 DEF NoErrorLost
    <3> QED
      BY <3>2, <1>2
  <2> QED
    BY <2>1, <2>2
<1>10. ReportedOnce'
  <2>1. i \notin reported /\ \A k \in 1 .. Len(errCh) : errCh[k] # i
    <3>1. i # NoErr
      BY DEF Jobs, NoErr
    <3> QED
      BY <3>1, <1>7 DEF ErrorsGiven
  <2> SUFFICES ASSUME NEW k \in 1 .. Len(errCh'), errCh'[k] # NoErr
               PROVE  /\ errCh'[k] \notin reported
                      /\ \A m \in 1 .. Len(errCh') :
                           errCh'[m] = errCh'[k] => m = k
    BY <1>1 DEF ReportedOnce
  <2>2. CASE k = Len(errCh) + 1
    <3>1. errCh'[k] = i
      BY <2>2, <1>2, <1>7
    <3> QED
      BY <3>1, <2>1, <2>2, <1>2
  <2>3. CASE k # Len(errCh) + 1
    <3>1. k \in 1 .. Len(errCh) /\ errCh'[k] = errCh[k]
      BY <2>3, <1>2
    <3>2. errCh[k] \notin reported
      BY <3>1 DEF ReportedOnce
    <3>3. ASSUME NEW m \in 1 .. Len(errCh'), errCh'[m] = errCh'[k]
          PROVE  m = k
      <4>1. m # Len(errCh) + 1
        BY <3>1, <3>3, <2>1, <1>2, <1>7
      <4>2. m \in 1 .. Len(errCh) /\ errCh'[m] = errCh[m]
        BY <4>1, <1>2
      <4> QED
        BY <4>2, <3>1, <3>3 DEF ReportedOnce
    <3> QED
      BY <3>1, <3>2, <3>3
  <2> QED
    BY <2>2, <2>3
<1>11. caller # "drain" /\ ~collected
  <2>1. i \in Pending
    BY <1>1 DEF Pending, In
  <2>2. wg # 0
    BY <2>1, InFinite, FS_EmptySet DEF WgCounts, Pending
  <2> QED
    BY <2>2, <1>1, NotCollected DEF Draining
<1> QED
  BY <1>1, <1>3, <1>4, <1>5, <1>6, <1>8, <1>9, <1>10, <1>11
     DEF Draining, CollectedReturned, CollectIsComplete, CollectResets

LEMMA ExitStep ==
  ASSUME IInv, NEW i \in Jobs, Exit(i)
  PROVE  IInv'
<1> USE DEF IInv
<1>1. /\ UNCHANGED <<policy, errCh, outcome, next, caller, drained, reported, collected>>
      /\ job[i] = "sent" /\ job' = [job EXCEPT ![i] = "exited"]
      /\ wg' = wg - 1
  BY DEF Exit
<1>2. i \in Pending
  BY <1>1 DEF Pending, In
<1>3. wg # 0
  BY <1>2, InFinite, FS_EmptySet DEF WgCounts, Pending
<1>4. TypeOK'
  BY <1>1, <1>3 DEF TypeOK
<1>5. WgCounts'
  <2>1. Pending' = Pending \ {i} /\ i \in Pending
    BY <1>1 DEF Pending, In, TypeOK
  <2>2. Cardinality(Pending') = Cardinality(Pending) - 1
    BY <2>1, CountedFinite, FS_RemoveElement
  <2> QED
    BY <2>2, <1>1 DEF WgCounts
<1>6. Holding' = Holding /\ Failed' = Failed /\ Given' = Given
  BY <1>1 DEF Holding, Failed, Given, In, TypeOK
<1>7. TokensConserved' /\ StartedInOrder' /\ OwnErrors'
  BY <1>1, <1>6 DEF TokensConserved, StartedInOrder, OwnErrors, TypeOK
<1>8. ErrorsGiven' /\ ReportedOnce'
  BY <1>1, <1>6 DEF ErrorsGiven, ReportedOnce
<1>9. NoErrorLost'
  BY <1>1, <1>6 DEF NoErrorLost, TypeOK, Failed, In
<1>10. caller # "drain" /\ ~collected
  BY <1>1, <1>3, NotCollected DEF Draining
<1> QED
  BY <1>1, <1>4, <1>5, <1>7, <1>8, <1>9, <1>10
     DEF Draining, CollectedReturned, CollectIsComplete, CollectResets

LEMMA StutterStep == IInv /\ UNCHANGED vars => IInv'
  BY DEF IInv, vars, TypeOK, TokensConserved, WgCounts, StartedInOrder,
         OwnErrors, ErrorsGiven, NoErrorLost, ReportedOnce, Draining,
         CollectedReturned, CollectIsComplete, CollectResets,
         Pending, Holding, Failed, Given, In

THEOREM Invariance == Spec => []IInv
<1>1. IInv /\ [Next]_vars => IInv'
  BY PutStep, CallerStep, DrainStep, CollectReturnsStep, FinishStep, SendStep,
     ExitStep, StutterStep DEF Next, Quiescent
<1> QED
  BY InitIInv, <1>1, PTL DEF Spec
-----------------------------------------------------------------------------
(***************************************************************************)
(* The properties                                                          *)
(***************************************************************************)

LEMMA TokenBounds ==
  ASSUME TypeOK, TokensConserved
  PROVE  /\ Cardinality(Running) \in Nat
         /\ Len(errCh) + Cardinality(Running) <= Cap
         /\ \A i \in Jobs : job[i] = "sending" =>
              Len(errCh) + Cardinality(Running) + 1 <= Cap
<1>1. Len(errCh) \in Nat
  BY DEF TypeOK
<1>2. IsFiniteSet(Running) /\ Cardinality(Running) \in Nat
  BY InFinite DEF Running
<1>3. Cardinality(Running) <= Cardinality(Holding)
  <2>1. Running \in SUBSET Holding
    BY DEF Running, Holding, In
  <2> QED
    BY <2>1, CountedFinite, FS_Subset
<1>4. ASSUME NEW i \in Jobs, job[i] = "sending"
      PROVE  Cardinality(Running) + 1 <= Cardinality(Holding)
  <2>1. Running \cup {i} \in SUBSET Holding /\ i \notin Running
    BY <1>4 DEF Running, Holding, In
  <2>2. Cardinality(Running \cup {i}) = Cardinality(Running) + 1
    BY <2>1, <1>2, FS_AddElement
  <2> QED
    BY <2>1, <2>2, CountedFinite, FS_Subset
<1> QED
  BY <1>1, <1>2, <1>3, <1>4, CountedFinite DEF TokensConserved

\* Every variable keeps its type.
THEOREM TypeCorrect == Spec => []TypeOK
<1>1. IInv => TypeOK
  BY DEF IInv
<1> QED
  BY Invariance, <1>1, PTL

\* Whatever the caller does, no more than Cap jobs run at a time.
THEOREM Bounded == Spec => []BoundedConcurrency
<1>1. IInv => BoundedConcurrency
  BY TokenBounds DEF IInv, BoundedConcurrency, TypeOK
<1> QED
  BY Invariance, <1>1, PTL

\* The goroutine of a job finds room in the channel for its error, also when
\* the caller has left without Collect.
THEOREM SendFree == Spec => []SendNeverBlocks
<1>1. IInv => SendNeverBlocks
  <2> SUFFICES ASSUME IInv, NEW i \in Jobs, job[i] = "sending"
               PROVE  Len(errCh) < Cap
    BY DEF SendNeverBlocks
  <2>1. Len(errCh) \in Nat
    BY DEF IInv, TypeOK
  <2> QED
    BY <2>1, TokenBounds DEF IInv
<1> QED
  BY Invariance, <1>1, PTL

\* An error is never dropped: from the moment its goroutine has sent it, it is
\* in the channel until Put or Collect hands it over.
THEOREM ErrorsConserved == Spec => []NoErrorLost
<1>1. IInv => NoErrorLost
  BY DEF IInv
<1> QED
  BY Invariance, <1>1, PTL

\* An error is never handed over twice, by two Puts or by a Put and Collect.
THEOREM ErrorsReportedOnce == Spec => []ReportedOnce
<1>1. IInv => ReportedOnce
  BY DEF IInv
<1> QED
  BY Invariance, <1>1, PTL

\* When Collect has returned every job is over, its caller has every error,
\* and the queue is as NewJobQueue made it.
THEOREM CollectCorrect == Spec => [](CollectIsComplete /\ CollectResets)
<1>1. IInv => CollectIsComplete /\ CollectResets
  BY DEF IInv
<1> QED
  BY Invariance, <1>1, PTL

-----------------------------------------------------------------------------
(***************************************************************************)
(* The queue implements the pool                                           *)
(***************************************************************************)

LEMMA PoolInit == Init => Pool!Init
  BY DEF Init, Pool!Init, In, Running, Failed

\* The error at the head of the channel is one the pool may hand over.
LEMMA HeadIsDue ==
  ASSUME IInv, errCh # <<>>
  PROVE  \/ Head(errCh) = NoErr
         \/ Head(errCh) \in Failed \ reported
<1>1. Head(errCh) = errCh[1] /\ Len(errCh) \in Nat \ {0}
  BY Receive DEF IInv, TypeOK
<1> QED
  BY <1>1 DEF IInv, ErrorsGiven, ReportedOnce, Given

LEMMA PoolStep == IInv /\ [Next]_vars => [Pool!Next]_(Pool!vars)
<1> SUFFICES ASSUME IInv, [Next]_vars
             PROVE  [Pool!Next]_(Pool!vars)
  OBVIOUS
<1> USE DEF IInv
<1> DEFINE Started == In({"running", "sending", "sent", "exited"})
<1>1. CASE Put
  <2>1. next \in Jobs /\ job[next] = "new" /\ job' = [job EXCEPT ![next] = "running"]
    BY <1>1 DEF Put, StartedInOrder, TypeOK, Jobs
  <2>2. /\ next \notin Started
        /\ Started' = Started \cup {next}
        /\ Running' = Running \cup {next}
        /\ Failed' = Failed
    BY <2>1, <1>1 DEF Put, In, Running, Failed, TypeOK
  <2>3. Cardinality(Running) < Cap
    <3>1. Len(errCh) \in Nat \ {0}
      BY <1>1, Receive DEF Put, TypeOK
    <3> QED
      BY <3>1, TokenBounds
  <2>4. ~collected /\ collected' = collected
    BY <1>1 DEF Put, CollectedReturned
  <2>5. Pool!HandOver
    BY <1>1, HeadIsDue DEF Put, Pool!HandOver, ErrorsOf
  <2>6. Pool!Cardinality(Running) = Cardinality(Running)
    BY DEF Pool!Cardinality, Cardinality
  <2>7. Pool!Start(next)
    BY <2>2, <2>3, <2>4, <2>5, <2>6 DEF Pool!Start
  <2> QED
    BY <2>1, <2>7 DEF Pool!Next, Pool!Jobs, Jobs
<1>2. CASE Drain
  <2>1. UNCHANGED <<Started, Running, Failed, collected>>
    BY <1>2 DEF Drain, In, Running, Failed
  <2>2. Running = {}
    <3>1. Pending = {}
      BY <1>2, CountedFinite, FS_EmptySet DEF Drain, Draining, WgCounts
    <3> QED
      BY <3>1 DEF Pending, Running, In
  <2>3. ~collected
    BY <1>2 DEF Drain, CollectedReturned
  <2>4. Pool!HandOver
    BY <1>2, HeadIsDue DEF Drain, Pool!HandOver, ErrorsOf
  <2> QED
    BY <2>1, <2>2, <2>3, <2>4 DEF Pool!Next, Pool!Report
<1>3. CASE CollectReturns
  <2>1. UNCHANGED <<Started, Running, Failed, reported>>
    BY <1>3 DEF CollectReturns, In, Running, Failed
  <2>2. Pending = {} /\ reported = Failed
    <3>1. CollectIsComplete' /\ collected'
      BY <1>3, CollectReturnsStep DEF CollectReturns
    <3>2. Pending' = Pending
      BY <1>3 DEF CollectReturns, Pending, In
    <3> QED
      BY <3>1, <3>2, <2>1 DEF CollectIsComplete
  <2>3. Running = {} /\ ~collected /\ collected'
    BY <1>3, <2>2 DEF CollectReturns, CollectedReturned, Running, Pending, In
  <2> QED
    BY <2>1, <2>2, <2>3 DEF Pool!Next, Pool!Collect
<1>4. ASSUME NEW i \in Jobs, Finish(i)
      PROVE  Pool!Finish(i)
  <2>1. PICK err \in {NoErr, i} : outcome' = [outcome EXCEPT ![i] = err]
    BY <1>4 DEF Finish
  <2>2. /\ job[i] = "running" /\ job' = [job EXCEPT ![i] = "sending"]
        /\ reported' = reported /\ collected' = collected
    BY <1>4 DEF Finish
  <2>3. /\ i \in Running
        /\ Running' = Running \ {i}
        /\ Started' = Started
    BY <2>2 DEF In, Running, TypeOK
  <2>4. Failed' = IF err = NoErr THEN Failed ELSE Failed \cup {i}
    BY <2>1, <2>2 DEF In, Failed, TypeOK
  <2> QED
    BY <2>2, <2>3, <2>4 DEF Pool!Finish
<1>5. ASSUME NEW i \in Jobs, Send(i) \/ Exit(i)
      PROVE  UNCHANGED Pool!vars
  BY <1>5 DEF Send, Exit, Pool!vars, In, Running, Failed, TypeOK
<1>6. CASE CallCollect \/ IterationFails \/ WaitReturns \/ Quiescent
           \/ UNCHANGED vars
  BY <1>6 DEF CallCollect, IterationFails, WaitReturns, Quiescent, vars,
              Pool!vars, In, Running, Failed
<1> QED
  BY <1>1, <1>2, <1>3, <1>4, <1>5, <1>6
     DEF Next, Pool!Next, Pool!Jobs, Jobs

\* The channel, the wait group and the loop of Collect implement the promise
\* that JobPool states without them.
THEOREM ImplementsPool == Spec => PoolSpec
<1> QED
  BY PoolInit, PoolStep, Invariance, PTL DEF Spec, PoolSpec, Pool!Spec

-----------------------------------------------------------------------------
(***************************************************************************)
(* The bulk deploy                                                         *)
(***************************************************************************)

\* Every step of a bulk deploy is a step of the queue, or leaves it alone.
LEMMA BulkImplementsQueue ==
  /\ BulkInit => Init
  /\ [BulkNext]_bulkVars => [Next]_vars
<1>1. BulkInit => Init
  BY DEF BulkInit
<1>2. [BulkNext]_bulkVars => [Next]_vars
  BY DEF BulkNext, QueueStep, Upload, BulkUpdate, BulkQuiescent, bulkVars, Next, vars
<1> QED
  BY <1>1, <1>2

\* bulkUpload reaches Collect only when it has put every function, an entry is
\* filled by a successful upload and by nothing else, and the request is the
\* last thing that happens.
BInv ==
  /\ BulkTypeOK
  /\ policy = "stop" =>
       (caller \in {"wait", "drain"} \/ collected => next \notin Jobs)
  /\ filled = {i \in In({"sending", "sent", "exited"}) : outcome[i] = NoErr}
  /\ update # "no" => policy = "stop" /\ caller = "returned" /\ collected
  /\ AllOrNothing

LEMMA BulkInitInv == BulkInit => BInv
<1> SUFFICES ASSUME BulkInit
             PROVE  BInv
  OBVIOUS
<1>1. {i \in In({"sending", "sent", "exited"}) : outcome[i] = NoErr} = {}
  BY DEF BulkInit, Init, In
<1> QED
  BY <1>1 DEF BulkInit, Init, BInv, BulkTypeOK, AllOrNothing

LEMMA BulkStep == IInv /\ IInv' /\ BInv /\ [BulkNext]_bulkVars => BInv'
<1> SUFFICES ASSUME IInv, IInv', BInv, [BulkNext]_bulkVars
             PROVE  BInv'
  OBVIOUS
<1> USE DEF BInv
<1>1. ASSUME update = "no", UNCHANGED <<live, update>>
      PROVE  AllOrNothing'
  BY <1>1 DEF AllOrNothing
<1>2. CASE Put /\ UNCHANGED <<filled, live, update>>
  <2>1. /\ caller = "put" /\ next \in Jobs
        /\ job' = [job EXCEPT ![next] = "running"]
        /\ UNCHANGED <<policy, outcome, collected>>
    BY <1>2 DEF Put
  <2>2. job[next] = "new"
    BY <2>1, NumJobsAssumption DEF IInv, StartedInOrder, TypeOK, Jobs
  <2>3. \A i \in Jobs : job'[i] = IF i = next THEN "running" ELSE job[i]
    BY <2>1 DEF IInv, TypeOK
  <2>4. {i \in In({"sending", "sent", "exited"}) : outcome[i] = NoErr}'
          = {i \in In({"sending", "sent", "exited"}) : outcome[i] = NoErr}
    BY <2>1, <2>2, <2>3 DEF In
  <2>5. policy = "stop" => caller' \in {"put", "returned"}
    BY <1>2 DEF Put, AfterPut
  <2>6. update = "no"
    BY <2>1
  <2>7. policy' = "stop" =>
          (caller' \in {"wait", "drain"} \/ collected' => next' \notin Jobs)
    BY <2>1, <2>5, <1>2 DEF IInv, CollectedReturned, Put
  <2> QED
    BY <1>1, <1>2, <2>1, <2>4, <2>6, <2>7 DEF BulkTypeOK
<1>3. CASE (CallCollect \/ IterationFails \/ WaitReturns \/ Drain \/ CollectReturns)
             /\ UNCHANGED <<filled, live, update>>
  <2>1. /\ UNCHANGED <<policy, job, outcome, next>>
        /\ caller # "returned"
    BY <1>3 DEF CallCollect, IterationFails, WaitReturns, Drain, CollectReturns
  <2>2. policy = "stop" =>
          (caller' \in {"wait", "drain"} \/ collected' => next \notin Jobs)
    BY <1>3 DEF CallCollect, IterationFails, WaitReturns, Drain, CollectReturns
  <2> QED
    BY <1>1, <1>3, <2>1, <2>2 DEF BulkTypeOK, In
<1>4. ASSUME NEW i \in Jobs, Send(i) \/ Exit(i), UNCHANGED <<filled, live, update>>
      PROVE  BInv'
  <2>1. /\ UNCHANGED <<policy, outcome, next, caller, collected>>
        /\ job[i] \in {"sending", "sent"}
        /\ job' = [job EXCEPT ![i] = "sent"] \/ job' = [job EXCEPT ![i] = "exited"]
    BY <1>4 DEF Send, Exit
  <2>2. i \in Pending
    BY <2>1 DEF Pending, In
  <2>3. update = "no"
    BY <2>2 DEF AllOrNothing
  <2>4. \A k \in Jobs : \/ job'[k] = job[k]
                        \/ job[k] \in {"sending", "sent"} /\ job'[k] \in {"sent", "exited"}
    <3>1. PICK state \in {"sent", "exited"} : job' = [job EXCEPT ![i] = state]
      BY <2>1
    <3>2. \A k \in Jobs : job'[k] = IF k = i THEN state ELSE job[k]
      BY <3>1 DEF IInv, TypeOK
    <3>3. job[i] \in {"sending", "sent"}
      BY <2>1
    <3> QED
      BY <3>1, <3>2, <3>3
  <2>5. {k \in In({"sending", "sent", "exited"}) : outcome[k] = NoErr}'
          = {k \in In({"sending", "sent", "exited"}) : outcome[k] = NoErr}
    <3>1. \A k \in Jobs : job'[k] \in {"sending", "sent", "exited"}
                            <=> job[k] \in {"sending", "sent", "exited"}
      BY <2>4
    <3>2. outcome' = outcome
      BY <2>1
    <3> QED
      BY <3>1, <3>2 DEF In
  <2> QED
    BY <1>1, <1>4, <2>1, <2>3, <2>5 DEF BulkTypeOK
<1>5. ASSUME NEW i \in Jobs, Upload(i)
      PROVE  BInv'
  <2>1. /\ UNCHANGED <<policy, next, caller, collected, live, update>>
        /\ job[i] = "running" /\ job' = [job EXCEPT ![i] = "sending"]
    BY <1>5 DEF Upload, Finish
  <2>2. PICK err \in {NoErr, i} : outcome' = [outcome EXCEPT ![i] = err]
    BY <1>5 DEF Upload, Finish
  <2>3. i \in Pending
    BY <2>1 DEF Pending, In
  <2>4. update = "no"
    BY <2>3 DEF AllOrNothing
  <2>5. \A k \in Jobs : /\ k # i => job'[k] = job[k] /\ outcome'[k] = outcome[k]
                        /\ job'[i] = "sending" /\ outcome'[i] = err
    BY <2>1, <2>2 DEF IInv, TypeOK
  <2>6. filled' = IF outcome'[i] = NoErr THEN filled \cup {i} ELSE filled
    BY <1>5 DEF Upload
  <2>7. i \notin filled
    BY <2>1 DEF In
  <2>8. filled' = {k \in In({"sending", "sent", "exited"}) : outcome[k] = NoErr}'
    BY <2>5, <2>6, <2>7 DEF In
  <2>9. BulkTypeOK'
    BY <2>1, <2>6 DEF BulkTypeOK
  <2> QED
    BY <1>1, <2>1, <2>4, <2>8, <2>9
<1>6. CASE BulkUpdate
  <2>1. /\ UNCHANGED vars /\ filled' = filled
        /\ policy = "stop" /\ collected /\ reported = {} /\ caller = "returned"
    BY <1>6 DEF BulkUpdate, Collected
  <2>2. Pending = {} /\ Failed = {}
    BY <2>1 DEF IInv, CollectIsComplete
  <2>3. ASSUME NEW i \in Jobs
        PROVE  i \in filled
    <3>1. job[i] # "new"
      BY <2>1, NumJobsAssumption DEF IInv, StartedInOrder, TypeOK, Jobs
    <3>2. job[i] = "exited"
      BY <2>2, <3>1 DEF IInv, TypeOK, Pending, In
    <3>3. i \in In({"sending", "sent", "exited"})
      BY <3>2 DEF In
    <3>4. outcome[i] = NoErr
      BY <2>2, <3>3 DEF Failed
    <3> QED
      BY <3>3, <3>4
  <2>4. filled = Jobs
    BY <2>3 DEF BulkTypeOK
  <2>5. Failed' = Failed /\ Pending' = Pending /\ In({"sending", "sent", "exited"})' = In({"sending", "sent", "exited"})
    BY <2>1 DEF vars, Failed, Pending, In
  <2>6. /\ update' \in {"done", "failed"} /\ live' \in {filled, live}
    BY <1>6 DEF BulkUpdate
  <2>7. AllOrNothing'
    BY <2>1, <2>2, <2>4, <2>5, <2>6 DEF AllOrNothing
  <2>8. UNCHANGED <<policy, caller, collected, next, outcome>>
    BY <2>1 DEF vars
  <2> QED
    BY <2>1, <2>5, <2>6, <2>7, <2>8 DEF BulkTypeOK
<1>7. CASE UNCHANGED bulkVars
  BY <1>7 DEF bulkVars, vars, BulkTypeOK, AllOrNothing, In, Failed, Pending
<1> QED
  BY <1>2, <1>3, <1>4, <1>5, <1>6, <1>7 DEF BulkNext, QueueStep, BulkQuiescent

THEOREM BulkInvariance == BulkSpec => [](IInv /\ BInv)
<1>1. BulkSpec => Spec
  BY BulkImplementsQueue, PTL DEF BulkSpec, Spec
<1>2. BulkSpec => []IInv
  BY <1>1, Invariance, PTL
<1> QED
  BY <1>2, BulkInitInv, BulkStep, PTL DEF BulkSpec

\* Whatever uploads fail, and whenever: the functions change all together,
\* after the last upload has been answered, or none of them does.
THEOREM DeploysAsAWhole == BulkSpec => []AllOrNothing
<1>1. BInv => AllOrNothing
  BY DEF BInv
<1> QED
  BY <1>1, BulkInvariance, PTL
=============================================================================
