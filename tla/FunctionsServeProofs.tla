------------------------ MODULE FunctionsServeProofs ------------------------
(***************************************************************************)
(* For any set of directories and any number of changes and failures: no   *)
(* change of a file is missed, no restart is without a cause, and a        *)
(* restart never ends the session.                                         *)
(***************************************************************************)
EXTENDS FunctionsServe, TLAPS

One(p) == IF p THEN 1 ELSE 0

\* Every change that raised an event pays for one restart at most: the one
\* that its event, its running timer or its second Reset will cause.
Budget ==
  /\ restarts + events + One(timer # "off") + One(start = "rearm") <= noticed
  /\ noticed <= edits

\* What is watched is what is served, except between reading and watching.
Watching == pc # "watch" /\ ~Ended => watched = served

\* Wherever the session could end because of a failure, something has failed.
Blame ==
  /\ container = "crashed" \/ streamer = "error" => broken
  /\ pc = "remove" => container # "running"
  /\ pc \in {"populate", "watch", "create"} => container = "none" \/ broken

IInv ==
  /\ TypeOK
  /\ Budget
  /\ Watching
  /\ Blame
  /\ NoChangeMissed
  /\ SurvivesRestarts

LEMMA InitInv == Init => IInv
<1> SUFFICES ASSUME Init PROVE IInv
  OBVIOUS
<1>1. TypeOK
  <2>1. /\ unread \in BOOLEAN /\ broken \in BOOLEAN
        /\ uses \subseteq Dirs /\ watched \subseteq Dirs /\ served \subseteq Dirs
    BY Zenon DEF Init
  <2> QED
    BY <2>1, BoundsAssumption DEF Init, TypeOK
<1>2. Budget
  BY DEF Init, Budget, One
<1>3. Watching /\ Blame
  BY DEF Init, Watching, Blame
<1>4. NoChangeMissed /\ SurvivesRestarts
  BY DEF Init, NoChangeMissed, SurvivesRestarts
<1> QED
  BY <1>1, <1>2, <1>3, <1>4 DEF IInv

LEMMA StepInv == IInv /\ [Next]_vars => IInv'
<1> SUFFICES ASSUME IInv, [Next]_vars
             PROVE  IInv'
  OBVIOUS
<1> USE BoundsAssumption
    DEF IInv, TypeOK, Budget, Watching, Blame, NoChangeMissed, SurvivesRestarts,
        RestartComing, Ended, One, files, watcher, docker, bounds
<1>0. CASE UNCHANGED vars
  BY <1>0 DEF vars
<1>1. CASE ~Ended /\ \E d \in Dirs : Edit(d)
  <2>1. PICK d \in Dirs : Edit(d)
    BY <1>1
  <2>2. Noticeable(d) => d \in watched
    BY <1>1 DEF Noticeable
  <2>3. uses' \subseteq Dirs
    BY <2>1 DEF Edit
  <2> QED
    BY <1>1, <2>1, <2>2, <2>3 DEF Edit
<1>2. CASE ~Ended /\ Receive
  BY <1>2 DEF Receive
<1>3. CASE ~Ended /\ Rearm
  BY <1>3 DEF Rearm
<1>4. CASE ~Ended /\ TimerFires
  BY <1>4 DEF TimerFires
<1>5. CASE ~Ended /\ RestartDue
  BY <1>5 DEF RestartDue, Goto
<1>6. CASE ~Ended /\ Load
  BY <1>6 DEF Load, Goto
<1>7. CASE ~Ended /\ Kill
  BY <1>7 DEF Kill, EndOfLogs, Goto
<1>8. CASE ~Ended /\ Remove
  BY <1>8 DEF Remove, Goto
<1>9. CASE ~Ended /\ Populate
  BY <1>9 DEF Populate, Goto
<1>10. CASE ~Ended /\ SetWatchPaths
  BY <1>10 DEF SetWatchPaths, Goto
<1>11. CASE ~Ended /\ Create
  BY <1>11 DEF Create, Goto
<1>12. CASE ~Ended /\ Started
  BY <1>12 DEF Started, Goto
<1>13. CASE ~Ended /\ StreamerErred
  BY <1>13 DEF StreamerErred, Goto
<1>14. CASE ~Ended /\ ContainerLogs
  BY <1>14 DEF ContainerLogs
<1>15. CASE ~Ended /\ Inspect
  BY <1>15 DEF Inspect
<1>16. CASE ~Ended /\ RemoveFails
  <2>1. broken' = TRUE /\ faults' \in 0..MaxFaults
    BY <1>16 DEF RemoveFails, Fail
  <2> QED
    BY <1>16, <2>1 DEF RemoveFails, Goto
<1>17. CASE ~Ended /\ RestartFails
  <2>1. broken' = TRUE /\ faults' \in 0..MaxFaults
    BY <1>17 DEF RestartFails, Fail
  <2> QED
    BY <1>17, <2>1 DEF RestartFails, Goto
<1>18. CASE ~Ended /\ Interrupt
  BY <1>18 DEF Interrupt, Goto
<1>19. CASE ~Ended /\ StreamFails
  <2>1. broken' = TRUE /\ faults' \in 0..MaxFaults
    BY <1>19 DEF StreamFails, Fail
  <2> QED
    BY <1>19, <2>1 DEF StreamFails
<1>20. CASE ~Ended /\ RuntimeExits
  <2>1. faults' \in 0..MaxFaults
    BY <1>20 DEF RuntimeExits, Fail
  <2>2. broken' \in BOOLEAN /\ (broken => broken') /\ (container' = "crashed" => broken')
    BY <1>20 DEF RuntimeExits, Fail
  <2> QED
    BY <1>20, <2>1, <2>2 DEF RuntimeExits, EndOfLogs
<1> QED
  BY <1>0, <1>1, <1>2, <1>3, <1>4, <1>5, <1>6, <1>7, <1>8, <1>9, <1>10, <1>11, <1>12, <1>13, <1>14, <1>15, <1>16, <1>17, <1>18, <1>19, <1>20 DEF Next, Restart, Environment

THEOREM Invariance == Spec => []IInv
BY InitInv, StepInv, PTL DEF Spec

\* The variables of the session keep their types and ranges.
THEOREM TypeCorrect == Spec => []TypeOK
<1>1. IInv => TypeOK
  BY DEF IInv
<1> QED
  BY <1>1, Invariance, PTL

\* Whatever the watcher, the timer and the restart are doing when a file
\* changes, a restart that reads the change is certain to come.
THEOREM EveryChangeIsNoticed == Spec => []NoChangeMissed
<1>1. IInv => NoChangeMissed
  BY DEF IInv
<1> QED
  BY <1>1, Invariance, PTL

\* There are never more restarts than changes.
THEOREM RestartsHaveCauses == Spec => []RestartsAreCaused
<1>1. IInv => RestartsAreCaused
  BY BoundsAssumption DEF IInv, TypeOK, Budget, One, RestartsAreCaused
<1> QED
  BY <1>1, Invariance, PTL

\* The command returns only when it is interrupted or something has failed.
THEOREM SessionSurvives == Spec => []SurvivesRestarts
<1>1. IInv => SurvivesRestarts
  BY DEF IInv
<1> QED
  BY <1>1, Invariance, PTL
=============================================================================
