----------------------- MODULE MigrationHistoryProofs -----------------------
(***************************************************************************)
(* For any number of clients and migrations: the history table tells the   *)
(* truth whatever the interleaving, and clients that keep their commands   *)
(* from overlapping apply migrations in order and completely.              *)
(***************************************************************************)
EXTENDS MigrationHistory, TLAPS

USE VersionsAssumption, NewestAssumption, HashesAssumption, BoundsAssumption

-----------------------------------------------------------------------------
(***************************************************************************)
(* Types                                                                   *)
(***************************************************************************)

LEMMA IdleType == NoPlan \in Plans /\ Idle \in CommandsType
  BY DEF NoPlan, Idle, Plans, CommandsType, Steps, Kinds

LEMMA SeedPlanType ==
  ASSUME TypeOK, NEW h \in Hashes
  PROVE  SeedPlan(h) \in Plans
  BY IdleType DEF SeedPlan, Plans, TypeOK

LEMMA InitType == Init => TypeOK
  BY IdleType DEF Init, TypeOK

\* Every step leaves every variable in its type.
LEMMA StepType == TypeOK /\ [Next]_vars => TypeOK'
<1> SUFFICES ASSUME TypeOK, [Next]_vars
             PROVE  TypeOK'
  OBVIOUS
<1> USE IdleType DEF TypeOK
<1>1. ASSUME NEW c \in Clients, NEW kind \in {"push", "all"}, ReadHistory(c, kind)
      PROVE  TypeOK'
  <2>1. FindPending(files[c], history) \subseteq Versions
    BY DEF FindPending
  <2>2. proc' \in [Clients -> CommandsType]
    BY <1>1, <2>1 DEF ReadHistory, Begin, CommandsType, Steps, Kinds
  <2> QED
    BY <1>1, <2>2, Zenon DEF ReadHistory, db, disk, counters
<1>2. ASSUME NEW c \in Clients, ReadSeeds(c)
      PROVE  TypeOK'
  <2>1. proc' \in [Clients -> CommandsType]
    <3>1. PICK p \in {NoPlan, SeedPlan(seedFile[c])} :
            IF proc[c].pending = {} /\ p = NoPlan
            THEN End(c)
            ELSE proc' = [proc EXCEPT ![c].plan = p,
                                 ![c].pc = IF proc[c].pending # {}
                                           THEN "confirm" ELSE "confirmseed"]
      BY <1>2 DEF ReadSeeds
    <3>2. p \in Plans
      BY SeedPlanType
    <3>3. CASE proc[c].pending = {} /\ p = NoPlan
      BY <3>1, <3>3 DEF End
    <3>4. CASE ~(proc[c].pending = {} /\ p = NoPlan)
      BY <3>1, <3>2, <3>4 DEF CommandsType, Steps, Kinds
    <3> QED
      BY <3>3, <3>4
  <2> QED
    BY <1>2, <2>1 DEF ReadSeeds, db, disk, counters
<1>3. ASSUME NEW c \in Clients, Confirm(c) \/ Decline(c)
      PROVE  TypeOK'
  <2>1. CASE Confirm(c)
    <3>1. \/ proc' = [proc EXCEPT ![c].pc = "apply"]
          \/ proc' = [proc EXCEPT ![c].pc = "seed"]
      BY <2>1 DEF Confirm, Goto
    <3>2. PICK step \in {"apply", "seed"} : proc' = [proc EXCEPT ![c].pc = step]
      BY <3>1
    <3>3. proc' \in [Clients -> CommandsType]
      BY <3>2 DEF CommandsType, Steps
    <3> QED
      BY <2>1, <3>3 DEF Confirm, db, disk, counters
  <2>2. CASE Decline(c)
    BY <2>2 DEF Decline, End, db, disk, counters
  <2> QED
    BY <1>3, <2>1, <2>2
<1>4. ASSUME NEW c \in Clients, Applied(c)
      PROVE  TypeOK'
  <2>1. SeedPlan(seedFile[c]) \in Plans
    BY SeedPlanType
  <2>2. proc' \in [Clients -> CommandsType]
    BY <1>4, <2>1 DEF Applied, Goto, End, CommandsType, Steps, Kinds
  <2> QED
    BY <1>4, <2>2 DEF Applied, db, disk, counters
<1>5. ASSUME NEW c \in Clients, NEW v \in Versions, Commit(c, v)
      PROVE  TypeOK'
  <2>1. proc' \in [Clients -> CommandsType]
    BY <1>5 DEF Commit, CommandsType
  <2> QED
    BY <1>5, <2>1 DEF Commit, disk, counters
<1>6. ASSUME NEW c \in Clients, NEW v \in Versions, Conflict(c, v)
      PROVE  TypeOK'
  BY <1>6 DEF Conflict, End, db, disk, counters
<1>7. ASSUME NEW c \in Clients, Seed(c)
      PROVE  TypeOK'
  <2>1. proc[c].plan.hash \in Hashes \cup {None}
    BY DEF CommandsType, Plans
  <2>2. recorded' \in Hashes \cup {None} /\ seedRuns' \in Nat
    BY <1>7, <2>1 DEF Seed
  <2> QED
    BY <1>7, <2>2 DEF Seed, End, disk, counters
<1>8. ASSUME NEW c \in Clients, StartReset(c)
      PROVE  TypeOK'
  <2>1. ResetTargets(c) \cup DownTargets \subseteq Nat
    <3>1. files[c] \subseteq Nat /\ history \subseteq Nat
      BY VersionsAssumption
    <3>2. {0, Newest} \subseteq Nat
      BY NewestAssumption
    <3> QED
      BY <3>1, <3>2 DEF ResetTargets, DownTargets
  <2>2. proc' \in [Clients -> CommandsType]
    BY <1>8, <2>1 DEF StartReset, Begin, CommandsType, Steps, Kinds
  <2> QED
    BY <1>8, <2>2 DEF StartReset, db, disk
<1>9. ASSUME NEW c \in Clients, Drop(c)
      PROVE  TypeOK'
  <2>1. LoadPartial(c) \subseteq Versions
    BY DEF LoadPartial
  <2>2. proc' \in [Clients -> CommandsType]
    BY <1>9, <2>1 DEF Drop, CommandsType, Steps, Kinds
  <2> QED
    BY <1>9, <2>2 DEF Drop, disk, counters
<1>10. ASSUME NEW c \in Clients, Repair(c) \/ RepairAll(c)
       PROVE  TypeOK'
  <2>1. history' \subseteq Versions /\ touched' \subseteq Versions
    BY <1>10 DEF Repair, RepairAll
  <2> QED
    BY <1>10, <2>1 DEF Repair, RepairAll, disk
<1>11. ASSUME NEW c \in Clients, Fetch(c)
       PROVE  TypeOK'
  <2>1. files' \in [Clients -> SUBSET Versions]
    BY <1>11 DEF Fetch
  <2> QED
    BY <1>11, <2>1 DEF Fetch, db
<1>12. ASSUME NEW c \in Clients, Edit(c)
       PROVE  TypeOK'
  <2>1. files' \in [Clients -> SUBSET Versions] /\ seedFile' \in [Clients -> Hashes]
    BY <1>12 DEF Edit
  <2> QED
    BY <1>12, <2>1 DEF Edit, db
<1>13. ASSUME NEW c \in Clients, Fault(c)
       PROVE  TypeOK'
  BY <1>13 DEF Fault, End, db, disk
<1>14. CASE UNCHANGED vars
  BY <1>14 DEF vars, db, disk, counters
<1> QED
  BY <1>1, <1>2, <1>3, <1>4, <1>5, <1>6, <1>7, <1>8, <1>9, <1>10, <1>11,
     <1>12, <1>13, <1>14 DEF Next, Work

\* Every variable keeps its type.
THEOREM TypeCorrect == Spec => []TypeOK
  BY InitType, StepType, PTL DEF Spec

-----------------------------------------------------------------------------
(***************************************************************************)
(* The history table tells the truth.  HistoryHonest is inductive: the     *)
(* primary key and the transaction of ExecBatch are all it needs, and no   *)
(* step relies on what a client believes to be pending.                    *)
(***************************************************************************)

LEMMA HonestStep == TypeOK /\ HistoryHonest /\ [Next]_vars => HistoryHonest'
<1> SUFFICES ASSUME TypeOK, HistoryHonest, [Next]_vars
             PROVE  HistoryHonest'
  OBVIOUS
<1>1. ASSUME UNCHANGED <<history, runs, touched>>
      PROVE  HistoryHonest'
  BY <1>1 DEF HistoryHonest
<1>2. ASSUME NEW c \in Clients, NEW v \in Versions, Commit(c, v)
      PROVE  HistoryHonest'
  <2>1. /\ v \notin history /\ history' = history \cup {v}
        /\ runs' = [runs EXCEPT ![v] = @ + 1]
        /\ touched' = touched
    BY <1>2 DEF Commit
  <2>2. runs \in [Versions -> Nat]
    BY DEF TypeOK
  <2>3. ASSUME NEW w \in Versions \ touched'
        PROVE  runs'[w] = IF w \in history' THEN 1 ELSE 0
    <3>1. runs[w] = IF w \in history THEN 1 ELSE 0
      BY <2>1 DEF HistoryHonest
    <3>2. runs'[w] = IF w = v THEN runs[w] + 1 ELSE runs[w]
      BY <2>1, <2>2
    <3> QED
      BY <2>1, <3>1, <3>2
  <2> QED
    BY <2>3 DEF HistoryHonest
<1>3. ASSUME NEW c \in Clients, Drop(c)
      PROVE  HistoryHonest'
  BY <1>3 DEF Drop, HistoryHonest
<1>4. ASSUME NEW c \in Clients, Repair(c)
      PROVE  HistoryHonest'
  <2>1. PICK vs \in (SUBSET Versions) \ {{}} :
          /\ history' = history \cup vs \/ history' = history \ vs
          /\ touched' = touched \cup vs
    BY <1>4 DEF Repair
  <2>2. runs' = runs
    BY <1>4 DEF Repair
  <2> QED
    BY <2>1, <2>2 DEF HistoryHonest
<1>5. ASSUME NEW c \in Clients, RepairAll(c)
      PROVE  HistoryHonest'
  BY <1>5 DEF RepairAll, HistoryHonest
<1>6. ASSUME NEW c \in Clients,
             \/ \E kind \in {"push", "all"} : ReadHistory(c, kind)
             \/ ReadSeeds(c) \/ Confirm(c) \/ Decline(c) \/ Applied(c) \/ Seed(c)
             \/ \E v \in Versions : Conflict(c, v)
             \/ StartReset(c) \/ Fetch(c) \/ Edit(c) \/ Fault(c)
      PROVE  UNCHANGED <<history, runs, touched>>
  BY <1>6 DEF ReadHistory, ReadSeeds, Confirm, Decline, Applied, Seed, Conflict,
              StartReset, Fetch, Edit, Fault, db
<1>7. CASE UNCHANGED vars
  BY <1>1, <1>7 DEF vars, db
<1> QED
  BY <1>1, <1>2, <1>3, <1>4, <1>5, <1>6, <1>7 DEF Next, Work

\* No interleaving, stale list of pending migrations, failure or reset makes
\* the history table disagree with what was executed.
THEOREM Honest == Spec => []HistoryHonest
<1>1. Init => HistoryHonest
  BY DEF Init, HistoryHonest
<1> QED
  BY <1>1, HonestStep, TypeCorrect, PTL DEF Spec

-----------------------------------------------------------------------------
(***************************************************************************)
(* Commands that do not overlap                                            *)
(***************************************************************************)

\* The steps at which the list of pending migrations is relied upon.
Relies(c) == proc[c].pc \in {"seeds", "confirm", "apply"}

\* What the command of client c is to leave in the history table.
Goal(c) == IF proc[c].kind = "reset" THEN LoadPartial(c) ELSE files[c]

\* The list of a command that has not ended is exactly what is missing from
\* the history, and newer than all of it unless the command is --include-all.
\* Only a reset drops the schemas.
ListCurrent(c) ==
  /\ At(c, "drop") => proc[c].kind = "reset"
  /\ Relies(c) =>
    /\ history \subseteq Goal(c)
    /\ proc[c].pending = Goal(c) \ history
    /\ proc[c].kind # "all" =>
         \A l \in proc[c].pending, h \in history : h < l

\* One command at a time.
Alone == \A c, d \in Clients : c # d => proc[c] = Idle \/ proc[d] = Idle

XInv == Alone /\ \A c \in Clients : ListCurrent(c)

\* A step of client c, with the other clients idle before and after it.
LEMMA OtherClients ==
  ASSUME TypeOK, XInv, NEW c \in Clients, NEW p,
         \A d \in Clients : d # c => proc[d] = Idle,
         proc' = [proc EXCEPT ![c] = p]
  PROVE  /\ Alone'
         /\ proc'[c] = p
         /\ \A d \in Clients : d # c => ListCurrent(d)'
<1>1. proc'[c] = p /\ \A d \in Clients : d # c => proc'[d] = Idle
  BY DEF TypeOK
<1>2. ASSUME NEW d \in Clients, d # c
      PROVE  ListCurrent(d)'
  <2>1. proc'[d].pc = "idle"
    BY <1>1, <1>2 DEF Idle
  <2> QED
    BY <2>1 DEF ListCurrent, Relies, At
<1> QED
  BY <1>1, <1>2 DEF Alone

\* The client whose command is at work is the only one.
LEMMA OthersIdle ==
  ASSUME XInv, NEW c \in Clients, proc[c] # Idle
  PROVE  \A d \in Clients : d # c => proc[d] = Idle
  BY DEF XInv, Alone

\* An invariant of the step of c is one of every client, when c is alone.
LEMMA Conclude ==
  ASSUME TypeOK, XInv, NEW c \in Clients, NEW p,
         \A d \in Clients : d # c => proc[d] = Idle,
         proc' = [proc EXCEPT ![c] = p],
         proc'[c] = p => ListCurrent(c)'
  PROVE  XInv'
<1>1. /\ Alone'
      /\ proc'[c] = p
      /\ \A d \in Clients : d # c => ListCurrent(d)'
  BY OtherClients
<1> QED
  BY <1>1 DEF XInv

\* The end of a command.
LEMMA Ended ==
  ASSUME TypeOK, XInv, NEW c \in Clients, proc[c] # Idle, End(c)
  PROVE  XInv'
<1>1. proc' = [proc EXCEPT ![c] = Idle]
  BY DEF End
<1>2. proc'[c] = Idle => ListCurrent(c)'
  <2> SUFFICES ASSUME proc'[c] = Idle
               PROVE  ListCurrent(c)'
    OBVIOUS
  <2>1. proc'[c].pc = "idle"
    BY DEF Idle
  <2> QED
    BY <2>1 DEF ListCurrent, Relies, At
<1> QED
  BY <1>1, <1>2, OthersIdle, Conclude

\* A step of c to a point at which it does not rely on its list any more.
LEMMA PastApply ==
  ASSUME TypeOK, XInv, NEW c \in Clients, proc[c] # Idle, NEW p,
         proc' = [proc EXCEPT ![c] = p],
         p.pc \notin {"seeds", "confirm", "apply", "drop"}
  PROVE  XInv'
<1>1. proc'[c] = p => ListCurrent(c)'
  BY DEF ListCurrent, Relies, At
<1> QED
  BY <1>1, OthersIdle, Conclude

\* A step of c that changes neither its list, nor what the list is compared
\* with, and that relied on the list before.
LEMMA SameList ==
  ASSUME TypeOK, XInv, NEW c \in Clients, proc[c] # Idle, Relies(c), NEW p,
         proc' = [proc EXCEPT ![c] = p],
         p.kind = proc[c].kind, p.target = proc[c].target,
         p.pending = proc[c].pending, p.pc # "drop",
         history' = history, files' = files
  PROVE  XInv'
<1>1. ASSUME proc'[c] = p
      PROVE  ListCurrent(c)'
  <2>1. Goal(c)' = Goal(c)
    BY <1>1 DEF Goal, LoadPartial
  <2>2. /\ history \subseteq Goal(c)
        /\ proc[c].pending = Goal(c) \ history
        /\ proc[c].kind # "all" =>
             \A l \in proc[c].pending, h \in history : h < l
    BY DEF XInv, ListCurrent, At
  <2> QED
    BY <1>1, <2>1, <2>2 DEF ListCurrent, At
<1> QED
  BY <1>1, OthersIdle, Conclude

\* Nobody runs a command.
LEMMA AllIdle ==
  ASSUME \A c \in Clients : proc'[c] = Idle
  PROVE  XInv'
<1>1. ASSUME NEW c \in Clients
      PROVE  proc'[c].pc = "idle"
  BY DEF Idle
<1> QED
  BY <1>1 DEF XInv, Alone, ListCurrent, At, Relies

\* One step of clients that keep their commands from overlapping.
LEMMA ExclusiveStep ==
  ASSUME Exclusive
  PROVE  TypeOK /\ XInv /\ [Next]_vars => XInv'
<1> SUFFICES ASSUME TypeOK, XInv, [Next]_vars
             PROVE  XInv'
  OBVIOUS
<1>1. ASSUME NEW c \in Clients, NEW kind \in {"push", "all"}, ReadHistory(c, kind)
      PROVE  XInv'
  <2>1. \A d \in Clients : proc[d] = Idle
    BY <1>1 DEF ReadHistory, Ready
  <2> DEFINE p == [pc |-> "seeds", kind |-> kind, target |-> 0,
                   pending |-> FindPending(files[c], history), plan |-> NoPlan]
  <2>2. /\ proc' = [proc EXCEPT ![c] = p]
        /\ history' = history /\ files' = files
    BY <1>1 DEF ReadHistory, Begin, db, disk
  <2>3. proc'[c] = p => ListCurrent(c)'
    <3> SUFFICES ASSUME proc'[c] = p
                 PROVE  ListCurrent(c)'
      OBVIOUS
    <3>1. Goal(c)' = files[c]
      BY <2>2 DEF Goal
    <3>2. history \subseteq files[c]
      BY <1>1 DEF ReadHistory, Refused, Missing
    <3>3. ASSUME kind # "all", NEW l \in files[c] \ history, NEW h \in history
          PROVE  h < l
      <4>1. ~(l < h)
        BY <1>1, <3>3 DEF ReadHistory, Refused, OutOfOrder
      <4>2. l \in Nat /\ h \in Nat /\ l # h
        BY <3>3, VersionsAssumption DEF TypeOK
      <4> QED
        BY <4>1, <4>2
    <3>4. proc'[c].pending = files[c] \ history /\ proc'[c].kind = kind
      BY DEF FindPending
    <3> QED
      BY <2>2, <3>1, <3>2, <3>3, <3>4 DEF ListCurrent, At
  <2> HIDE DEF p
  <2> QED
    BY <2>1, <2>2, <2>3, Conclude
<1>2. ASSUME NEW c \in Clients, ReadSeeds(c)
      PROVE  XInv'
  <2>1. proc[c] # Idle /\ Relies(c) /\ history' = history /\ files' = files
    BY <1>2 DEF ReadSeeds, At, Idle, Relies, db, disk
  <2>2. PICK plan \in {NoPlan, SeedPlan(seedFile[c])} :
          IF proc[c].pending = {} /\ plan = NoPlan
          THEN End(c)
          ELSE proc' = [proc EXCEPT ![c].plan = plan,
                                    ![c].pc = IF proc[c].pending # {}
                                              THEN "confirm" ELSE "confirmseed"]
    BY <1>2 DEF ReadSeeds
  <2>3. CASE proc[c].pending = {} /\ plan = NoPlan
    BY <2>1, <2>2, <2>3, Ended
  <2>4. CASE ~(proc[c].pending = {} /\ plan = NoPlan)
    <3> DEFINE step == IF proc[c].pending # {} THEN "confirm" ELSE "confirmseed"
               p == [proc[c] EXCEPT !.plan = plan, !.pc = step]
    <3>1. proc' = [proc EXCEPT ![c] = p]
      BY <2>2, <2>4 DEF TypeOK
    <3>2. /\ p.kind = proc[c].kind /\ p.target = proc[c].target
          /\ p.pending = proc[c].pending /\ p.pc # "drop"
      BY DEF TypeOK, CommandsType
    <3> HIDE DEF p
    <3> QED
      BY <2>1, <3>1, <3>2, SameList
  <2> QED
    BY <2>3, <2>4
<1>3. ASSUME NEW c \in Clients, Confirm(c)
      PROVE  XInv'
  <2>1. proc[c] # Idle /\ history' = history /\ files' = files
    BY <1>3 DEF Confirm, At, Idle, db, disk
  <2>2. CASE At(c, "confirm") /\ Goto(c, "apply")
    <3> DEFINE p == [proc[c] EXCEPT !.pc = "apply"]
    <3>1. proc' = [proc EXCEPT ![c] = p]
      BY <2>2 DEF Goto, TypeOK
    <3>2. /\ p.kind = proc[c].kind /\ p.target = proc[c].target
          /\ p.pending = proc[c].pending /\ p.pc # "drop"
      BY DEF TypeOK, CommandsType
    <3>3. Relies(c)
      BY <2>2 DEF At, Relies
    <3> HIDE DEF p
    <3> QED
      BY <2>1, <3>1, <3>2, <3>3, SameList
  <2>3. CASE At(c, "confirmseed") /\ Goto(c, "seed")
    <3> DEFINE p == [proc[c] EXCEPT !.pc = "seed"]
    <3>1. proc' = [proc EXCEPT ![c] = p]
      BY <2>3 DEF Goto, TypeOK
    <3>2. p.pc \notin {"seeds", "confirm", "apply", "drop"}
      BY DEF TypeOK, CommandsType
    <3> HIDE DEF p
    <3> QED
      BY <2>1, <3>1, <3>2, PastApply
  <2> QED
    BY <1>3, <2>2, <2>3 DEF Confirm
<1>4. ASSUME NEW c \in Clients, Applied(c)
      PROVE  XInv'
  <2>1. proc[c] # Idle
    BY <1>4 DEF Applied, At, Idle
  <2>2. CASE End(c)
    BY <2>1, <2>2, Ended
  <2>3. CASE proc' = [proc EXCEPT ![c].plan = SeedPlan(seedFile[c]), ![c].pc = "seed"]
    <3> DEFINE p == [proc[c] EXCEPT !.plan = SeedPlan(seedFile[c]), !.pc = "seed"]
    <3>1. proc' = [proc EXCEPT ![c] = p]
      BY <2>3 DEF TypeOK
    <3>2. p.pc \notin {"seeds", "confirm", "apply", "drop"}
      BY DEF TypeOK, CommandsType
    <3> HIDE DEF p
    <3> QED
      BY <2>1, <3>1, <3>2, PastApply
  <2>4. CASE Goto(c, "confirmseed")
    <3> DEFINE p == [proc[c] EXCEPT !.pc = "confirmseed"]
    <3>1. proc' = [proc EXCEPT ![c] = p]
      BY <2>4 DEF Goto, TypeOK
    <3>2. p.pc \notin {"seeds", "confirm", "apply", "drop"}
      BY DEF TypeOK, CommandsType
    <3> HIDE DEF p
    <3> QED
      BY <2>1, <3>1, <3>2, PastApply
  <2> QED
    BY <1>4, <2>2, <2>3, <2>4 DEF Applied
<1>5. ASSUME NEW c \in Clients, NEW v \in Versions, Commit(c, v)
      PROVE  XInv'
  <2> DEFINE p == [proc[c] EXCEPT !.pending = @ \ {v}]
  <2>1. proc[c] # Idle /\ Relies(c)
    BY <1>5 DEF Commit, At, Idle, Relies
  <2>2. /\ proc' = [proc EXCEPT ![c] = p]
        /\ history' = history \cup {v} /\ files' = files
    BY <1>5 DEF Commit, disk, TypeOK
  <2>3. /\ p.kind = proc[c].kind /\ p.target = proc[c].target
        /\ p.pending = proc[c].pending \ {v} /\ p.pc # "drop"
    BY <1>5 DEF Commit, At, TypeOK, CommandsType
  <2> HIDE DEF p
  <2>4. proc'[c] = p => ListCurrent(c)'
    <3> SUFFICES ASSUME proc'[c] = p
                 PROVE  ListCurrent(c)'
      OBVIOUS
    <3>1. Goal(c)' = Goal(c)
      BY <2>2, <2>3 DEF Goal, LoadPartial
    <3>2. /\ history \subseteq Goal(c)
          /\ proc[c].pending = Goal(c) \ history
          /\ proc[c].kind # "all" =>
               \A l \in proc[c].pending, h \in history : h < l
      BY <2>1 DEF XInv, ListCurrent, At
    <3>3. v \in proc[c].pending /\ \A w \in proc[c].pending : v <= w
      BY <1>5 DEF Commit, NextMigration
    <3>4. proc'[c].pending = Goal(c) \ history' /\ history' \subseteq Goal(c)
      BY <2>2, <2>3, <3>2, <3>3
    <3>5. ASSUME proc'[c].kind # "all", NEW l \in proc'[c].pending, NEW h \in history'
          PROVE  h < l
      <4>1. l \in proc[c].pending /\ l # v
        BY <2>3
      <4>2. proc[c].pending \subseteq Nat
        BY VersionsAssumption DEF TypeOK, CommandsType
      <4>3. CASE h = v
        BY <3>3, <4>1, <4>2, <4>3
      <4>4. CASE h \in history
        BY <2>3, <3>2, <3>5, <4>1, <4>4
      <4> QED
        BY <2>2, <4>3, <4>4
    <3> QED
      <4>1. ~At(c, "drop")'
        BY <2>3 DEF At
      <4>2. /\ history' \subseteq Goal(c)'
            /\ proc'[c].pending = Goal(c)' \ history'
        BY <3>1, <3>4
      <4> QED
        BY <3>5, <4>1, <4>2 DEF ListCurrent
  <2> QED
    BY <2>1, <2>2, <2>4, OthersIdle, Conclude
<1>6. ASSUME NEW c \in Clients, NEW v \in Versions, Conflict(c, v)
      PROVE  XInv'
  BY <1>6, Ended DEF Conflict, At, Idle
<1>7. ASSUME NEW c \in Clients, Seed(c) \/ Fault(c) \/ Decline(c)
      PROVE  XInv'
  BY <1>7, Ended DEF Seed, Fault, Decline, At, Idle
<1>8. ASSUME NEW c \in Clients, StartReset(c)
      PROVE  XInv'
  <2>1. \A d \in Clients : proc[d] = Idle
    BY <1>8 DEF StartReset, Ready
  <2>2. PICK t : proc' = [proc EXCEPT ![c] = [pc |-> "drop", kind |-> "reset",
                            target |-> t, pending |-> {}, plan |-> NoPlan]]
    BY <1>8 DEF StartReset, Begin
  <2> DEFINE p == [pc |-> "drop", kind |-> "reset",
                   target |-> t, pending |-> {}, plan |-> NoPlan]
  <2>3. proc'[c] = p => ListCurrent(c)'
    BY DEF ListCurrent, Relies, At
  <2>4. proc' = [proc EXCEPT ![c] = p]
    BY <2>2
  <2> HIDE DEF p
  <2> QED
    BY <2>1, <2>3, <2>4, Conclude
<1>9. ASSUME NEW c \in Clients, Drop(c)
      PROVE  XInv'
  <2> DEFINE p == [proc[c] EXCEPT !.pc = "apply", !.pending = LoadPartial(c)]
  <2>1. proc[c] # Idle
    BY <1>9 DEF Drop, At, Idle
  <2>2. /\ proc' = [proc EXCEPT ![c] = p]
        /\ history' = {} /\ files' = files
    BY <1>9 DEF Drop, disk, TypeOK
  <2>3. /\ p.kind = proc[c].kind /\ p.target = proc[c].target
        /\ p.pending = LoadPartial(c) /\ p.pc # "drop"
    BY DEF TypeOK, CommandsType
  <2> HIDE DEF p
  <2>4. proc[c].kind = "reset"
    BY <1>9 DEF XInv, ListCurrent, Drop
  <2>5. proc'[c] = p => ListCurrent(c)'
    <3> SUFFICES ASSUME proc'[c] = p
                 PROVE  ListCurrent(c)'
      OBVIOUS
    <3>1. Goal(c)' = LoadPartial(c)
      BY <2>2, <2>3, <2>4 DEF Goal, LoadPartial
    <3> QED
      BY <2>2, <2>3, <3>1 DEF ListCurrent, At
  <2> QED
    BY <2>1, <2>2, <2>5, OthersIdle, Conclude
<1>10. ASSUME NEW c \in Clients, Repair(c) \/ RepairAll(c) \/ Fetch(c)
       PROVE  XInv'
  BY <1>10, AllIdle DEF Repair, RepairAll, Fetch, Ready
<1>11. ASSUME NEW c \in Clients, Edit(c)
       PROVE  XInv'
  <2>1. /\ proc[c] = Idle /\ proc' = proc /\ history' = history
        /\ \A d \in Clients : d # c => files'[d] = files[d]
    BY <1>11 DEF Edit, db, TypeOK
  <2>2. Alone'
    BY <2>1 DEF XInv, Alone
  <2>3. ASSUME NEW d \in Clients
        PROVE  ListCurrent(d)'
    <3>1. CASE d = c
      BY <2>1, <3>1 DEF ListCurrent, Relies, At, Idle
    <3>2. CASE d # c
      BY <2>1, <3>2 DEF XInv, ListCurrent, At, Relies, Goal, LoadPartial
    <3> QED
      BY <3>1, <3>2
  <2> QED
    BY <2>2, <2>3 DEF XInv
<1>12. CASE UNCHANGED vars
  BY <1>12 DEF vars, db, disk, XInv, Alone, ListCurrent, At, Relies, Goal, LoadPartial
<1> QED
  BY <1>1, <1>2, <1>3, <1>4, <1>5, <1>6, <1>7, <1>8, <1>9, <1>10, <1>11,
     <1>12 DEF Next, Work

LEMMA ExclusiveInit == Init => XInv
  BY DEF Init, XInv, Alone, ListCurrent, Relies, At, Idle

THEOREM ExclusiveInvariance == Exclusive => (Spec => []XInv)
<1>1. CASE Exclusive
  <2>1. TypeOK /\ XInv /\ [Next]_vars => XInv'
    BY <1>1, ExclusiveStep
  <2>2. Spec => []XInv
    BY <2>1, ExclusiveInit, TypeCorrect, PTL DEF Spec
  <2> QED
    BY <2>2
<1> QED
  BY <1>1

\* Whatever commands of other clients come before and after, whatever fails,
\* and whatever repairs have left in the table: no migration of a push without
\* --include-all is executed after a newer one was recorded.
THEOREM InOrder == Exclusive => (Spec => ChronologicalOrder)
<1>1. ASSUME TypeOK, XInv, NEW c \in Clients, NEW v \in Versions,
             Commit(c, v), proc[c].kind # "all"
      PROVE  \A h \in history : h < v
  <2>1. Relies(c) /\ v \in proc[c].pending
    BY <1>1 DEF Commit, At, Relies, NextMigration
  <2> QED
    BY <1>1, <2>1 DEF XInv, ListCurrent
<1>2. TypeOK /\ XInv /\ [Next]_vars =>
        [\A c \in Clients, v \in Versions :
           Commit(c, v) /\ proc[c].kind # "all" => \A h \in history : h < v]_vars
  BY <1>1
<1>3. CASE Exclusive
  <2>1. Spec => []XInv
    BY <1>3, ExclusiveInvariance
  <2>2. Spec => ChronologicalOrder
    BY <1>2, <2>1, TypeCorrect, PTL DEF Spec, ChronologicalOrder
  <2> QED
    BY <2>2
<1> QED
  BY <1>3

\* A command that went through its list has left the history it set out for.
THEOREM Complete == Exclusive => (Spec => EndsComplete)
<1>1. ASSUME TypeOK, XInv, NEW c \in Clients, Applied(c)
      PROVE  history = IF proc[c].kind = "reset" THEN LoadPartial(c) ELSE files[c]
  <2>1. Relies(c) /\ proc[c].pending = {}
    BY <1>1 DEF Applied, At, Relies
  <2>2. history \subseteq Goal(c) /\ Goal(c) \ history = {}
    BY <1>1, <2>1 DEF XInv, ListCurrent
  <2> QED
    BY <2>2 DEF Goal
<1>2. TypeOK /\ XInv /\ [Next]_vars =>
        [\A c \in Clients : Applied(c) =>
           history = IF proc[c].kind = "reset" THEN LoadPartial(c) ELSE files[c]]_vars
  BY <1>1
<1>3. CASE Exclusive
  <2>1. Spec => []XInv
    BY <1>3, ExclusiveInvariance
  <2>2. Spec => EndsComplete
    BY <1>2, <2>1, TypeCorrect, PTL DEF Spec, EndsComplete
  <2> QED
    BY <2>2
<1> QED
  BY <1>3

-----------------------------------------------------------------------------
(***************************************************************************)
(* The seed file, under commands that do not overlap                       *)
(***************************************************************************)

\* What a command has planned for the seed file is what it would plan now: the
\* file is run exactly when no hash of it is recorded.  A reset plans after it
\* has dropped the tables.
PlanCurrent(c) ==
  proc[c].plan # NoPlan =>
    /\ ~At(c, "drop")
    /\ proc[c].plan.hash \in Hashes
    /\ proc[c].plan.dirty = (recorded # None)

\* The seed file was run once if its hash is recorded, and else not at all.
SeedInv ==
  /\ seedRuns = IF recorded = None THEN 0 ELSE 1
  /\ \A c \in Clients : PlanCurrent(c)

LEMMA SeedInit == Init => SeedInv
  BY DEF Init, SeedInv, PlanCurrent, Idle

\* A command without a plan for the seed file.
LEMMA Unplanned ==
  ASSUME NEW c \in Clients, proc'[c].plan = NoPlan
  PROVE  PlanCurrent(c)'
  BY DEF PlanCurrent

\* A step of c that leaves the tables of the seeds alone and starts with no
\* plan, or with the one c has, or with one that is made now.
LEMMA PlanStep ==
  ASSUME TypeOK, SeedInv, NEW c \in Clients, NEW p,
         proc' = [proc EXCEPT ![c] = p], recorded' = recorded, seedRuns' = seedRuns,
         p.plan = NoPlan \/ (p.plan = proc[c].plan /\ p.pc # "drop")
           \/ (p.plan = SeedPlan(seedFile[c]) /\ p.pc # "drop")
  PROVE  SeedInv'
<1>1. proc'[c] = p /\ \A d \in Clients : d # c => proc'[d] = proc[d]
  BY DEF TypeOK
<1>2. ASSUME NEW d \in Clients, d # c
      PROVE  PlanCurrent(d)'
  BY <1>1, <1>2 DEF SeedInv, PlanCurrent, At
<1>3. PlanCurrent(c)'
  <2>1. CASE p.plan = NoPlan
    BY <1>1, <2>1, Unplanned
  <2>2. CASE p.plan = proc[c].plan /\ p.pc # "drop"
    BY <1>1, <2>2 DEF SeedInv, PlanCurrent, At
  <2>3. CASE p.plan = SeedPlan(seedFile[c]) /\ p.pc # "drop"
    <3>1. seedFile[c] \in Hashes
      BY DEF TypeOK
    <3> QED
      BY <1>1, <2>3, <3>1 DEF SeedPlan, PlanCurrent, At
  <2> QED
    BY <2>1, <2>2, <2>3
<1>4. seedRuns' = IF recorded' = None THEN 0 ELSE 1
  BY DEF SeedInv
<1>5. \A d \in Clients : PlanCurrent(d)'
  BY <1>2, <1>3
<1> QED
  BY <1>4, <1>5 DEF SeedInv

\* One step of clients that keep their commands from overlapping.  Only a seed
\* and a drop change what the plans depend on, and they find no other command.
LEMMA SeedStep == TypeOK /\ XInv /\ SeedInv /\ [Next]_vars => SeedInv'
<1> SUFFICES ASSUME TypeOK, XInv, SeedInv, [Next]_vars
             PROVE  SeedInv'
  OBVIOUS
<1>1. ASSUME NEW c \in Clients, End(c), recorded' = recorded, seedRuns' = seedRuns
      PROVE  SeedInv'
  BY <1>1, PlanStep DEF End, Idle
<1>2. ASSUME NEW c \in Clients, NEW step, Goto(c, step), step # "drop",
             recorded' = recorded, seedRuns' = seedRuns
      PROVE  SeedInv'
  <2> DEFINE p == [proc[c] EXCEPT !.pc = step]
  <2>1. /\ proc' = [proc EXCEPT ![c] = p]
        /\ p.plan = proc[c].plan /\ p.pc # "drop"
    BY <1>2 DEF Goto, TypeOK, CommandsType
  <2> HIDE DEF p
  <2> QED
    BY <1>2, <2>1, PlanStep
<1>3. ASSUME NEW c \in Clients, NEW kind \in {"push", "all"}, ReadHistory(c, kind)
      PROVE  SeedInv'
  BY <1>3, PlanStep DEF ReadHistory, Begin, db
<1>4. ASSUME NEW c \in Clients, ReadSeeds(c)
      PROVE  SeedInv'
  <2>1. recorded' = recorded /\ seedRuns' = seedRuns
    BY <1>4 DEF ReadSeeds, db
  <2>2. PICK plan \in {NoPlan, SeedPlan(seedFile[c])} :
          IF proc[c].pending = {} /\ plan = NoPlan
          THEN End(c)
          ELSE proc' = [proc EXCEPT ![c].plan = plan,
                                    ![c].pc = IF proc[c].pending # {}
                                              THEN "confirm" ELSE "confirmseed"]
    BY <1>4 DEF ReadSeeds
  <2>3. CASE proc[c].pending = {} /\ plan = NoPlan
    BY <1>1, <2>1, <2>2, <2>3
  <2>4. CASE ~(proc[c].pending = {} /\ plan = NoPlan)
    <3> DEFINE step == IF proc[c].pending # {} THEN "confirm" ELSE "confirmseed"
               p == [proc[c] EXCEPT !.plan = plan, !.pc = step]
    <3>1. /\ proc' = [proc EXCEPT ![c] = p]
          /\ p.plan = plan /\ p.pc # "drop"
      BY <2>2, <2>4 DEF TypeOK, CommandsType
    <3> HIDE DEF p
    <3> QED
      BY <2>1, <2>2, <3>1, PlanStep
  <2> QED
    BY <2>3, <2>4
<1>5. ASSUME NEW c \in Clients, Confirm(c)
      PROVE  SeedInv'
  BY <1>2, <1>5 DEF Confirm, db
<1>6. ASSUME NEW c \in Clients, Decline(c) \/ Fault(c)
      PROVE  SeedInv'
  BY <1>1, <1>6 DEF Decline, Fault, db
<1>7. ASSUME NEW c \in Clients, NEW v \in Versions, Commit(c, v)
      PROVE  SeedInv'
  <2> DEFINE p == [proc[c] EXCEPT !.pending = @ \ {v}]
  <2>1. /\ proc' = [proc EXCEPT ![c] = p]
        /\ p.plan = proc[c].plan /\ p.pc # "drop"
        /\ recorded' = recorded /\ seedRuns' = seedRuns
    BY <1>7 DEF Commit, At, TypeOK, CommandsType
  <2> HIDE DEF p
  <2> QED
    BY <2>1, PlanStep
<1>8. ASSUME NEW c \in Clients, NEW v \in Versions, Conflict(c, v)
      PROVE  SeedInv'
  BY <1>1, <1>8 DEF Conflict, db
<1>9. ASSUME NEW c \in Clients, Applied(c)
      PROVE  SeedInv'
  <2>1. recorded' = recorded /\ seedRuns' = seedRuns
    BY <1>9 DEF Applied, db
  <2>2. CASE proc' = [proc EXCEPT ![c].plan = SeedPlan(seedFile[c]), ![c].pc = "seed"]
    <3> DEFINE p == [proc[c] EXCEPT !.plan = SeedPlan(seedFile[c]), !.pc = "seed"]
    <3>1. /\ proc' = [proc EXCEPT ![c] = p]
          /\ p.plan = SeedPlan(seedFile[c]) /\ p.pc # "drop"
      BY <2>2 DEF TypeOK, CommandsType
    <3> HIDE DEF p
    <3> QED
      BY <2>1, <3>1, PlanStep
  <2> QED
    BY <1>1, <1>2, <1>9, <2>1, <2>2 DEF Applied
<1>10. ASSUME NEW c \in Clients, Seed(c) \/ Drop(c)
       PROVE  /\ \A d \in Clients : d # c => PlanCurrent(d)'
              /\ recorded \in Hashes \cup {None}
              /\ seedRuns = IF recorded = None THEN 0 ELSE 1
  <2>1. proc[c] # Idle
    BY <1>10 DEF Seed, Drop, At, Idle
  <2>2. \A d \in Clients : d # c => proc'[d] = Idle
    BY <1>10, <2>1, OthersIdle DEF Seed, Drop, End, TypeOK
  <2> QED
    BY <2>2, Unplanned DEF Idle, TypeOK, SeedInv
<1>11. ASSUME NEW c \in Clients, Seed(c)
       PROVE  SeedInv'
  <2>1. PlanCurrent(c)'
    BY <1>11, Unplanned DEF Seed, End, Idle, TypeOK
  <2>2. seedRuns' = IF recorded' = None THEN 0 ELSE 1
    <3>1. PlanCurrent(c)
      BY DEF SeedInv
    <3>2. CASE proc[c].plan = NoPlan
      BY <1>10, <1>11, <3>2 DEF Seed
    <3>3. CASE proc[c].plan # NoPlan
      <4>1. recorded' # None
        BY <1>11, <3>1, <3>3 DEF Seed, PlanCurrent
      <4>2. /\ proc[c].plan.dirty = (recorded # None)
            /\ seedRuns' = IF proc[c].plan.dirty THEN seedRuns ELSE seedRuns + 1
        BY <1>11, <3>1, <3>3 DEF Seed, PlanCurrent
      <4>3. seedRuns' = IF recorded # None THEN seedRuns ELSE seedRuns + 1
        BY <4>2, Zenon
      <4>4. seedRuns = IF recorded = None THEN 0 ELSE 1
        BY DEF SeedInv
      <4> QED
        BY <4>1, <4>3, <4>4
    <3> QED
      BY <3>2, <3>3
  <2> QED
    BY <1>10, <1>11, <2>1, <2>2 DEF SeedInv
<1>12. ASSUME NEW c \in Clients, Drop(c)
       PROVE  SeedInv'
  <2>1. proc[c].plan = NoPlan
    BY <1>12 DEF Drop, SeedInv, PlanCurrent
  <2>2. proc'[c].plan = NoPlan
    BY <1>12, <2>1 DEF Drop, TypeOK, CommandsType
  <2> QED
    BY <1>10, <1>12, <2>2, Unplanned DEF Drop, SeedInv
<1>13. ASSUME NEW c \in Clients, StartReset(c)
       PROVE  SeedInv'
  <2>1. PICK t : Begin(c, "drop", "reset", t, {})
    BY <1>13 DEF StartReset
  <2> QED
    BY <1>13, <2>1, PlanStep DEF StartReset, Begin, db
<1>14. ASSUME UNCHANGED <<recorded, seedRuns, proc>>
       PROVE  SeedInv'
  BY <1>14 DEF SeedInv, PlanCurrent, At
<1>15. ASSUME NEW c \in Clients, Repair(c) \/ RepairAll(c) \/ Fetch(c) \/ Edit(c)
       PROVE  SeedInv'
  BY <1>14, <1>15 DEF Repair, RepairAll, Fetch, Edit, db
<1>16. CASE UNCHANGED vars
  BY <1>14, <1>16 DEF vars, db
<1> QED
  BY <1>3, <1>4, <1>5, <1>6, <1>7, <1>8, <1>9, <1>11, <1>12, <1>13, <1>15, <1>16
     DEF Next, Work

THEOREM SeedInvariance == Exclusive => (Spec => []SeedInv)
<1>1. CASE Exclusive
  <2>1. Spec => []XInv
    BY <1>1, ExclusiveInvariance
  <2>2. Spec => []SeedInv
    BY <2>1, SeedInit, SeedStep, TypeCorrect, PTL DEF Spec
  <2> QED
    BY <2>2
<1> QED
  BY <1>1

\* The seed statements run at most once between two drops of the schemas,
\* whatever fails between the read of the seed table and the seeding, and
\* however often the seed file is edited.
THEOREM SeedsOnce == Exclusive => (Spec => []SeedOnce)
<1>1. SeedInv => SeedOnce
  BY DEF SeedInv, SeedOnce
<1>2. CASE Exclusive
  <2>1. Spec => []SeedInv
    BY <1>2, SeedInvariance
  <2>2. Spec => []SeedOnce
    BY <1>1, <2>1, PTL
  <2> QED
    BY <2>2
<1> QED
  BY <1>2

\* A hash in the seed table is never the hash of a seed that has not run since
\* the schemas were dropped.
THEOREM SeedsHonest == Exclusive => (Spec => []SeedHonest)
<1>1. SeedInv => SeedHonest
  BY DEF SeedInv, SeedHonest
<1>2. CASE Exclusive
  <2>1. Spec => []SeedInv
    BY <1>2, SeedInvariance
  <2>2. Spec => []SeedHonest
    BY <1>1, <2>1, PTL
  <2> QED
    BY <2>2
<1> QED
  BY <1>2
=============================================================================
