-------------------------- MODULE LocalStackProofs --------------------------
(***************************************************************************)
(* Theorems about start, stop and db reset on the local stack, for every   *)
(* set of exclusions and any number of commands and faults.                *)
(*                                                                         *)
(* DataInv: the volumes are pruned by a rollback only if the start has     *)
(* found no volume of the database.  Rows are only written to a database   *)
(* that runs, a container of the database never outlives its volume, so    *)
(* without the volume there are no rows.  Objects outlive the database's   *)
(* volume: db reset removes that on its own, and creates it again before   *)
(* it ends, or else fails or is killed.  StorageInv: they never outlive    *)
(* their own.                                                              *)
(*                                                                         *)
(* VolumeInv: a volume that is not set up is that of the command that is   *)
(* running, or of a restore that is under way or was cut short, or there   *)
(* is an excuse; Restoring: nothing is done in a database that is being    *)
(* restored.  Progress and FoundReady: the services before the current one *)
(* have been started, those that are not probed any more were healthy when *)
(* they were left out, and only a crash undoes that.  Undisturbed: without *)
(* a fault, everything that is waited for is there when its turn comes.    *)
(***************************************************************************)
EXTENDS LocalStack, TLAPS

\* Where the command has found or made the volume of the database.
WithVolume == {"create", "run", "probe", "database", "buckets", "report",
               "remove", "recreate", "init14", "migrate14", "restart",
               "storage"}

RollingBack == {"list", "stopping", "prune", "prune_volumes"}

StackTypes ==
  /\ container \in [Containers -> {"absent", "stopped", "starting", "healthy"}]
  /\ cmd \in Commands
  /\ rows \in BOOLEAN /\ objects \in BOOLEAN /\ noBackup \in BOOLEAN
  /\ after \in {"report", "database", "buckets", "restart"}
  /\ pc \in {"idle", "check", "inspect", "volume", "remove_volume"}
            \cup WithVolume \cup RollingBack

\* What stands where the process is.
Positions ==
  /\ pc = "prune" => \A s \in Containers : container[s] \in {"absent", "stopped"}
  /\ pc = "prune_volumes" => \A s \in Containers : container[s] = "absent"
  /\ pc = "remove_volume" => container["db"] = "absent"
  /\ pc \in WithVolume => "db" \in volumes
  /\ pc = "volume" => cur = 0 \/ "db" \in volumes
  /\ pc \in {"remove", "remove_volume", "recreate"} => cmd = "reset"
  /\ pc = "check" => cmd \notin Stops
  /\ pc = "inspect" => cmd \in Starts
  /\ pc \in RollingBack => cmd \in Starts \cup Stops
  /\ cmd = "stop" \/ pc \in {"check", "inspect"} => ~noBackup

\* Objects, and containers, that have lost the database's volume.
Excused == excuses \cap {"reset", "killed"} # {}
Resetting == cmd = "reset" /\ pc \notin {"idle", "check"}

DataInv ==
  /\ StackTypes
  /\ Positions
  /\ rows \/ Exists("db") => "db" \in volumes
  /\ (objects \/ \E s \in Containers : Exists(s)) /\ "db" \notin volumes =>
       Resetting \/ Excused
  /\ cmd \in Starts /\ noBackup /\ pc \in WithVolume \cup RollingBack \cup {"volume"} =>
       ~rows /\ (objects => Excused)

-----------------------------------------------------------------------------
(***************************************************************************)
(* The database's container and the volumes of a project.                  *)
(***************************************************************************)

LEMMA DbSection == Db.id = "db" /\ Db.volumes = {"db"}
  BY DEF Db, Service

LEMMA StorageSection ==
  Storage \in Sections /\ Storage.id = "storage" /\ Storage.volumes = {"storage"}
<1>1. Storage \in Sections
  BY DEF Sections, StartOrder
<1> QED
  BY <1>1 DEF Storage, Service

LEMMA DbIsContainer == "db" \in Containers
  BY DbSection DEF Containers, Sections

LEMMA StorageIsContainer == "storage" \in Containers
  BY StorageSection DEF Containers

LEMMA BothVolumes == "db" \in Volumes /\ "storage" \in Volumes
  BY DbSection, StorageSection DEF Volumes, Sections

\* No two sections of start's run create the same container, and none of them
\* the database's.
LEMMA Ids ==
  /\ Len(StartOrder) = 13
  /\ StartOrder[1].id = "analytics" /\ StartOrder[2].id = "vector"
  /\ StartOrder[3].id = "kong" /\ StartOrder[4].id = "auth"
  /\ StartOrder[5].id = "inbucket" /\ StartOrder[6].id = "realtime"
  /\ StartOrder[7].id = "rest" /\ StartOrder[8].id = "storage"
  /\ StartOrder[9].id = "imgproxy" /\ StartOrder[10].id = "edge_runtime"
  /\ StartOrder[11].id = "pg_meta" /\ StartOrder[12].id = "studio"
  /\ StartOrder[13].id = "pooler"
  BY DEF StartOrder, Service, Logflare, Vector, Kong, GoTrue, Mailpit, Realtime,
         PostgREST, Storage, ImgProxy, EdgeRuntime, PgMeta, Studio, Pooler

LEMMA DistinctIds ==
  ASSUME NEW j \in 1 .. Len(StartOrder), NEW k \in 1 .. Len(StartOrder)
  PROVE  /\ StartOrder[j].id = StartOrder[k].id => j = k
         /\ StartOrder[k].id # "db"
         /\ StartOrder[k].id = "storage" => k = 8
<1>1. /\ \/ j = 1 \/ j = 2 \/ j = 3 \/ j = 4 \/ j = 5 \/ j = 6 \/ j = 7
         \/ j = 8 \/ j = 9 \/ j = 10 \/ j = 11 \/ j = 12 \/ j = 13
      /\ \/ k = 1 \/ k = 2 \/ k = 3 \/ k = 4 \/ k = 5 \/ k = 6 \/ k = 7
         \/ k = 8 \/ k = 9 \/ k = 10 \/ k = 11 \/ k = 12 \/ k = 13
  BY Ids
<1> QED
  BY <1>1, Ids

-----------------------------------------------------------------------------
LEMMA InitDataInv == Init => DataInv
  BY DbIsContainer
  DEF Init, DataInv, StackTypes, Positions, Excused, Resetting, WithVolume, RollingBack, Exists, Commands, Starts, Stops, settings, docker, data, process, history

\* One step per action.
LEMMA NextDataInv == DataInv /\ [Next]_vars => DataInv'
<1> SUFFICES ASSUME DataInv, [Next]_vars PROVE DataInv'
  OBVIOUS
<1> USE DbIsContainer
    DEF DataInv, StackTypes, Positions, Excused, Resetting, WithVolume, RollingBack, Exists, Commands, Starts, Stops, settings, docker, data, process, history
<1>1. CASE Begin
  BY <1>1 DEF Begin
<1>2. CASE Check
  <2>1. CASE cmd \in Starts /\ Exists("db")
    <3>1. pc' = "idle"
      BY <1>2, <2>1 DEF Check, EndsWith
    <3> QED
      BY <1>2, <2>1, <3>1 DEF Check
  <2>2. CASE cmd \in Starts /\ ~Exists("db")
    BY <1>2, <2>2 DEF Check
  <2>3. CASE cmd \notin Starts
    BY <1>2, <2>3 DEF Check, EndsWith
  <2> QED
    BY <2>1, <2>2, <2>3
<1>3. CASE Inspect
  BY <1>3 DEF Inspect, Fault
<1>4. CASE CreateVolumes
  BY DbSection, <1>4 DEF CreateVolumes, Current
<1>5. CASE CreateContainer
  BY <1>5 DEF CreateContainer, FailsWith, Aborts, EndsWith
<1>6. CASE RunContainer
  BY <1>6 DEF RunContainer, Probe, NextService
<1>7. CASE ProbeRound
  BY <1>7 DEF ProbeRound
<1>8. CASE ProbeTimesOut
  BY <1>8 DEF ProbeTimesOut, Fault, FailsWith, Aborts, EndsWith
<1>9. CASE SetUp
  BY <1>9 DEF SetUp
<1>10. CASE SetUpFails
  BY <1>10 DEF SetUpFails, FailsWith, Aborts, EndsWith
<1>11. CASE DatabaseReady
  BY <1>11 DEF DatabaseReady, NextService, Probe, Succeeds, EndsWith
<1>12. CASE SeedBuckets
  BY <1>12 DEF SeedBuckets, Probe, Succeeds, EndsWith, FailsWith, Aborts, Fault
<1>13. CASE Report
  BY <1>13 DEF Report, Succeeds, EndsWith
<1>14. CASE RemoveDatabase
  BY <1>14 DEF RemoveDatabase
<1>15. CASE RemoveVolume
  BY <1>15 DEF RemoveVolume, RemoveVolumes
<1>16. CASE Recreate
  BY <1>16 DEF Recreate
<1>17. CASE InitSchema14
  BY <1>17 DEF InitSchema14, Probe
<1>18. CASE Migrate14
  BY <1>18 DEF Migrate14
<1>19. CASE RestartServices
  BY <1>19 DEF RestartServices
<1>20. CASE SeedStorage
  BY <1>20 DEF SeedStorage, Succeeds, EndsWith, Probe
<1>21. CASE List
  BY <1>21 DEF List
<1>22. CASE StopContainers
  BY <1>22 DEF StopContainers, Aborts, EndsWith, Fault, Up
<1>23. CASE PruneContainers
  BY <1>23 DEF PruneContainers
<1>24. CASE PruneVolumes
  BY BothVolumes, <1>24 DEF PruneVolumes, RemoveVolumes, EndsWith
<1>25. CASE UploadFails
  BY <1>25 DEF UploadFails, FailsWith, EndsWith, Aborts, Fault
<1>26. CASE CallFails
  <2>1. /\ pc = "check" => pc' = "idle" /\ UNCHANGED excuses
        /\ pc # "check" => FailsWith("plain")
        /\ pc \notin {"idle"} \cup RollingBack
        /\ UNCHANGED <<docker, data, process>>
    BY <1>26 DEF CallFails, EndsWith
  <2>2. CASE pc = "check"
    BY <2>1, <2>2
  <2>3. CASE pc # "check" /\ cmd \in Starts
    <3>1. pc' = "list" /\ UNCHANGED excuses
      BY <2>1, <2>3 DEF FailsWith
    <3> QED
      BY <2>1, <2>3, <3>1
  <2>4. CASE pc # "check" /\ cmd \notin Starts
    <3>1. pc' = "idle" /\ excuses \subseteq excuses' /\ (cmd = "reset" => "reset" \in excuses')
      BY <2>1, <2>4 DEF FailsWith, Aborts, EndsWith
    <3> QED
      BY <2>1, <2>4, <3>1
  <2> QED
    BY <2>2, <2>3, <2>4
<1>27. CASE RemoveAllFails
  BY <1>27 DEF RemoveAllFails, Aborts, EndsWith, Fault
<1>28. CASE Kill
  BY <1>28 DEF Kill, EndsWith, Fault
<1>29. CASE Develop
  <2>1. pc = "idle" /\ UNCHANGED <<docker, process, pc, excuses>>
    BY <1>29 DEF Develop, history
  <2>2. CASE Healthy("db") /\ rows' = TRUE /\ UNCHANGED objects
    BY <2>1, <2>2 DEF Healthy
  <2>3. CASE Healthy("storage") /\ objects' = TRUE /\ UNCHANGED rows
    BY <2>1, <2>3, StorageIsContainer DEF Healthy
  <2> QED
    BY <1>29, <2>2, <2>3 DEF Develop
<1>30. ASSUME NEW s \in Containers, GetsHealthy(s) PROVE DataInv'
  BY <1>30 DEF GetsHealthy
<1>31. ASSUME NEW s \in Containers, Crash(s) PROVE DataInv'
  BY <1>31 DEF Crash, Fault, Healthy
<1>33. CASE RestoreEnds
  BY <1>33 DEF RestoreEnds
<1>34. CASE RestoreFails
  BY <1>34 DEF RestoreFails
<1>32. CASE UNCHANGED vars
  BY <1>32 DEF vars
<1> QED
  BY <1>1, <1>2, <1>3, <1>4, <1>5, <1>6, <1>7, <1>8, <1>9, <1>10, <1>11, <1>12, <1>13, <1>14, <1>15, <1>16, <1>17, <1>18, <1>19, <1>20, <1>21, <1>22, <1>23, <1>24, <1>25, <1>26, <1>27, <1>28, <1>29, <1>30, <1>31, <1>32, <1>33, <1>34
  DEF Next, Step

-----------------------------------------------------------------------------
\* Where an error leads.
LEMMA Failing ==
  ASSUME NEW kind, FailsWith(kind)
  PROVE  \/ pc' = "list" /\ cmd \in Starts /\ UNCHANGED <<result, excuses>>
         \/ /\ pc' = "idle" /\ result' \in {"failed", "ignored"}
            /\ excuses' # {} \/ (cmd \notin Starts \cup {"reset"} /\ UNCHANGED excuses)
<1>1. CASE cmd = "start" /\ ignore /\ kind = "joined"
  BY <1>1 DEF FailsWith, EndsWith
<1>2. CASE ~(cmd = "start" /\ ignore /\ kind = "joined") /\ cmd \in Starts
  BY <1>2 DEF FailsWith
<1>3. CASE cmd \notin Starts
  BY <1>3 DEF FailsWith, Aborts, EndsWith, Starts
<1> QED
  BY <1>1, <1>2, <1>3

\* An object lies in the volume of storage, and so does what a storage container
\* reads: the volume is created before the container, and no container outlives
\* it.
StorageInv ==
  /\ cur \in 0 .. Len(StartOrder)
  /\ pc \in {"create", "run"} => Current.volumes \subseteq volumes
  /\ objects \/ Exists("storage") => "storage" \in volumes

LEMMA InitStorageInv == Init => StorageInv
  BY Ids, StorageIsContainer DEF Init, StorageInv, Exists

LEMMA NextStorageInv == DataInv /\ StorageInv /\ [Next]_vars => StorageInv'
<1> SUFFICES ASSUME DataInv, StorageInv, [Next]_vars PROVE StorageInv'
  OBVIOUS
<1> USE StorageIsContainer DEF StorageInv, Exists, settings, docker, data, process, history
<1>0. /\ container \in [Containers -> {"absent", "stopped", "starting", "healthy"}]
      /\ after \in {"report", "database", "buckets", "restart"}
      /\ Positions /\ Len(StartOrder) = 13
  BY Ids DEF DataInv, StackTypes
<1>cur. UNCHANGED cur => UNCHANGED Current
  BY DEF Current
<1>st. Current.id = "storage" => "storage" \in Current.volumes
  <2>1. CASE cur = 0
    BY <2>1, DbSection DEF Current
  <2>2. CASE cur # 0
    <3>1. cur \in 1 .. Len(StartOrder)
      BY <1>0, <2>2
    <3>2. StartOrder[cur].id = "storage" => cur = 8
      BY <3>1, DistinctIds
    <3>3. StartOrder[8] = Storage
      BY DEF StartOrder
    <3> QED
      BY <2>2, <3>2, <3>3, StorageSection DEF Current
  <2> QED
    BY <2>1, <2>2
<1>next. NextService => cur' \in 0 .. Len(StartOrder) /\ pc' \in {"probe", "volume"}
  BY DEF NextService, Wanted, Probe
<1>1. CASE Begin
  BY <1>1, <1>0, <1>cur DEF Begin
<1>2. CASE Check
  BY <1>2, <1>0, <1>cur DEF Check, EndsWith
<1>3. CASE Inspect
  BY <1>3, <1>0, <1>cur DEF Inspect, Fault
<1>4. CASE CreateVolumes
  BY <1>4, <1>0, <1>cur DEF CreateVolumes
<1>5. CASE CreateContainer
  <2>1. CASE Exists(Current.id)
    BY <1>5, <1>cur, <2>1, Failing DEF CreateContainer
  <2>2. CASE ~Exists(Current.id)
    <3>1. Current.volumes \subseteq volumes /\ UNCHANGED <<cur, volumes, objects>>
          /\ container' = [container EXCEPT ![Current.id] = "stopped"]
      BY <1>5, <2>2 DEF CreateContainer
    <3>2. \A s \in Containers : s # Current.id => (Exists(s))' = Exists(s)
      BY <1>0, <3>1
    <3> QED
      BY <1>0, <1>cur, <1>st, <3>1, <3>2
  <2> QED
    BY <2>1, <2>2
<1>6. CASE RunContainer
  <2>1. cur' \in 0 .. Len(StartOrder) /\ pc' \in {"probe", "volume"}
    BY <1>6, <1>next DEF RunContainer, Probe
  <2>2. Current.volumes \subseteq volumes /\ UNCHANGED <<volumes, objects>>
        /\ container' = [container EXCEPT ![Current.id] = "starting"]
    BY <1>6 DEF RunContainer
  <2>3. \A s \in Containers : s # Current.id => (Exists(s))' = Exists(s)
    BY <1>0, <2>2
  <2> QED
    BY <1>0, <1>st, <2>1, <2>2, <2>3
<1>7. CASE ProbeRound
  BY <1>7, <1>0, <1>cur DEF ProbeRound
<1>8. CASE ProbeTimesOut
  BY <1>8, <1>0, <1>cur, Failing DEF ProbeTimesOut, EndsWith
<1>9. CASE SetUp
  BY <1>9, <1>0, <1>cur DEF SetUp
<1>10. CASE SetUpFails
  BY <1>10, <1>0, <1>cur, Failing DEF SetUpFails, EndsWith
<1>11. CASE DatabaseReady
  BY <1>11, <1>cur, <1>next DEF DatabaseReady, Succeeds, EndsWith
<1>12. CASE SeedBuckets
  BY <1>12, <1>0, <1>cur DEF SeedBuckets, FailsWith, Aborts, EndsWith, Probe, Succeeds
<1>13. CASE Report
  BY <1>13, <1>0, <1>cur DEF Report, Succeeds, EndsWith
<1>14. CASE RemoveDatabase
  BY <1>14, <1>0, <1>cur DEF RemoveDatabase
<1>15. CASE RemoveVolume
  <2>1. /\ volumes' = volumes \ {"db"} /\ (objects' => objects) /\ cur' = 0
        /\ pc' = "volume" /\ UNCHANGED container
    BY <1>15 DEF RemoveVolume, RemoveVolumes
  <2> QED
    BY <1>0, <2>1
<1>16. CASE Recreate
  BY <1>16, <1>0, <1>cur DEF Recreate
<1>17. CASE InitSchema14
  BY <1>17, <1>0, <1>cur DEF InitSchema14, Probe
<1>18. CASE Migrate14
  BY <1>18, <1>0, <1>cur DEF Migrate14
<1>19. CASE RestartServices
  BY <1>19, <1>0, <1>cur DEF RestartServices
<1>20. CASE SeedStorage
  BY <1>20, <1>0, <1>cur DEF SeedStorage, Succeeds, EndsWith, Probe
<1>21. CASE List
  BY <1>21, <1>0, <1>cur DEF List
<1>22. CASE StopContainers
  BY <1>22, <1>0, <1>cur DEF StopContainers, Aborts, EndsWith
<1>23. CASE PruneContainers
  BY <1>23, <1>0, <1>cur DEF PruneContainers
<1>24. CASE PruneVolumes
  BY <1>24, <1>0, <1>cur, BothVolumes DEF PruneVolumes, RemoveVolumes, EndsWith, Positions
<1>25. CASE UploadFails
  BY <1>25, <1>0, <1>cur, Failing DEF UploadFails, EndsWith
<1>26. CASE CallFails
  BY <1>26, <1>0, <1>cur, Failing DEF CallFails, EndsWith
<1>27. CASE RemoveAllFails
  BY <1>27, <1>0, <1>cur DEF RemoveAllFails, Aborts, EndsWith
<1>28. CASE Kill
  BY <1>28, <1>0, <1>cur DEF Kill, EndsWith
<1>29. CASE Develop
  BY <1>29, <1>cur DEF Develop, Healthy
<1>30. CASE RestoreEnds
  BY <1>30, <1>cur DEF RestoreEnds
<1>31. CASE RestoreFails
  BY <1>31, <1>cur DEF RestoreFails
<1>32. ASSUME NEW s \in Containers, GetsHealthy(s) PROVE StorageInv'
  BY <1>0, <1>cur, <1>32 DEF GetsHealthy
<1>33. ASSUME NEW s \in Containers, Crash(s) PROVE StorageInv'
  BY <1>0, <1>cur, <1>33 DEF Crash, Healthy
<1>34. CASE UNCHANGED vars
  BY <1>cur, <1>34 DEF vars
<1> QED
  BY <1>1, <1>2, <1>3, <1>4, <1>5, <1>6, <1>7, <1>8, <1>9, <1>10, <1>11, <1>12, <1>13, <1>14, <1>15, <1>16, <1>17, <1>18, <1>19, <1>20, <1>21, <1>22, <1>23, <1>24, <1>25, <1>26, <1>27, <1>28, <1>29, <1>30, <1>31, <1>32, <1>33, <1>34
  DEF Next, Step

-----------------------------------------------------------------------------
\* Each step keeps what the developer has stored, or is one that may not.
LEMMA KeepsDataStep ==
  DataInv /\ [Next]_vars =>
    /\ rows /\ ~rows' => cmd \in {"stop_no_backup", "reset"}
    /\ objects /\ ~objects' =>
         cmd = "stop_no_backup" \/ excuses \cap {"reset", "killed"} # {}
<1> SUFFICES ASSUME DataInv, [Next]_vars
             PROVE  /\ rows /\ ~rows' => cmd \in {"stop_no_backup", "reset"}
                    /\ objects /\ ~objects' =>
                         cmd = "stop_no_backup" \/ Excused
  BY DEF Excused
<1>1. CASE RemoveVolume
  BY <1>1 DEF DataInv, Positions, RemoveVolume, RemoveVolumes
<1>2. CASE Recreate
  BY <1>2 DEF DataInv, Positions, Recreate
<1>3. CASE PruneVolumes
  <2>1. pc = "prune_volumes" /\ cmd \in Starts \cup {"stop", "stop_no_backup"}
    BY <1>3 DEF PruneVolumes, DataInv, Positions, RollingBack, Stops
  <2>2. CASE noBackup /\ cmd \in Starts
    BY <2>1, <2>2 DEF DataInv, RollingBack
  <2>3. CASE ~noBackup
    BY <1>3, <2>3 DEF PruneVolumes, data
  <2>4. CASE noBackup /\ cmd \notin Starts
    BY <2>1, <2>4 DEF DataInv, Positions
  <2> QED
    BY <2>2, <2>3, <2>4 DEF DataInv, StackTypes
<1>4. CASE ~(RemoveVolume \/ Recreate \/ PruneVolumes)
  <2>1. CASE Begin \/ UploadFails \/ CallFails \/ RemoveAllFails \/ Kill
    BY <2>1 DEF Begin, UploadFails, CallFails, RemoveAllFails, Kill, data
  <2>2. CASE Develop
    BY <2>2 DEF Develop
  <2>3. RestoreEnds => UNCHANGED <<rows, objects>>
    BY DEF RestoreEnds
  <2>4. RestoreFails => UNCHANGED <<rows, objects>>
    BY DEF RestoreFails
  <2>5. ASSUME NEW s \in Containers, GetsHealthy(s) \/ Crash(s)
        PROVE  UNCHANGED <<rows, objects>>
    BY <2>5 DEF GetsHealthy, Crash, data
  <2>6. CASE \/ Check \/ Inspect \/ CreateVolumes \/ CreateContainer \/ ProbeRound
             \/ ProbeTimesOut \/ SetUpFails \/ DatabaseReady \/ SeedBuckets
             \/ Report \/ RestartServices \/ SeedStorage \/ List \/ PruneContainers
    BY <2>6 DEF Check, Inspect, CreateVolumes, CreateContainer, ProbeRound,
       ProbeTimesOut, SetUpFails, DatabaseReady, SeedBuckets, Report,
       RestartServices, SeedStorage, List, PruneContainers, data
  <2>7. RunContainer => UNCHANGED <<rows, objects>>
    BY DEF RunContainer
  <2>8. SetUp => UNCHANGED <<rows, objects>>
    BY DEF SetUp
  <2>9. RemoveDatabase => UNCHANGED <<rows, objects>>
    BY DEF RemoveDatabase
  <2>10. InitSchema14 => UNCHANGED <<rows, objects>>
    BY DEF InitSchema14
  <2>11. Migrate14 => UNCHANGED <<rows, objects>>
    BY DEF Migrate14
  <2>12. StopContainers => UNCHANGED <<rows, objects>>
    BY DEF StopContainers
  <2>13. CASE UNCHANGED vars
    BY <2>13 DEF vars, data
  <2> QED
    BY <1>4, <2>1, <2>2, <2>3, <2>4, <2>5, <2>6, <2>7, <2>8, <2>9, <2>10, <2>11,
       <2>12, <2>13 DEF Next, Step
<1> QED
  BY <1>1, <1>2, <1>3, <1>4

-----------------------------------------------------------------------------
(***************************************************************************)
(* Rows, and a container of the database, exist only with its volume, and  *)
(* objects only with that of storage; containers and objects that have     *)
(* lost the database's volume are those of a reset that runs, has failed   *)
(* or was killed.  A start whose NoBackupVolume lets DockerRemoveAll prune *)
(* the volumes has no rows to lose, and objects only after such a reset.   *)
(***************************************************************************)
THEOREM StackDataInv == Spec => [](DataInv /\ StorageInv)
  BY InitDataInv, NextDataInv, InitStorageInv, NextStorageInv, PTL DEF Spec

\* The action property KeepsData of the specification: no failing start, and
\* no fault, takes rows or objects with it.
THEOREM StackKeepsData == Spec => KeepsData
  BY StackDataInv, KeepsDataStep, PTL DEF Spec, KeepsData

-----------------------------------------------------------------------------
(***************************************************************************)
(* A volume of the database stands for a database that is set up.          *)
(*                                                                         *)
(* The argument.  A start that finds the volume does not touch what is in  *)
(* it, and one that finds none sets the database up before it goes on, or  *)
(* else rolls back and takes the volume with it.  A reset creates the      *)
(* volume anew and sets it up, or of Postgres 14 brings every stage but    *)
(* the vault again, and fails with an excuse before that.                  *)
(***************************************************************************)

\* The command stands at p, or will when the containers it probes are healthy.
At(p) == pc = p \/ (pc = "probe" /\ after = p)

InDockerStart == pc \in {"volume", "create", "run"}

\* The set-up is behind the command.
PastSetup ==
  \/ At("restart") \/ At("storage") \/ At("buckets") \/ At("report")
  \/ InDockerStart /\ cur # 0

Reset14 == cmd = "reset" /\ major = 14

\* Which commands come where.
Courses ==
  /\ pc \in {"recreate", "init14", "migrate14"} => Reset14
  /\ pc \in {"remove", "remove_volume"} => cmd = "reset" /\ major # 14
  /\ At("restart") \/ At("storage") => cmd = "reset"
  /\ At("report") => cmd = "start"
  /\ At("buckets") => cmd \in {"start", "reset"}
  /\ At("database") => cmd \in Starts \/ (cmd = "reset" /\ major # 14)
  /\ InDockerStart =>
       \/ cmd = "start"
       \/ cur = 0 /\ (cmd \in Starts \/ (cmd = "reset" /\ major # 14))
  /\ cmd = "db_restore" /\ (InDockerStart \/ At("database")) => noBackup
  /\ cmd = "reset" /\ pc # "idle" => ~noBackup

\* A backup is what the volume was made of.
Restore == "restored" \in done \/ done \cap Unfinished # {}

\* How far the set-up has come, whatever has gone wrong before.
SetUpSoFar ==
  /\ "db" \notin volumes => done = {}
  /\ PastSetup /\ NeedsSetup /\ ~Reset14 => AllStages \subseteq done
  /\ InDockerStart /\ cur = 0 /\ cmd \in Starts /\ noBackup => done = {}
  /\ At("database") /\ cmd = "db_restore" => Restore

Good ==
  \/ Complete
  \/ major = 14 /\ AllStages \ {"vault"} \subseteq done
  \/ done \cap Unfinished # {}

\* Nothing is to blame: what is in the volume is untouched, or a reset of
\* Postgres 14 is on its way back to it.
Blameless ==
  excuses = {} =>
    /\ /\ "db" \in volumes
       /\ \/ pc \in {"idle", "check", "inspect", "remove"} \/ cmd \in Stops
          \/ cmd \in Starts /\ ~noBackup
       => Good
    /\ pc = "volume" /\ cmd \in Starts /\ ~noBackup => "db" \in volumes
    /\ Reset14 =>
         /\ pc = "recreate" => Good
         /\ pc = "init14" => "roles" \in done \/ "partial" \in done
         /\ At("restart") \/ pc = "migrate14" =>
              {"roles", "schema"} \subseteq done \/ "partial" \in done
         /\ At("storage") \/ At("buckets") => Good

VolumeInv == major \in {14, 15} /\ Courses /\ SetUpSoFar /\ Blameless

LEMMA InitVolumeInv == Init => VolumeInv
  BY StackAssumption
  DEF Init, VolumeInv, Courses, SetUpSoFar, Blameless, At, InDockerStart, PastSetup, Reset14, NeedsSetup, Good, Complete, Restore, Unfinished, Starts, Stops, settings, docker, data, process, history

\* The next section is not the database.
LEMMA NextSection ==
  ASSUME NextService PROVE (pc' = "volume" /\ cur' # 0) \/ (pc' = "probe" /\ after' \in {"buckets", "report"})
<1>1. \A x : \A k \in Wanted(x) : k # 0
  BY DEF Wanted
<1> QED
  BY <1>1 DEF NextService, Probe

\* While a backup is being restored the database has not been found healthy, and
\* no other command has got to where it needs it.
Restoring ==
  /\ "restoring" \in done => container["db"] = "starting"
  /\ \/ pc = "run" /\ cur = 0
     \/ At("database") /\ cmd # "db_restore"
     \/ pc = "init14" \/ At("restart")
     => "restoring" \notin done

LEMMA InitRestoring == Init => Restoring
  BY DEF Init, Restoring

LEMMA NextRestoring ==
  DataInv /\ VolumeInv /\ Restoring /\ [Next]_vars => Restoring'
<1> SUFFICES ASSUME DataInv, VolumeInv, Restoring, [Next]_vars PROVE Restoring'
  OBVIOUS
<1> USE DbIsContainer
    DEF Restoring, At, Exists, Healthy, InDockerStart, settings, docker, data, process, history
<1>0. /\ container \in [Containers -> {"absent", "stopped", "starting", "healthy"}]
      /\ after \in {"report", "database", "buckets", "restart"}
      /\ Courses
  BY DEF DataInv, StackTypes, VolumeInv
<1>1. CASE Begin
  BY <1>0, <1>1 DEF Begin, Courses
<1>2. CASE Check
  BY <1>0, <1>2 DEF Check, EndsWith, Courses
<1>3. CASE Inspect
  BY <1>0, <1>3 DEF Inspect, Fault, Courses
<1>4. CASE CreateVolumes
  BY <1>0, <1>4 DEF CreateVolumes, Courses
<1>5. CASE CreateContainer
  <2>1. cur = 0 => Current.id = "db"
    BY DbSection DEF Current
  <2>2. CASE Exists(Current.id)
    BY <1>5, <2>2, Failing DEF CreateContainer
  <2>3. CASE ~Exists(Current.id)
    BY <1>0, <1>5, <2>1, <2>3 DEF CreateContainer
  <2> QED
    BY <2>2, <2>3
<1>6. CASE RunContainer
  <2>1. cur = 0 => Current.id = "db"
    BY DbSection DEF Current
  <2>2. CASE cur = 0
    BY <1>0, <1>6, <2>1, <2>2 DEF RunContainer, Probe
  <2>3. CASE cur # 0
    <3>1. cmd = "start" /\ done' = done
      BY <1>0, <1>6, <2>3 DEF RunContainer, Courses
    <3>2. container["db"] = "starting" => container["db"]' = "starting"
      BY <1>0, <1>6 DEF RunContainer
    <3> QED
      BY <1>6, <2>3, <3>1, <3>2, NextSection DEF RunContainer
  <2> QED
    BY <2>2, <2>3
<1>7. CASE ProbeRound
  BY <1>0, <1>7 DEF ProbeRound, Courses
<1>8. CASE ProbeTimesOut
  BY <1>0, <1>8, Failing, NextSection DEF ProbeTimesOut, Courses
<1>9. CASE SetUp
  BY <1>0, <1>9 DEF SetUp, Stages, AllStages, Courses
<1>10. CASE SetUpFails
  BY <1>0, <1>10, Failing, NextSection DEF SetUpFails, Courses
<1>11. CASE DatabaseReady
  BY <1>0, <1>11, Failing, NextSection DEF DatabaseReady, Succeeds, EndsWith, Courses
<1>12. CASE SeedBuckets
  BY <1>0, <1>12, Failing, NextSection DEF SeedBuckets, Probe, Succeeds, EndsWith, Courses
<1>13. CASE Report
  BY <1>0, <1>13 DEF Report, Succeeds, EndsWith, Courses
<1>14. CASE RemoveDatabase
  BY <1>0, <1>14 DEF RemoveDatabase, CutShort, Courses
<1>15. CASE RemoveVolume
  BY <1>0, <1>15 DEF RemoveVolume, RemoveVolumes, Courses
<1>16. CASE Recreate
  BY <1>0, <1>16 DEF Recreate, Courses
<1>17. CASE InitSchema14
  BY <1>0, <1>17 DEF InitSchema14, Probe, Courses
<1>18. CASE Migrate14
  BY <1>0, <1>18 DEF Migrate14, Courses
<1>19. CASE RestartServices
  BY <1>0, <1>19 DEF RestartServices, Courses
<1>20. CASE SeedStorage
  BY <1>0, <1>20 DEF SeedStorage, Succeeds, EndsWith, Probe, Courses
<1>21. CASE List
  BY <1>0, <1>21 DEF List, Courses
<1>22. CASE StopContainers
  BY <1>0, <1>22 DEF StopContainers, CutShort, Up, Aborts, EndsWith, Courses
<1>23. CASE PruneContainers
  BY <1>0, <1>23 DEF PruneContainers, Courses
<1>24. CASE PruneVolumes
  BY <1>0, <1>24 DEF PruneVolumes, RemoveVolumes, EndsWith, Courses
<1>25. CASE UploadFails
  BY <1>0, <1>25, Failing, NextSection DEF UploadFails, Courses
<1>26. CASE CallFails
  BY <1>0, <1>26, Failing, NextSection DEF CallFails, EndsWith, Courses
<1>27. CASE RemoveAllFails
  BY <1>0, <1>27 DEF RemoveAllFails, Aborts, EndsWith, Courses
<1>28. CASE Kill
  BY <1>0, <1>28 DEF Kill, EndsWith, Courses
<1>29. CASE Develop
  BY <1>0, <1>29 DEF Develop, Courses
<1>30. CASE RestoreEnds
  BY <1>30 DEF RestoreEnds
<1>31. CASE RestoreFails
  BY <1>31 DEF RestoreFails, CutShort
<1>32. ASSUME NEW s \in Containers, GetsHealthy(s) PROVE Restoring'
  BY <1>0, <1>32 DEF GetsHealthy
<1>33. ASSUME NEW s \in Containers, Crash(s) PROVE Restoring'
  BY <1>0, <1>33 DEF Crash
<1>34. CASE UNCHANGED vars
  BY <1>34 DEF vars
<1> QED
  BY <1>1, <1>2, <1>3, <1>4, <1>5, <1>6, <1>7, <1>8, <1>9, <1>10, <1>11, <1>12, <1>13, <1>14, <1>15, <1>16, <1>17, <1>18, <1>19, <1>20, <1>21, <1>22, <1>23, <1>24, <1>25, <1>26, <1>27, <1>28, <1>29, <1>30, <1>31, <1>32, <1>33, <1>34
  DEF Next, Step

LEMMA NextVolumeInv ==
  DataInv /\ DataInv' /\ Restoring /\ VolumeInv /\ [Next]_vars => VolumeInv'
<1> SUFFICES ASSUME DataInv, DataInv', Restoring, VolumeInv, [Next]_vars PROVE VolumeInv'
  OBVIOUS
<1> USE DEF VolumeInv, Courses, SetUpSoFar, Blameless, At, InDockerStart, PastSetup, Reset14, NeedsSetup, Good, Complete, Restore, Unfinished, AllStages, Starts, Stops, settings, docker, data, process, history
<1>0. /\ Positions /\ Positions' /\ StackTypes /\ StackTypes'
      /\ Exists("db") => "db" \in volumes
  BY DEF DataInv
<1>1. CASE Begin
  BY <1>0, <1>1 DEF Begin, Positions, StackTypes, Commands, WithVolume, RollingBack
<1>2. CASE Check
  BY <1>0, <1>2 DEF Check, EndsWith, Positions, StackTypes, Commands, WithVolume, RollingBack
<1>3. CASE Inspect
  BY <1>0, <1>3 DEF Inspect, Fault, Positions, StackTypes, Commands, WithVolume, RollingBack
<1>4. CASE CreateVolumes
  BY <1>0, <1>4 DEF CreateVolumes, Positions, StackTypes, Commands, WithVolume, RollingBack
<1>5. CASE CreateContainer
  BY <1>0, Failing, NextSection, <1>5 DEF CreateContainer, Probe, Succeeds, EndsWith, Positions, StackTypes, Commands, WithVolume, RollingBack
<1>6. CASE RunContainer
  BY <1>0, Failing, NextSection, <1>6 DEF RunContainer, Probe, Succeeds, EndsWith, Positions, StackTypes, Commands, WithVolume, RollingBack
<1>7. CASE ProbeRound
  BY <1>0, <1>7 DEF ProbeRound, Positions, StackTypes, Commands, WithVolume, RollingBack
<1>8. CASE ProbeTimesOut
  BY <1>0, Failing, NextSection, <1>8 DEF ProbeTimesOut, Probe, Succeeds, EndsWith, Positions, StackTypes, Commands, WithVolume, RollingBack
<1>9. CASE SetUp
  BY <1>0, <1>9 DEF SetUp, Positions, StackTypes, Commands, WithVolume, RollingBack
<1>10. CASE SetUpFails
  BY <1>0, Failing, NextSection, <1>10 DEF SetUpFails, Probe, Succeeds, EndsWith, Positions, StackTypes, Commands, WithVolume, RollingBack
<1>11. CASE DatabaseReady
  BY <1>0, Failing, NextSection, <1>11 DEF DatabaseReady, Probe, Succeeds, EndsWith, Positions, StackTypes, Commands, WithVolume, RollingBack
<1>12. CASE SeedBuckets
  BY <1>0, Failing, NextSection, <1>12 DEF SeedBuckets, Probe, Succeeds, EndsWith, Positions, StackTypes, Commands, WithVolume, RollingBack
<1>13. CASE Report
  BY <1>0, <1>13 DEF Report, Succeeds, EndsWith, Positions, StackTypes, Commands, WithVolume, RollingBack
<1>14. CASE RemoveDatabase
  BY <1>0, <1>14 DEF RemoveDatabase, CutShort, Positions, StackTypes, Commands, WithVolume, RollingBack
<1>15. CASE RemoveVolume
  BY <1>0, <1>15 DEF RemoveVolume, RemoveVolumes, Positions, StackTypes, Commands, WithVolume, RollingBack
<1>16. CASE Recreate
  BY <1>0, <1>16 DEF Recreate, Restoring, Healthy, Positions, StackTypes, Commands, WithVolume, RollingBack
<1>17. CASE InitSchema14
  BY <1>0, <1>17 DEF InitSchema14, Probe, Positions, StackTypes, Commands, WithVolume, RollingBack
<1>18. CASE Migrate14
  BY <1>0, <1>18 DEF Migrate14, Positions, StackTypes, Commands, WithVolume, RollingBack
<1>19. CASE RestartServices
  BY <1>0, <1>19 DEF RestartServices, Positions, StackTypes, Commands, WithVolume, RollingBack
<1>20. CASE SeedStorage
  BY <1>0, <1>20 DEF SeedStorage, Probe, Succeeds, EndsWith, Positions, StackTypes, Commands, WithVolume, RollingBack
<1>21. CASE List
  BY <1>0, <1>21 DEF List, Positions, StackTypes, Commands, WithVolume, RollingBack
<1>22. CASE StopContainers
  BY <1>0, <1>22 DEF StopContainers, CutShort, Aborts, EndsWith, Positions, StackTypes, Commands, WithVolume, RollingBack
<1>23. CASE PruneContainers
  BY <1>0, <1>23 DEF PruneContainers, Positions, StackTypes, Commands, WithVolume, RollingBack
<1>24. CASE PruneVolumes
  BY <1>0, BothVolumes, <1>24 DEF PruneVolumes, RemoveVolumes, EndsWith, Positions, StackTypes, Commands, WithVolume, RollingBack
<1>25. CASE UploadFails
  BY <1>0, Failing, NextSection, <1>25 DEF UploadFails, Probe, Succeeds, EndsWith, Positions, StackTypes, Commands, WithVolume, RollingBack
<1>26. CASE CallFails
  BY <1>0, Failing, NextSection, <1>26 DEF CallFails, Probe, Succeeds, EndsWith, Positions, StackTypes, Commands, WithVolume, RollingBack
<1>27. CASE RemoveAllFails
  BY <1>0, <1>27 DEF RemoveAllFails, Aborts, EndsWith, Positions, StackTypes, Commands, WithVolume, RollingBack
<1>28. CASE Kill
  BY <1>0, <1>28 DEF Kill, EndsWith, Positions, StackTypes, Commands, WithVolume, RollingBack
<1>29. CASE Develop
  BY <1>0, <1>29 DEF Develop, Positions, StackTypes, Commands, WithVolume, RollingBack
<1>30. ASSUME NEW s \in Containers, GetsHealthy(s) PROVE VolumeInv'
  BY <1>0, <1>30 DEF GetsHealthy
<1>31. ASSUME NEW s \in Containers, Crash(s) PROVE VolumeInv'
  BY <1>0, <1>31 DEF Crash
<1>33. CASE RestoreEnds
  BY <1>0, <1>33 DEF RestoreEnds
<1>34. CASE RestoreFails
  BY <1>0, <1>34 DEF RestoreFails, CutShort
<1>32. CASE UNCHANGED vars
  BY <1>0, <1>32 DEF vars
<1> QED
  BY <1>1, <1>2, <1>3, <1>4, <1>5, <1>6, <1>7, <1>8, <1>9, <1>10, <1>11, <1>12, <1>13, <1>14, <1>15, <1>16, <1>17, <1>18, <1>19, <1>20, <1>21, <1>22, <1>23, <1>24, <1>25, <1>26, <1>27, <1>28, <1>29, <1>30, <1>31, <1>32, <1>33, <1>34
  DEF Next, Step

\* A volume of the database that stands between commands is one of a database
\* that is set up, because the next start takes its existence for that
\* (utils.NoBackupVolume); but for the excuses that VolumeMeansSetUp names.
THEOREM VolumesSetUp == Spec => []VolumeMeansSetUp
<1>1. VolumeInv => VolumeMeansSetUp
  BY DEF VolumeInv, Blameless, Good, VolumeMeansSetUp
<1> QED
  BY <1>1, InitDataInv, NextDataInv, InitVolumeInv, NextVolumeInv,
     InitRestoring, NextRestoring, PTL DEF Spec

-----------------------------------------------------------------------------
(***************************************************************************)
(* A start that reports success has found every wanted service ready.      *)
(*                                                                         *)
(* The argument.  The sections are gone through in order and none that is  *)
(* wanted is passed over; the last probe ends when each of the services    *)
(* started has been found ready, and nothing but a crash takes that back.  *)
(***************************************************************************)

\* The sections before cur that are run.
Before(x, k) == {StartOrder[j].id : j \in {i \in Wanted(x) : i < k}}

\* The database has been probed, and the services are being started or probed.
PastDatabase == At("buckets") \/ At("report") \/ (InDockerStart /\ cur # 0)

Progress ==
  /\ pc # "idle" => result = "none"
  /\ At("database") => cur = 0
  /\ pc = "probe" /\ after \in {"database", "restart"} => probing \subseteq {"db"}
  /\ pc = "probe" /\ after = "buckets" => probing \subseteq {"storage"}
  /\ pc = "probe" /\ after = "report" => probing \subseteq started
  /\ cmd \in Starts /\ (pc \in {"check", "inspect"} \/ At("database")) => started = {}
  /\ cmd \in Starts /\ InDockerStart /\ cur = 0 => started = {}
  /\ cmd = "start" /\ InDockerStart /\ cur # 0 =>
       cur \in Wanted(excluded) /\ started = Before(excluded, cur)
  /\ cmd = "start" /\ (At("buckets") \/ At("report")) => started = WantedIds(excluded)
  /\ cmd = "start" /\ At("buckets") => "storage" \in started

FoundReady ==
  cmd = "start" /\ ~crashed =>
    /\ pc = "database" \/ PastDatabase => Healthy("db")
    /\ pc = "probe" /\ after = "database" => "db" \in probing \/ Healthy("db")
    /\ pc = "probe" /\ after = "report" => \A s \in Probed(started) \ probing : Ready(s)
    /\ pc = "report" => \A s \in Probed(started) : Ready(s)
    /\ result = "started" => \A s \in {"db"} \cup Probed(WantedIds(excluded)) : Ready(s)

-----------------------------------------------------------------------------
\* The database, and storage, wait for no other service.
LEMMA Alone ==
  /\ Section("db") = Db /\ Section("storage") = Storage
  /\ Db.through = {} /\ Db.awaits = {} /\ Storage.through = {} /\ Storage.awaits = {}
<1>1. \A s \in Sections : s.id = "db" => s = Db
  BY DistinctIds DEF Sections
<1>2. StartOrder[8] = Storage
  BY DEF StartOrder
<1>3. \A s \in Sections : s.id = "storage" => s = Storage
  BY <1>2, DistinctIds, DbSection DEF Sections
<1>4. Db \in Sections /\ Db.id = "db" /\ Storage \in Sections /\ Storage.id = "storage"
  BY DbSection, StorageSection DEF Sections
<1> QED
  BY <1>1, <1>3, <1>4 DEF Section, Db, Storage, Service

LEMMA SectionIds ==
  ASSUME NEW x, NEW k \in Wanted(x)
  PROVE  /\ k \in 1 .. Len(StartOrder) /\ k \in Nat /\ k > 0
         /\ StartOrder[k].id \in Containers /\ StartOrder[k].id # "db"
         /\ StartOrder[k].id \in WantedIds(x)
<1>1. k \in 1 .. Len(StartOrder)
  BY DEF Wanted
<1>2. Len(StartOrder) \in Nat
  BY Ids
<1> QED
  BY <1>1, <1>2, DistinctIds DEF Containers, Sections, WantedIds

\* The services in front of a section do not include its own.
LEMMA NotBefore ==
  ASSUME NEW k \in Wanted(excluded)
  PROVE  StartOrder[k].id \notin Before(excluded, k)
<1> SUFFICES ASSUME NEW j \in Wanted(excluded), j < k, StartOrder[j].id = StartOrder[k].id
             PROVE  FALSE
  BY DEF Before
<1>1. j = k
  BY DistinctIds, SectionIds
<1> QED
  BY <1>1, SectionIds

\* From one section to the next: nothing that is wanted is passed over.
LEMMA SectionsInOrder ==
  ASSUME NextService, UNCHANGED excluded,
         \/ cur = 0 /\ started = {}
         \/ cur \in Wanted(excluded) /\ started = Before(excluded, cur)
  PROVE  /\ \/ /\ pc' = "volume" /\ cur' # 0
               /\ cur' \in Wanted(excluded) /\ started' = Before(excluded, cur')
            \/ pc' = "probe" /\ started' = WantedIds(excluded)
         /\ pc' = "probe" => \/ after' = "report" /\ probing' = Probed(started')
                             \/ after' = "buckets" /\ probing' = {"storage"} /\ "storage" \in started'
         /\ started' = IF cur = 0 THEN {} ELSE started \cup {Current.id}
<1> DEFINE begun == IF cur = 0 THEN started ELSE started \cup {Current.id}
           later == {k \in Wanted(excluded) : k > cur}
<1>1. cur \in Nat /\ \A k \in Wanted(excluded) : k \in Nat /\ k > 0
  BY SectionIds
<1>2. begun = {StartOrder[j].id : j \in {i \in Wanted(excluded) : i <= cur}}
  <2>1. CASE cur = 0
    BY <1>1, <2>1
  <2>2. CASE cur # 0
    <3>1. \A i \in Wanted(excluded) : i <= cur <=> (i < cur \/ i = cur)
      BY <1>1
    <3>2. cur \in Wanted(excluded) /\ started = Before(excluded, cur) /\ Current.id = StartOrder[cur].id
      BY <2>2 DEF Current
    <3>3. ASSUME NEW x
          PROVE  x \in begun <=> \E j \in Wanted(excluded) : j <= cur /\ x = StartOrder[j].id
      <4>1. x \in Before(excluded, cur) <=> \E j \in Wanted(excluded) : j < cur /\ x = StartOrder[j].id
        BY DEF Before
      <4> QED
        BY <2>2, <3>1, <3>2, <4>1
    <3> DEFINE through == {StartOrder[j].id : j \in {i \in Wanted(excluded) : i <= cur}}
    <3>4. \A x : x \in through <=> \E j \in Wanted(excluded) : j <= cur /\ x = StartOrder[j].id
      OBVIOUS
    <3>5. \A x : x \in begun <=> x \in through
      BY <3>3, <3>4
    <3> HIDE DEF begun, through
    <3>6. begun = through
      BY <3>5
    <3> QED
      BY <3>6 DEF through
  <2> QED
    BY <2>1, <2>2
<1>3. started' = begun
  BY DEF NextService
<1>4. CASE later # {}
  <2>1. cur' \in later /\ (\A k \in later : cur' <= k) /\ pc' = "volume"
    BY <1>4 DEF NextService
  <2>2. {i \in Wanted(excluded) : i <= cur} = {i \in Wanted(excluded) : i < cur'}
    <3>1. ASSUME NEW i \in Wanted(excluded), i <= cur PROVE i < cur'
      BY <1>1, <2>1, <3>1
    <3>2. ASSUME NEW i \in Wanted(excluded), i < cur' PROVE i <= cur
      BY <1>1, <2>1, <3>2
    <3> QED
      BY <3>1, <3>2
  <2> QED
    BY <1>1, <1>2, <1>3, <2>1, <2>2 DEF Before
<1>5. CASE later = {}
  <2>1. pc' = "probe" /\ (\/ after' = "report" /\ probing' = Probed(begun)
                          \/ after' = "buckets" /\ probing' = {"storage"} /\ "storage" \in begun)
    BY <1>5 DEF NextService, Probe
  <2>2. {i \in Wanted(excluded) : i <= cur} = Wanted(excluded)
    BY <1>1, <1>5
  <2>3. begun = IF cur = 0 THEN {} ELSE started \cup {Current.id}
    <3>1. cur = 0 => started = {}
      BY <1>1
    <3> QED
      BY <3>1
  <2> HIDE DEF begun
  <2>4. begun = WantedIds(excluded)
    BY <1>2, <2>2 DEF WantedIds
  <2> QED
    BY <1>3, <2>1, <2>3, <2>4
<1> QED
  BY <1>4, <1>5

LEMMA InitProgress == Init => Progress
  BY DEF Init, Progress, At, InDockerStart, Starts, settings, docker, data, process, history

LEMMA NextProgress ==
  DataInv /\ VolumeInv /\ Progress /\ [Next]_vars => Progress'
<1> SUFFICES ASSUME DataInv, VolumeInv, Progress, [Next]_vars PROVE Progress'
  OBVIOUS
<1> USE DEF Progress, Probed, At, InDockerStart, Starts, settings, docker, data, process, history
<1>0. Courses /\ StackTypes
  BY DEF DataInv, VolumeInv
<1>1. CASE Begin
  BY <1>0, <1>1 DEF Begin, Courses, StackTypes, Commands, Stops
<1>2. CASE Check
  BY <1>0, <1>2 DEF Check, EndsWith, Courses, StackTypes, Commands, Stops
<1>3. CASE Inspect
  BY <1>0, <1>3 DEF Inspect, Fault, Courses, StackTypes, Commands, Stops
<1>4. CASE CreateVolumes
  BY <1>0, <1>4 DEF CreateVolumes, Courses, StackTypes, Commands, Stops
<1>5. CASE CreateContainer
  BY <1>0, <1>5, Failing DEF CreateContainer, Probe, Succeeds, EndsWith, Courses, StackTypes, Commands, Stops
<1>6. CASE RunContainer
  <2>1. CASE cur = 0
    BY <1>6, <2>1 DEF RunContainer, Probe
  <2>2. CASE cur # 0
    <3>1. pc = "run" /\ NextService /\ UNCHANGED <<cmd, excluded, result>>
      BY <1>6, <2>2 DEF RunContainer
    <3>2. cmd = "start"
      BY <1>0, <2>2, <3>1 DEF Courses
    <3> QED
      BY <2>2, <3>1, <3>2, SectionsInOrder
  <2> QED
    BY <2>1, <2>2
<1>7. CASE ProbeRound
  BY <1>0, <1>7 DEF ProbeRound, Courses, StackTypes, Commands, Stops
<1>8. CASE ProbeTimesOut
  BY <1>0, <1>8, Failing DEF ProbeTimesOut, Probe, Succeeds, EndsWith, Courses, StackTypes, Commands, Stops
<1>9. CASE SetUp
  BY <1>0, <1>9 DEF SetUp, Courses, StackTypes, Commands, Stops
<1>10. CASE SetUpFails
  BY <1>0, <1>10, Failing DEF SetUpFails, Probe, Succeeds, EndsWith, Courses, StackTypes, Commands, Stops
<1>11. CASE DatabaseReady
  <2>1. CASE cmd = "start"
    <3>1. pc = "database" /\ NextService /\ UNCHANGED <<cmd, excluded, result>>
      BY <1>11, <2>1 DEF DatabaseReady
    <3> QED
      BY <2>1, <3>1, SectionsInOrder
  <2>2. CASE cmd # "start"
    BY <1>11, <2>2 DEF DatabaseReady, Succeeds, EndsWith
  <2> QED
    BY <2>1, <2>2
<1>12. CASE SeedBuckets
  BY <1>0, <1>12, Failing DEF SeedBuckets, Probe, Succeeds, EndsWith, Courses, StackTypes, Commands, Stops
<1>13. CASE Report
  BY <1>0, <1>13 DEF Report, Succeeds, EndsWith, Courses, StackTypes, Commands, Stops
<1>14. CASE RemoveDatabase
  BY <1>0, <1>14 DEF RemoveDatabase, Courses, StackTypes, Commands, Stops
<1>15. CASE RemoveVolume
  BY <1>0, <1>15 DEF RemoveVolume, Courses, StackTypes, Commands, Stops
<1>16. CASE Recreate
  BY <1>0, <1>16 DEF Recreate, Courses, StackTypes, Commands, Stops
<1>17. CASE InitSchema14
  BY <1>0, <1>17 DEF InitSchema14, Probe, Courses, StackTypes, Commands, Stops
<1>18. CASE Migrate14
  BY <1>0, <1>18 DEF Migrate14, Courses, StackTypes, Commands, Stops
<1>19. CASE RestartServices
  BY <1>0, <1>19 DEF RestartServices, Courses, StackTypes, Commands, Stops
<1>20. CASE SeedStorage
  BY <1>0, <1>20 DEF SeedStorage, Probe, Succeeds, EndsWith, Courses, StackTypes, Commands, Stops
<1>21. CASE List
  BY <1>0, <1>21 DEF List, Courses, StackTypes, Commands, Stops
<1>22. CASE StopContainers
  BY <1>0, <1>22 DEF StopContainers, Aborts, EndsWith, Courses, StackTypes, Commands, Stops
<1>23. CASE PruneContainers
  BY <1>0, <1>23 DEF PruneContainers, Courses, StackTypes, Commands, Stops
<1>24. CASE PruneVolumes
  BY <1>0, <1>24 DEF PruneVolumes, EndsWith, Courses, StackTypes, Commands, Stops
<1>25. CASE UploadFails
  BY <1>0, <1>25, Failing DEF UploadFails, Probe, Succeeds, EndsWith, Courses, StackTypes, Commands, Stops
<1>26. CASE CallFails
  BY <1>0, <1>26, Failing DEF CallFails, Probe, Succeeds, EndsWith, Courses, StackTypes, Commands, Stops
<1>27. CASE RemoveAllFails
  BY <1>0, <1>27 DEF RemoveAllFails, Aborts, EndsWith, Courses, StackTypes, Commands, Stops
<1>28. CASE Kill
  BY <1>0, <1>28 DEF Kill, EndsWith, Courses, StackTypes, Commands, Stops
<1>29. CASE Develop
  BY <1>0, <1>29 DEF Develop, Courses, StackTypes, Commands, Stops
<1>30. ASSUME NEW s \in Containers, GetsHealthy(s) PROVE Progress'
  BY <1>0, <1>30 DEF GetsHealthy
<1>31. ASSUME NEW s \in Containers, Crash(s) PROVE Progress'
  BY <1>0, <1>31 DEF Crash
<1>33. CASE RestoreEnds
  BY <1>0, <1>33 DEF RestoreEnds
<1>34. CASE RestoreFails
  BY <1>0, <1>34 DEF RestoreFails
<1>32. CASE UNCHANGED vars
  BY <1>0, <1>32 DEF vars
<1> QED
  BY <1>1, <1>2, <1>3, <1>4, <1>5, <1>6, <1>7, <1>8, <1>9, <1>10, <1>11, <1>12, <1>13, <1>14, <1>15, <1>16, <1>17, <1>18, <1>19, <1>20, <1>21, <1>22, <1>23, <1>24, <1>25, <1>26, <1>27, <1>28, <1>29, <1>30, <1>31, <1>32, <1>33, <1>34
  DEF Next, Step

LEMMA InitFoundReady == Init => FoundReady
  BY DEF Init, FoundReady

\* What is ready stays ready while no container goes down.
LEMMA ReadyKept ==
  ASSUME \A t : Healthy(t) => Healthy(t)', 
         container["kong"] = "starting" => container["kong"]' \in {"starting", "healthy"}
  PROVE  \A s : Ready(s) => Ready(s)'
  BY DEF Ready, Healthy

LEMMA ReadySame ==
  ASSUME UNCHANGED container
  PROVE  \A s : (Ready(s)' <=> Ready(s)) /\ (Healthy(s)' <=> Healthy(s))
  BY DEF Ready, Healthy

LEMMA NextFoundReady ==
  DataInv /\ VolumeInv /\ Progress /\ FoundReady /\ [Next]_vars => FoundReady'
<1> SUFFICES ASSUME DataInv, VolumeInv, Progress, FoundReady, [Next]_vars PROVE FoundReady'
  OBVIOUS
<1> USE DEF FoundReady, Probed, PastDatabase, At, InDockerStart, settings, docker, data, process, history
<1>0. Courses /\ StackTypes /\ Progress
  BY DEF DataInv, VolumeInv
<1>same. container' = container => \A s : (Ready(s)' <=> Ready(s)) /\ (Healthy(s)' <=> Healthy(s))
  BY ReadySame
<1>1. CASE Begin
  BY <1>0, <1>same, <1>1 DEF Begin, Courses, StackTypes, Commands, Starts, Stops, Progress
<1>2. CASE Check
  BY <1>0, <1>same, <1>2 DEF Check, EndsWith, Courses, StackTypes, Commands, Starts, Stops, Progress
<1>3. CASE Inspect
  BY <1>0, <1>same, <1>3 DEF Inspect, Fault, Courses, StackTypes, Commands, Starts, Stops, Progress
<1>4. CASE CreateVolumes
  BY <1>0, <1>same, <1>4 DEF CreateVolumes, Courses, StackTypes, Commands, Starts, Stops, Progress
<1>5. CASE CreateContainer
  <2>1. CASE Exists(Current.id)
    BY <1>0, <1>5, <1>same, <2>1, Failing DEF CreateContainer, Courses, Progress
  <2>2. CASE ~Exists(Current.id)
    <3>1. Healthy("db") => Healthy("db")'
      BY <1>0, <1>5, <2>2, DbIsContainer DEF CreateContainer, StackTypes, Exists, Healthy
    <3> QED
      BY <1>0, <1>5, <2>2, <3>1 DEF CreateContainer, Courses, Progress
  <2> QED
    BY <2>1, <2>2
<1>6. CASE RunContainer
  <2>1. CASE cur = 0
    BY <1>0, <1>6, <2>1 DEF RunContainer, Probe, Courses, Progress
  <2>2. CASE cur # 0 /\ cmd = "start"
    <3>1. cur \in Wanted(excluded) /\ started = Before(excluded, cur)
      BY <1>0, <1>6, <2>2 DEF RunContainer, Courses, Progress
    <3>2. NextService /\ UNCHANGED <<cmd, excluded, result, crashed>>
      BY <1>6, <2>2 DEF RunContainer, Courses, Progress
    <3>3. Healthy("db") => Healthy("db")'
      <4>1. Current.id # "db"
        BY <2>2, <3>1, SectionIds DEF Current
      <4> QED
        BY <1>0, <1>6, <4>1, DbIsContainer DEF RunContainer, Healthy, StackTypes
    <3> QED
      BY <1>0, <1>6, <2>2, <3>1, <3>2, <3>3, SectionsInOrder DEF RunContainer, Courses, Progress
  <2>3. CASE cur # 0 /\ cmd # "start"
    BY <1>6, <2>3 DEF RunContainer, Courses, Progress
  <2> QED
    BY <2>1, <2>2, <2>3
<1>7. CASE ProbeRound
  <2>1. UNCHANGED <<host, container, cmd, after, started, excluded, result, crashed>>
    BY <1>7 DEF ProbeRound
  <2>2. pc = "probe" /\ probing' = {s \in probing : ~Ready(s)} /\ pc' \in {"probe", after}
        /\ (pc' = after => probing' = {} \/ after = "probe")
    BY <1>7 DEF ProbeRound
  <2>3. "db" \in probing => "db" \in probing' \/ Healthy("db")
    BY <2>2 DEF Ready
  <2> QED
    BY <1>0, <1>same, <2>1, <2>2, <2>3 DEF StackTypes
<1>8. CASE ProbeTimesOut
  BY <1>0, <1>same, <1>8, Failing DEF ProbeTimesOut, Probe, Succeeds, EndsWith, Courses, StackTypes, Commands, Starts, Stops, Progress
<1>9. CASE SetUp
  BY <1>0, <1>same, <1>9 DEF SetUp, Courses, StackTypes, Commands, Starts, Stops, Progress
<1>10. CASE SetUpFails
  BY <1>0, <1>same, <1>10, Failing DEF SetUpFails, Probe, Succeeds, EndsWith, Courses, StackTypes, Commands, Starts, Stops, Progress
<1>11. CASE DatabaseReady
  <2>1. CASE cmd = "start"
    <3>1. pc = "database" /\ NextService /\ UNCHANGED <<container, cmd, excluded, result, crashed>>
      BY <1>11, <2>1 DEF DatabaseReady
    <3> QED
      BY <1>0, <1>same, <2>1, <3>1, SectionsInOrder DEF Progress, Starts
  <2>2. CASE cmd # "start"
    BY <1>11, <2>2 DEF DatabaseReady
  <2> QED
    BY <2>1, <2>2
<1>12. CASE SeedBuckets
  BY <1>0, <1>same, <1>12, Failing DEF SeedBuckets, Probe, Succeeds, EndsWith, Courses, StackTypes, Commands, Starts, Stops, Progress
<1>13. CASE Report
  <2>1. ~crashed /\ cmd = "start" => Healthy("db") /\ \A s \in Probed(WantedIds(excluded)) : Ready(s)
    BY <1>0, <1>13 DEF Report, Courses, Progress
  <2>2. Healthy("db") => Ready("db")
    BY Alone DEF Ready
  <2> QED
    BY <1>0, <1>13, <1>same, <2>1, <2>2 DEF Report, Succeeds, EndsWith
<1>14. CASE RemoveDatabase
  BY <1>0, <1>same, <1>14 DEF RemoveDatabase, Courses, StackTypes, Commands, Starts, Stops, Progress
<1>15. CASE RemoveVolume
  BY <1>0, <1>same, <1>15 DEF RemoveVolume, Courses, StackTypes, Commands, Starts, Stops, Progress
<1>16. CASE Recreate
  BY <1>0, <1>same, <1>16 DEF Recreate, Courses, StackTypes, Commands, Starts, Stops, Progress
<1>17. CASE InitSchema14
  BY <1>0, <1>same, <1>17 DEF InitSchema14, Probe, Courses, StackTypes, Commands, Starts, Stops, Progress
<1>18. CASE Migrate14
  BY <1>0, <1>same, <1>18 DEF Migrate14, Courses, StackTypes, Commands, Starts, Stops, Progress
<1>19. CASE RestartServices
  BY <1>0, <1>same, <1>19 DEF RestartServices, Courses, StackTypes, Commands, Starts, Stops, Progress
<1>20. CASE SeedStorage
  BY <1>0, <1>same, <1>20 DEF SeedStorage, Probe, Succeeds, EndsWith, Courses, StackTypes, Commands, Starts, Stops, Progress
<1>21. CASE List
  BY <1>0, <1>same, <1>21 DEF List, Courses, StackTypes, Commands, Starts, Stops, Progress
<1>22. CASE StopContainers
  BY <1>0, <1>same, <1>22 DEF StopContainers, Aborts, EndsWith, Courses, StackTypes, Commands, Starts, Stops, Progress
<1>23. CASE PruneContainers
  BY <1>0, <1>same, <1>23 DEF PruneContainers, Courses, StackTypes, Commands, Starts, Stops, Progress
<1>24. CASE PruneVolumes
  BY <1>0, <1>same, <1>24 DEF PruneVolumes, EndsWith, Courses, StackTypes, Commands, Starts, Stops, Progress
<1>25. CASE UploadFails
  BY <1>0, <1>same, <1>25, Failing DEF UploadFails, Probe, Succeeds, EndsWith, Courses, StackTypes, Commands, Starts, Stops, Progress
<1>26. CASE CallFails
  BY <1>0, <1>same, <1>26, Failing DEF CallFails, Probe, Succeeds, EndsWith, Courses, StackTypes, Commands, Starts, Stops, Progress
<1>27. CASE RemoveAllFails
  BY <1>0, <1>same, <1>27 DEF RemoveAllFails, Aborts, EndsWith, Courses, StackTypes, Commands, Starts, Stops, Progress
<1>28. CASE Kill
  BY <1>0, <1>same, <1>28 DEF Kill, EndsWith, Courses, StackTypes, Commands, Starts, Stops, Progress
<1>29. CASE Develop
  BY <1>0, <1>same, <1>29 DEF Develop, Courses, StackTypes, Commands, Starts, Stops, Progress
<1>30. ASSUME NEW s \in Containers, GetsHealthy(s) PROVE FoundReady'
  <2>1. \A t : Healthy(t) => Healthy(t)'
    BY <1>0, <1>30 DEF GetsHealthy, Healthy, StackTypes
  <2>2. container["kong"] = "starting" => container["kong"]' \in {"starting", "healthy"}
    BY <1>0, <1>30 DEF GetsHealthy, StackTypes
  <2>3. \A t : Ready(t) => Ready(t)'
    BY <2>1, <2>2, ReadyKept
  <2> QED
    BY <1>0, <1>30, <2>1, <2>3 DEF GetsHealthy
<1>31. ASSUME NEW s \in Containers, Crash(s) PROVE FoundReady'
  BY <1>31 DEF Crash
<1>33. CASE RestoreEnds
  BY <1>0, <1>same, <1>33 DEF RestoreEnds
<1>34. CASE RestoreFails
  BY <1>0, <1>same, <1>34 DEF RestoreFails
<1>32. CASE UNCHANGED vars
  BY <1>0, <1>same, <1>32 DEF vars
<1> QED
  BY <1>1, <1>2, <1>3, <1>4, <1>5, <1>6, <1>7, <1>8, <1>9, <1>10, <1>11, <1>12, <1>13, <1>14, <1>15, <1>16, <1>17, <1>18, <1>19, <1>20, <1>21, <1>22, <1>23, <1>24, <1>25, <1>26, <1>27, <1>28, <1>29, <1>30, <1>31, <1>32, <1>33, <1>34
  DEF Next, Step

\* A start that succeeds (WaitForHealthyService, which asks fewer containers
\* each time) has seen every service that is wanted healthy, but for Vector on
\* Windows, and if none has crashed since then they still are.
THEOREM SuccessIsUp == Spec => []SuccessMeansUp
<1>1. FoundReady => SuccessMeansUp
  BY DEF FoundReady, SuccessMeansUp
<1> QED
  BY <1>1, InitDataInv, NextDataInv, InitVolumeInv, NextVolumeInv,
     InitRestoring, NextRestoring, InitProgress,
     NextProgress, InitFoundReady, NextFoundReady, PTL DEF Spec

-----------------------------------------------------------------------------
(***************************************************************************)
(* Nothing goes wrong: then a command fails only for a reason.             *)
(***************************************************************************)

\* Where a start goes on with the containers it has created so far.
Starting == InDockerStart \/ At("database") \/ At("buckets") \/ At("report")

\* The database is healthy, or was made from a backup and will be.
DatabaseUp ==
  \/ Healthy("db")
  \/ container["db"] = "starting" /\ done \cap {"restoring", "restored"} # {}

\* The database is there and healthy, or it is being waited for.
DatabaseHealthy ==
  /\ \/ pc \in {"idle", "check", "remove"} /\ Exists("db")
     \/ pc = "recreate"
     \/ At("database") /\ cmd = "db_restore"
     => DatabaseUp
  /\ \/ pc \in {"init14", "migrate14", "restart", "storage"}
     \/ pc = "database" /\ cmd # "db_restore"
     \/ PastDatabase
     => Healthy("db")
  /\ pc = "probe" /\ after \in {"database", "restart"} =>
       "db" \in probing \/ Healthy("db")

\* Its container is the first to be created, and no other outlives it.
DatabaseFirst ==
  /\ pc \in {"inspect", "remove_volume"} \/ (pc \in {"volume", "create"} /\ cur = 0)
       => ~Exists("db")
  /\ pc \in {"idle", "check", "inspect"} /\ ~Exists("db") =>
       \A s \in Containers : ~Exists(s)

\* A start has created what it has started, and nothing else is there.
Created ==
  cmd \in Starts /\ Starting =>
    \A s \in Containers :
      /\ Exists(s) => s \in {"db"} \cup started \/ (pc = "run" /\ s = Current.id)
      /\ s \in started => Exists(s)

\* No container that a command has created is left stopped.
NoneStopped ==
  \A s \in Containers :
    container[s] = "stopped" => pc = "prune" \/ (pc = "run" /\ s = Current.id)

\* A rollback has a reason.
RollbackReason ==
  /\ pc \in RollingBack /\ cmd \in Starts =>
       \/ cmd = "db_restore" /\ "db" \in volumes /\ ~noBackup
       \/ cmd = "start" /\ Unservable(excluded)
       \/ late = "kong"
  /\ At("buckets") /\ cmd = "reset" => Exists("storage")

Smooth ==
  /\ DatabaseHealthy /\ DatabaseFirst /\ Created /\ NoneStopped /\ RollbackReason
  /\ FailsForAReason

Undisturbed == faults \in Nat /\ (faults = 0 => Smooth)

LEMMA InitUndisturbed == Init => Undisturbed
  BY DbIsContainer
  DEF Init, Undisturbed, Smooth, DatabaseHealthy, DatabaseUp, DatabaseFirst, Created, NoneStopped,
      RollbackReason, FailsForAReason, At, InDockerStart, PastDatabase, Starting, Starts,
      RollingBack, Exists, Healthy, settings, docker, data, process, history

\* A fault is counted.
LEMMA FaultsCounted ==
  ASSUME faults \in Nat, [Next]_vars
  PROVE  /\ faults' \in Nat
         /\ faults' = 0 => faults = 0 /\ ~Fault
<1>1. Fault => faults' = faults + 1
  BY DEF Fault
<1>2. Fault \/ faults' = faults
  BY DEF Next, Step, Begin, Check, Inspect, CreateVolumes, CreateContainer,
     RunContainer, ProbeRound, ProbeTimesOut, SetUp, SetUpFails, DatabaseReady,
     SeedBuckets, Report, RemoveDatabase, RemoveVolume, Recreate, InitSchema14,
     Migrate14, RestartServices, SeedStorage, List, StopContainers,
     PruneContainers, PruneVolumes, UploadFails, CallFails, RemoveAllFails,
     Kill, Develop, RestoreEnds, RestoreFails, GetsHealthy, Crash, vars
<1> QED
  BY <1>1, <1>2

LEMMA KongIsContainer == "kong" \in Containers
<1>1. Kong \in Sections /\ Kong.id = "kong"
  BY DEF Sections, StartOrder, Kong, Service
<1> QED
  BY <1>1 DEF Containers

LEMMA WantedAreContainers == \A x : WantedIds(x) \subseteq Containers
  BY SectionIds DEF WantedIds

LEMMA NextUndisturbed ==
  DataInv /\ DataInv' /\ VolumeInv /\ Restoring /\ Progress /\ Undisturbed /\ [Next]_vars
    => Undisturbed'
<1> SUFFICES ASSUME DataInv, DataInv', VolumeInv, Restoring, Progress, Undisturbed, [Next]_vars,
                    faults' = 0
             PROVE  Smooth'
  BY FaultsCounted DEF Undisturbed
<1>nf. faults = 0 /\ ~Fault
  BY FaultsCounted DEF Undisturbed
<1> USE DEF DatabaseHealthy, DatabaseUp, DatabaseFirst, Created, NoneStopped, RollbackReason,
            FailsForAReason, Starting, PastDatabase, At, InDockerStart, Starts, Stops,
            RollingBack, Exists, Healthy, settings, docker, data, process, history
<1>0. Courses /\ StackTypes /\ StackTypes' /\ Positions /\ Progress /\ DatabaseHealthy
      /\ DatabaseFirst /\ Created /\ NoneStopped /\ RollbackReason /\ FailsForAReason
  BY <1>nf DEF DataInv, VolumeInv, Undisturbed, Smooth
\* What a start has found wanted and started is up.
<1>up. ASSUME cmd = "start", At("buckets") \/ At("report"), started = WantedIds(excluded),
              NEW t \in WantedIds(excluded)
       PROVE  Up(t)
  <2>1. t \in Containers
    BY <1>up, WantedAreContainers
  <2>2. Exists(t)
    BY <1>0, <1>up, <2>1
  <2>3. container[t] # "stopped"
    BY <1>0, <1>up, <2>1
  <2> QED
    BY <1>0, <2>1, <2>2, <2>3 DEF Up, StackTypes
<1>cur. UNCHANGED cur => UNCHANGED Current
  BY DEF Current
<1>1. CASE Begin
  BY <1>0, <1>nf, <1>cur, <1>1, DbIsContainer DEF Smooth, Begin, Courses, StackTypes, Positions, Commands, Progress
<1>2. CASE Check
  BY <1>0, <1>nf, <1>cur, <1>2, DbIsContainer DEF Smooth, Check, EndsWith, Courses, StackTypes, Positions, Commands, Progress
<1>3. CASE Inspect
  BY <1>0, <1>nf, <1>cur, <1>3, DbIsContainer DEF Smooth, Inspect, Courses, StackTypes, Positions, Commands, Progress
<1>4. CASE CreateVolumes
  BY <1>0, <1>nf, <1>cur, <1>4, DbIsContainer DEF Smooth, CreateVolumes, Courses, StackTypes, Positions, Commands, Progress
<1>5. CASE CreateContainer
  <2>1. ~Exists(Current.id) /\ Current.id \in Containers
    <3>1. CASE cur = 0
      BY <1>0, <1>5, <3>1, DbSection, DbIsContainer DEF Smooth, CreateContainer, Current
    <3>2. CASE cur # 0
      <4>1. cur \in Wanted(excluded) /\ started = Before(excluded, cur) /\ cmd = "start"
        BY <1>0, <1>5, <3>2 DEF Smooth, CreateContainer, Courses, Progress
      <4>2. Current.id \in Containers /\ Current.id # "db" /\ Current.id \notin started
        BY <3>2, <4>1, SectionIds, NotBefore DEF Current
      <4> QED
        BY <1>0, <1>5, <4>1, <4>2 DEF Smooth, CreateContainer
    <3> QED
      BY <3>1, <3>2
  <2>2. container' = [container EXCEPT ![Current.id] = "stopped"] /\ pc' = "run"
        /\ UNCHANGED <<result, cmd, cur, started, excluded, Current>>
    BY <1>5, <2>1 DEF Smooth, CreateContainer, Current
  <2>3. cur # 0 => Current.id # "db" /\ cmd = "start"
    <3> SUFFICES ASSUME cur # 0 PROVE Current.id # "db" /\ cmd = "start"
      OBVIOUS
    <3>1. cur \in Wanted(excluded) /\ cmd = "start"
      BY <1>0, <1>5 DEF Smooth, CreateContainer, Courses, Progress
    <3> QED
      BY <3>1, SectionIds DEF Current
  <2> QED
    BY <1>0, <1>5, <2>1, <2>2, <2>3 DEF Smooth, CreateContainer, Progress, Courses, StackTypes
<1>6. CASE RunContainer
  <2>1. CASE cur = 0
    <3>1. Current.id = "db"
      BY <2>1, DbSection DEF Current
    <3>2. /\ container' = [container EXCEPT !["db"] = "starting"] /\ pc = "run"
          /\ pc' = "probe" /\ after' = "database" /\ probing' = {"db"}
          /\ done' = IF cmd = "db_restore" THEN done \cup {"restoring"} ELSE done
          /\ UNCHANGED <<cmd, cur, started, result, excluded>>
      BY <1>6, <2>1, <3>1 DEF Smooth, RunContainer, Probe
    <3> QED
      BY <1>0, <2>1, <3>1, <3>2 DEF Smooth, Progress, StackTypes
  <2>2. CASE cur # 0
    <3>1. cur \in Wanted(excluded) /\ started = Before(excluded, cur) /\ cmd = "start"
      BY <1>0, <1>6, <2>2 DEF Smooth, RunContainer, Courses, Progress
    <3>2. Current.id \in Containers /\ Current.id # "db"
      BY <2>2, <3>1, SectionIds DEF Current
    <3>3. /\ NextService /\ UNCHANGED <<cmd, excluded, result>> /\ pc = "run"
          /\ container' = [container EXCEPT ![Current.id] = "starting"]
      BY <1>6, <2>2 DEF Smooth, RunContainer
    <3>4. /\ \/ pc' = "volume" /\ cur' # 0
             \/ pc' = "probe" /\ after' \in {"report", "buckets"}
          /\ started' = started \cup {Current.id}
      BY <2>2, <3>1, <3>3, SectionsInOrder
    <3>5. Healthy("db")'
      BY <1>0, <2>2, <3>2, <3>3 DEF Smooth, StackTypes
    <3>6. \A s \in Containers : container'[s] = IF s = Current.id THEN "starting" ELSE container[s]
      BY <1>0, <3>3 DEF Smooth, StackTypes
    <3> QED
      BY <1>0, <2>2, <3>1, <3>3, <3>4, <3>5, <3>6 DEF Smooth, Progress
  <2> QED
    BY <2>1, <2>2
<1>7. CASE ProbeRound
  BY <1>0, <1>nf, <1>cur, <1>7, DbIsContainer DEF Smooth, ProbeRound, Ready, Courses, StackTypes, Positions, Commands, Progress
<1>8. CASE ProbeTimesOut
  <2>1. pc = "probe" /\ UNCHANGED <<container, done, cmd, cur, started, excluded, after>>
    BY <1>8 DEF Smooth, ProbeTimesOut
  <2>0. CASE cmd = "db_restore"
    <3>1. after = "database" /\ pc' = "database" /\ UNCHANGED result
      BY <1>0, <1>8, <2>0, <2>1 DEF ProbeTimesOut, Courses, StackTypes
    <3> QED
      BY <1>0, <1>cur, <2>0, <2>1, <3>1 DEF Smooth, Progress
  <2> SUFFICES ASSUME cmd # "db_restore" PROVE Smooth'
    BY <2>0
  <2>2. PICK s \in probing : Doomed(s)
    <3>1. "db" \in probing => "restoring" \notin done
      BY <1>0, <2>1 DEF Restoring, StackTypes
    <3> QED
      BY <1>nf, <1>8, <3>1 DEF Smooth, ProbeTimesOut
  <2>3. after = "report" /\ s \in started
    <3>1. ~Doomed("db") /\ ~Doomed("storage")
      BY Alone DEF Smooth, Doomed
    <3> QED
      BY <1>0, <2>1, <2>2, <3>1 DEF Smooth, Progress, StackTypes
  <2>4. cmd = "start" /\ started = WantedIds(excluded)
    BY <1>0, <2>1, <2>3 DEF Smooth, Courses, Progress
  <2>5. PICK t \in Section(s).through \cup Section(s).awaits : ~Up(t)
    BY <2>2 DEF Smooth, Doomed
  <2>6. t \notin WantedIds(excluded)
    BY <1>up, <2>1, <2>3, <2>4, <2>5
  <2>7. Unservable(excluded)
    BY <2>3, <2>4, <2>5, <2>6 DEF Smooth, Unservable
  <2>8. \/ pc' = "list" /\ UNCHANGED result
        \/ pc' = "idle" /\ result' = "ignored"
    BY <1>8, <2>4 DEF Smooth, ProbeTimesOut, FailsWith, EndsWith
  <2> QED
    BY <1>0, <2>1, <2>3, <2>4, <2>7, <2>8 DEF Smooth, Progress
<1>9. CASE SetUp
  BY <1>0, <1>nf, <1>cur, <1>9, DbIsContainer DEF Smooth, SetUp, Courses, StackTypes, Positions, Commands, Progress
<1>10. CASE SetUpFails
  BY <1>0, <1>nf, <1>cur, <1>10, DbIsContainer, Failing DEF Smooth, SetUpFails, NeedsSetup, Courses, StackTypes, Positions, Commands, Progress
<1>11. CASE DatabaseReady
  <2>1. CASE cmd = "start"
    <3>1. pc = "database" /\ NextService /\ UNCHANGED <<container, cmd, excluded, result>>
      BY <1>11, <2>1 DEF Smooth, DatabaseReady
    <3>2. cur = 0 /\ started = {}
      BY <1>0, <2>1, <3>1 DEF Smooth, Progress
    <3>3. /\ \/ pc' = "volume" /\ cur' # 0
             \/ pc' = "probe" /\ after' \in {"report", "buckets"}
          /\ started' = {}
      BY <3>1, <3>2, SectionsInOrder
    <3> QED
      BY <1>0, <2>1, <3>1, <3>2, <3>3 DEF Smooth, Progress
  <2>2. CASE cmd # "start"
    BY <1>0, <1>11, <2>2 DEF Smooth, DatabaseReady, Succeeds, EndsWith, Progress
  <2> QED
    BY <2>1, <2>2
<1>12. CASE SeedBuckets
  <2>1. CASE Healthy("kong")
    BY <1>0, <1>12, <2>1 DEF Smooth, SeedBuckets, Succeeds, EndsWith, Probe, Progress, Courses
  <2>2. CASE ~Healthy("kong")
    <3>1. pc = "buckets" /\ FailsWith("plain") /\ UNCHANGED <<container, cmd, excluded>>
          /\ late' = IF Up("kong") THEN "kong" ELSE late
      BY <1>12, <2>2 DEF Smooth, SeedBuckets
    <3>2. Healthy("db")
      BY <1>0, <3>1
    <3>3. CASE cmd = "start"
      <4>1. started = WantedIds(excluded) /\ "storage" \in started
        BY <1>0, <3>1, <3>3 DEF Smooth, Progress
      <4>2. "kong" \notin WantedIds(excluded) \/ Up("kong")
        BY <1>up, <3>1, <3>3, <4>1
      <4>3. Unservable(excluded) \/ late' = "kong"
        BY <3>1, <4>1, <4>2 DEF Smooth, Unservable
      <4>4. pc' = "list" /\ UNCHANGED result
        BY <3>1, <3>3 DEF Smooth, FailsWith
      <4> QED
        BY <1>0, <3>1, <3>3, <4>3, <4>4 DEF Smooth, Progress
    <3>4. CASE cmd = "reset"
      <4>1. pc' = "idle" /\ result' = "failed"
        BY <3>1, <3>4 DEF Smooth, FailsWith, Aborts, EndsWith
      <4>2. Exists("storage") /\ (~Exists("kong") \/ late' = "kong")
        BY <1>0, <3>1, <3>4, KongIsContainer DEF Smooth, Up, StackTypes
      <4> QED
        BY <1>0, <3>1, <3>2, <3>4, <4>1, <4>2 DEF Smooth
    <3> QED
      BY <1>0, <3>1, <3>3, <3>4 DEF Smooth, Courses
  <2> QED
    BY <2>1, <2>2
<1>13. CASE Report
  BY <1>0, <1>nf, <1>cur, <1>13, DbIsContainer DEF Smooth, Report, Succeeds, EndsWith, Courses, StackTypes, Positions, Commands, Progress
<1>14. CASE RemoveDatabase
  BY <1>0, <1>nf, <1>cur, <1>14, DbIsContainer DEF Smooth, RemoveDatabase, CutShort, Courses, StackTypes, Positions, Commands, Progress
<1>15. CASE RemoveVolume
  BY <1>0, <1>nf, <1>cur, <1>15, DbIsContainer DEF Smooth, RemoveVolume, Courses, StackTypes, Positions, Commands, Progress
<1>16. CASE Recreate
  BY <1>0, <1>nf, <1>cur, <1>16, DbIsContainer DEF Smooth, Recreate, Courses, StackTypes, Positions, Commands, Progress
<1>17. CASE InitSchema14
  BY <1>0, <1>nf, <1>cur, <1>17, DbIsContainer DEF Smooth, InitSchema14, Probe, Courses, StackTypes, Positions, Commands, Progress
<1>18. CASE Migrate14
  BY <1>0, <1>nf, <1>cur, <1>18, DbIsContainer DEF Smooth, Migrate14, Courses, StackTypes, Positions, Commands, Progress
<1>19. CASE RestartServices
  BY <1>0, <1>nf, <1>cur, <1>19, DbIsContainer DEF Smooth, RestartServices, Courses, StackTypes, Positions, Commands, Progress
<1>20. CASE SeedStorage
  BY <1>0, <1>nf, <1>cur, <1>20, DbIsContainer DEF Smooth, SeedStorage, Probe, Succeeds, EndsWith, Courses, StackTypes, Positions, Commands, Progress
<1>21. CASE List
  BY <1>0, <1>nf, <1>cur, <1>21, DbIsContainer DEF Smooth, List, Courses, StackTypes, Positions, Commands, Progress
<1>22. CASE StopContainers
  BY <1>0, <1>nf, <1>cur, <1>22, DbIsContainer DEF Smooth, StopContainers, CutShort, Courses, StackTypes, Positions, Commands, Progress
<1>23. CASE PruneContainers
  BY <1>0, <1>nf, <1>cur, <1>23, DbIsContainer DEF Smooth, PruneContainers, Courses, StackTypes, Positions, Commands, Progress
<1>24. CASE PruneVolumes
  BY <1>0, <1>nf, <1>cur, <1>24, DbIsContainer DEF Smooth, PruneVolumes, EndsWith, Courses, StackTypes, Positions, Commands, Progress
<1>25. CASE UploadFails
  BY <1>0, <1>nf, <1>cur, <1>25, DbIsContainer DEF Smooth, UploadFails, Courses, StackTypes, Positions, Commands, Progress
<1>26. CASE CallFails
  BY <1>0, <1>nf, <1>cur, <1>26, DbIsContainer DEF Smooth, CallFails, Courses, StackTypes, Positions, Commands, Progress
<1>27. CASE RemoveAllFails
  BY <1>0, <1>nf, <1>cur, <1>27, DbIsContainer DEF Smooth, RemoveAllFails, Courses, StackTypes, Positions, Commands, Progress
<1>28. CASE Kill
  BY <1>0, <1>nf, <1>cur, <1>28, DbIsContainer DEF Smooth, Kill, Courses, StackTypes, Positions, Commands, Progress
<1>29. CASE Develop
  BY <1>0, <1>nf, <1>cur, <1>29, DbIsContainer DEF Smooth, Develop, Courses, StackTypes, Positions, Commands, Progress
<1>30. ASSUME NEW s \in Containers, GetsHealthy(s) PROVE Smooth'
  BY <1>0, <1>nf, <1>cur, <1>30, DbIsContainer DEF Smooth, GetsHealthy, StackTypes
<1>31. ASSUME NEW s \in Containers, Crash(s) PROVE Smooth'
  BY <1>nf, <1>31 DEF Crash
<1>33. CASE RestoreEnds
  BY <1>0, <1>cur, <1>33, DbIsContainer DEF Smooth, RestoreEnds
<1>34. CASE RestoreFails
  BY <1>nf, <1>34 DEF RestoreFails
<1>32. CASE UNCHANGED vars
  BY <1>0, <1>cur, <1>32 DEF Smooth, vars
<1> QED
  BY <1>1, <1>2, <1>3, <1>4, <1>5, <1>6, <1>7, <1>8, <1>9, <1>10, <1>11, <1>12, <1>13, <1>14, <1>15, <1>16, <1>17, <1>18, <1>19, <1>20, <1>21, <1>22, <1>23, <1>24, <1>25, <1>26, <1>27, <1>28, <1>29, <1>30, <1>31, <1>32, <1>33, <1>34
  DEF Next, Step

\* Without a fault, the services wait for one another without getting stuck: a
\* command fails only for a reason that lies in what it was asked to do.
THEOREM FailuresHaveReasons == Spec => []FailsForAReason
<1>1. Undisturbed => FailsForAReason
  BY DEF Undisturbed, Smooth, FailsForAReason
<1> QED
  BY <1>1, InitDataInv, NextDataInv, InitVolumeInv, NextVolumeInv,
     InitRestoring, NextRestoring, InitProgress,
     NextProgress, InitUndisturbed, NextUndisturbed, PTL DEF Spec
=============================================================================
