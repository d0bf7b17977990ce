----------------------------- MODULE LocalStack -----------------------------
(***************************************************************************)
(* The local development stack: supabase start, db start, stop and         *)
(* db reset over the containers and the volumes of one project.            *)
(*                                                                         *)
(* The commands keep no state of their own between two runs: what they     *)
(* know is what Docker tells them.  A container of the database, whatever  *)
(* its state, means "already running"; a volume of the database means      *)
(* "already set up".  A failed start rolls back with the same routine that *)
(* stop uses, DockerRemoveAll, and whether it removes the volumes hangs on *)
(* one global of the process, NoBackupVolume.                              *)
(*                                                                         *)
(* Simplifications:                                                        *)
(*   - one command at a time: between its steps the containers get healthy *)
(*     and crash, and the process may be killed; the developer uses the    *)
(*     stack between commands;                                             *)
(*   - images and networks are not state: pulling and creating them is a   *)
(*     step that may fail; the Deno cache is left out of the volumes: it   *)
(*     holds nothing of the developer's;                                   *)
(*   - MaxFaults bounds the failing calls, crashes and kills of a          *)
(*     behaviour, MaxCommands its commands.                                *)
(***************************************************************************)
EXTENDS Naturals, Sequences, FiniteSets

CONSTANTS Switches,     \* what config.toml enables
          Exclusions,   \* the sets of images a start may exclude with -x
          Majors,       \* the Postgres versions: subset of {14, 15}
          Hosts,        \* how Docker is reached: subset of {"unix", "npipe"}
          MaxFaults,
          MaxCommands

ASSUME StackAssumption ==
  /\ Majors \subseteq {14, 15} /\ Hosts \subseteq {"unix", "npipe"}
  /\ MaxFaults \in Nat /\ MaxCommands \in Nat

(***************************************************************************)
(* The sections of start's run, one record each, in the order of the       *)
(* source: the switches that enable the service, the images whose          *)
(* exclusion leaves it out, the volumes it mounts, the services without    *)
(* which it cannot pass its health check, and those without which its      *)
(* container cannot become healthy.                                        *)
(***************************************************************************)
Service(id, switch, images) ==
  [id |-> id, switch |-> switch, images |-> images,
   volumes |-> {}, through |-> {}, awaits |-> {}]

Logflare == Service("analytics", {"analytics"}, {"logflare"})
\* Its entrypoint loops until Logflare answers.
Vector == [Service("vector", {"analytics"}, {"vector"})
             EXCEPT !.awaits = {"analytics"}]
Kong == Service("kong", {}, {"kong"})
GoTrue == Service("auth", {"auth"}, {"gotrue"})
Mailpit == Service("inbucket", {"inbucket"}, {"mailpit"})
Realtime == Service("realtime", {"realtime"}, {"realtime"})
\* PostgREST and the edge runtime are probed by HTTP, through the gateway.
PostgREST == [Service("rest", {"api"}, {"postgrest"})
                EXCEPT !.through = {"kong"}]
Storage == [Service("storage", {"storage"}, {"storage-api"})
              EXCEPT !.volumes = {"storage"}]
ImgProxy == Service("imgproxy", {"storage", "image_transformation"},
                    {"storage-api", "imgproxy"})
EdgeRuntime == [Service("edge_runtime", {"edge_runtime"}, {"edge-runtime"})
                  EXCEPT !.through = {"kong"}]
PgMeta == Service("pg_meta", {"studio"}, {"postgres-meta"})
Studio == Service("studio", {"studio"}, {"studio"})
Pooler == Service("pooler", {"pooler"}, {"supavisor"})

StartOrder == <<Logflare, Vector, Kong, GoTrue, Mailpit, Realtime, PostgREST,
                Storage, ImgProxy, EdgeRuntime, PgMeta, Studio, Pooler>>

\* The sections that are run: config.toml enables them and -x does not exclude
\* their image.
Wanted(x) ==
  {k \in 1 .. Len(StartOrder) : /\ StartOrder[k].switch \subseteq Switches
                               /\ StartOrder[k].images \cap x = {}}
WantedIds(x) == {StartOrder[k].id : k \in Wanted(x)}

Db == [Service("db", {}, {}) EXCEPT !.volumes = {"db"}]
Sections == {Db} \cup {StartOrder[i] : i \in 1 .. Len(StartOrder)}
Containers == {s.id : s \in Sections}
Section(id) == CHOOSE s \in Sections : s.id = id
Volumes == UNION {s.volumes : s \in Sections}

\* What SetupLocalDatabase does to an empty database, in this order.
Stages == <<"schema", "vault", "roles", "migrated">>
AllStages == {"schema", "vault", "roles", "migrated"}

Starts == {"start", "db_start", "db_restore"}
Stops == {"stop", "stop_no_backup"}
Commands == Starts \cup Stops \cup {"reset"}

VARIABLES
  major,      \* the Postgres version of config.toml
  host,       \* the scheme of Docker's address
  container,  \* "absent" | "stopped" | "starting" | "healthy"
  volumes,    \* the named volumes that exist
  done,       \* the stages that the database volume has gone through, and how far
              \* a backup is restored: "restoring", "restored" or "partial"
  rows,       \* has the developer rows of his own in the database?
  objects,    \* and objects of his own in storage?
  cmd,        \* the command that runs, or has run last
  pc,         \* where it stands; "idle" between commands
  excluded,   \* the images that the last start excluded
  ignore,     \* --ignore-health-check
  noBackup,   \* the global NoBackupVolume of the process
  cur,        \* the section that DockerStart is at; 0 for the database
  started,    \* the services that run() has started
  probing,    \* the containers that WaitForHealthyService still probes
  after,      \* where the command goes when they are all healthy
  result,     \* how the last command ended
  excuses,    \* what has kept the database volume from being set up
  crashed,    \* has a container crashed since the command began?
  late,       \* the container it found running but not ready, and did not wait for
  faults, commands

settings == <<major, host>>
docker == <<container, volumes>>
data == <<done, rows, objects>>
process == <<cmd, excluded, ignore, noBackup, cur, started, probing, after>>
history == <<excuses, crashed, late>>
vars == <<settings, docker, data, process, pc, result, history, faults, commands>>

Fault == faults < MaxFaults /\ faults' = faults + 1

Complete == AllStages \subseteq done \/ "restored" \in done

\* A restore is under way, or was cut short.
Unfinished == {"restoring", "partial"}

-----------------------------------------------------------------------------
(***************************************************************************)
(* Docker                                                                  *)
(***************************************************************************)

Exists(s) == container[s] # "absent"
Healthy(s) == container[s] = "healthy"
Up(s) == container[s] \in {"starting", "healthy"}

\* The database goes with its volume, and what the developer stored too.
RemoveVolumes(vs) ==
  /\ volumes' = volumes \ vs
  /\ IF "db" \in vs THEN done' = {} /\ rows' = FALSE /\ excuses' = {}
     ELSE UNCHANGED <<done, rows, excuses>>
  /\ objects' = (objects /\ "storage" \notin vs)

\* The database is stopped or removed: so is a restore that is under way.
CutShort(stops) ==
  done' = IF stops /\ "restoring" \in done
          THEN (done \ {"restoring"}) \cup {"partial"} ELSE done

\* A container becomes healthy on its own, and may crash: it is restarted.  The
\* database does not listen on TCP while it restores a backup.
GetsHealthy(s) ==
  /\ container[s] = "starting"
  /\ \A t \in Section(s).awaits : Healthy(t)
  /\ s = "db" => "restoring" \notin done
  /\ container' = [container EXCEPT ![s] = "healthy"]
  /\ UNCHANGED <<settings, volumes, data, process, pc, result, history, faults,
                 commands>>

Crash(s) ==
  /\ Healthy(s)
  /\ Fault
  /\ container' = [container EXCEPT ![s] = "starting"]
  /\ crashed' = TRUE
  /\ UNCHANGED <<settings, volumes, data, process, pc, result, excuses, late, commands>>

\* The script that restores the backup runs in the new container, whatever the
\* command does meanwhile.  It stops at the first error; the container is then
\* restarted, on a volume that is taken for an initialised one.
RestoreEnds ==
  /\ "restoring" \in done
  /\ done' = (done \ {"restoring"}) \cup {"restored"}
  /\ UNCHANGED <<settings, docker, rows, objects, process, pc, result, history,
                 faults, commands>>

RestoreFails ==
  /\ "restoring" \in done
  /\ Fault
  /\ CutShort(TRUE)
  /\ UNCHANGED <<settings, docker, rows, objects, process, pc, result, history,
                 commands>>

\* The developer works with a stack that is up.
Develop ==
  /\ pc = "idle"
  /\ \/ Healthy("db") /\ rows' = TRUE /\ UNCHANGED objects
     \/ Healthy("storage") /\ Healthy("kong") /\ objects' = TRUE /\ UNCHANGED rows
  /\ UNCHANGED <<settings, docker, done, process, pc, result, history, faults,
                 commands>>

-----------------------------------------------------------------------------
(***************************************************************************)
(* How a command ends.                                                     *)
(***************************************************************************)

EndsWith(r) == pc' = "idle" /\ result' = r

\* Does the command set the database up?
NeedsSetup == cmd = "reset" \/ (noBackup /\ cmd # "db_restore")

\* A success that has set up an empty database leaves nothing of what went
\* wrong before.
Succeeds(r) ==
  /\ EndsWith(r)
  /\ excuses' = IF NeedsSetup /\ ~(cmd = "reset" /\ major = 14) THEN {} ELSE excuses

\* An error that has no rollback of its own.  A reset that fails leaves the
\* database as far as it has come.
Aborts ==
  /\ EndsWith("failed")
  /\ excuses' = excuses \cup
       IF cmd = "reset" THEN {"reset"}
       ELSE IF cmd \in Starts THEN {"rollback"} ELSE {}

\* An error of a start rolls the start back, unless health checks are ignored
\* and the error looks like one: IsUnhealthyError is true of any joined error.
FailsWith(kind) ==
  IF cmd = "start" /\ ignore /\ kind = "joined"
  THEN EndsWith("ignored") /\ excuses' = excuses \cup {"ignored"}
  ELSE IF cmd \in Starts
  THEN pc' = "list" /\ UNCHANGED <<result, excuses>>
  ELSE Aborts

-----------------------------------------------------------------------------
(***************************************************************************)
(* What the commands begin with.                                           *)
(***************************************************************************)

Begin ==
  /\ pc = "idle"
  /\ commands < MaxCommands
  /\ commands' = commands + 1
  /\ cmd' \in Commands
  /\ IF cmd' = "start"
     THEN excluded' \in Exclusions /\ ignore' \in BOOLEAN
     ELSE UNCHANGED excluded /\ ignore' = FALSE
  /\ noBackup' = (cmd' = "stop_no_backup")
  /\ started' = {}
  /\ crashed' = FALSE /\ late' = "none"
  /\ result' = "none"
  /\ pc' = IF cmd' \in Stops THEN "list" ELSE "check"
  /\ UNCHANGED <<settings, docker, data, cur, probing, after, excuses, faults>>

\* AssertSupabaseDbIsRunning: a container of the database is enough.  A start
\* then shows the status, which is an error unless the database is healthy.
Check ==
  /\ pc = "check"
  /\ IF cmd \in Starts
     THEN IF Exists("db")
          THEN EndsWith(IF cmd = "start" /\ ~Healthy("db") THEN "failed" ELSE "already")
          ELSE pc' = "inspect" /\ UNCHANGED result
     ELSE IF ~Exists("db") THEN EndsWith("failed")
          ELSE /\ pc' = IF major = 14 THEN "recreate" ELSE "remove"
               /\ UNCHANGED result
  /\ late' = IF cmd = "start" /\ container["db"] = "starting" THEN "db" ELSE late
  /\ UNCHANGED <<settings, docker, data, process, excuses, crashed, faults,
                 commands>>

\* StartDatabase: "creating volume will not override existing volume, so we
\* must inspect explicitly".  Any error but not-found counts as found.
Inspect ==
  /\ pc = "inspect"
  /\ \/ noBackup' = ("db" \notin volumes) /\ UNCHANGED <<excuses, faults>>
     \/ /\ Fault
        /\ noBackup' = FALSE
        /\ excuses' = excuses \cup {"inspect"}
  /\ cur' = 0
  /\ pc' = IF cmd = "db_restore" /\ ~noBackup' THEN "list" ELSE "volume"
  /\ UNCHANGED <<settings, docker, data, cmd, excluded, ignore, started, probing,
                 after, result, crashed, late, commands>>

-----------------------------------------------------------------------------
(***************************************************************************)
(* DockerStart of the database and of one service after another.           *)
(***************************************************************************)

Current == IF cur = 0 THEN Db ELSE StartOrder[cur]

CreateVolumes ==
  /\ pc = "volume"
  /\ volumes' = volumes \cup Current.volumes
  /\ pc' = "create"
  /\ UNCHANGED <<settings, container, data, process, result, history, faults, commands>>

\* A container of that name is a conflict.
CreateContainer ==
  /\ pc = "create"
  /\ IF Exists(Current.id)
     THEN FailsWith("plain") /\ UNCHANGED container
     ELSE /\ container' = [container EXCEPT ![Current.id] = "stopped"]
          /\ pc' = "run"
          /\ UNCHANGED <<result, excuses>>
  /\ UNCHANGED <<settings, volumes, data, process, crashed, late, faults, commands>>

Probe(ids, then) == probing' = ids /\ after' = then /\ pc' = "probe"

\* On Windows, Vector may not reach Docker: it is started, and not probed.
Probed(ids) == IF host = "npipe" THEN ids \ {"vector"} ELSE ids

\* On to the next section that is run; when there is none, buckets are seeded if
\* the database is new and storage has been started, and then all is probed.
NextService ==
  LET begun == IF cur = 0 THEN started ELSE started \cup {Current.id}
      later == {k \in Wanted(excluded) : k > cur}
  IN  /\ started' = begun
      /\ IF later # {}
         THEN /\ cur' \in later /\ \A k \in later : cur' <= k
              /\ pc' = "volume" /\ UNCHANGED <<probing, after>>
         ELSE /\ cur' = cur
              /\ IF noBackup /\ "storage" \in begun
                 THEN Probe({"storage"}, "buckets")
                 ELSE Probe(Probed(begun), "report")

\* The database is probed before anything else is done; one that is created
\* from a backup begins to restore it.
RunContainer ==
  /\ pc = "run"
  /\ container' = [container EXCEPT ![Current.id] = "starting"]
  /\ IF cur = 0
     THEN Probe({"db"}, "database") /\ UNCHANGED <<cur, started>>
     ELSE NextService
  /\ done' = IF cmd = "db_restore" THEN done \cup {"restoring"} ELSE done
  /\ UNCHANGED <<settings, volumes, rows, objects, cmd, excluded, ignore, noBackup,
                 result, history, faults, commands>>

-----------------------------------------------------------------------------
(***************************************************************************)
(* WaitForHealthyService: containers found ready are not probed again.     *)
(***************************************************************************)

\* Kong has no health check of its own: it is ready as soon as it runs.
Ready(s) ==
  /\ \/ Healthy(s)
     \/ s = "kong" /\ container[s] = "starting"
  /\ \A t \in Section(s).through : Healthy(t)

\* The container can never pass.
Doomed(s) ==
  \E t \in Section(s).through \cup Section(s).awaits : ~Up(t)

\* Faulty variant: one healthy container is enough.
ProbeAny ==
  /\ pc = "probe"
  /\ \E s \in probing : Ready(s)
  /\ probing' = {}
  /\ pc' = after
  /\ UNCHANGED <<settings, docker, data, cmd, excluded, ignore, noBackup, cur,
                 started, after, result, history, faults, commands>>

ProbeRound ==
  /\ pc = "probe"
  /\ probing' = {s \in probing : ~Ready(s)}
  /\ probing' # probing \/ probing = {}
  /\ pc' = IF probing' = {} THEN after ELSE "probe"
  /\ UNCHANGED <<settings, docker, data, cmd, excluded, ignore, noBackup, cur,
                 started, after, result, history, faults, commands>>

\* Faulty variant: a container that cannot pass is waited for without end.
ProbeForever ==
  /\ pc = "probe"
  /\ \E s \in probing : ~Ready(s)
  /\ Fault
  /\ FailsWith("joined")
  /\ UNCHANGED <<settings, docker, data, process, crashed, late, commands>>

\* The retries are used up.  "Restoring a large backup may take longer": the
\* command then goes on, and reports success.
ProbeTimesOut ==
  /\ pc = "probe"
  /\ \E s \in probing :
       /\ ~Ready(s)
       /\ \/ Doomed(s) /\ UNCHANGED faults
          \/ s = "db" /\ "restoring" \in done /\ UNCHANGED faults
          \/ Fault
  /\ IF cmd = "db_restore"
     THEN pc' = after /\ UNCHANGED <<result, excuses>>
     ELSE FailsWith("joined")
  /\ UNCHANGED <<settings, docker, data, process, crashed, late, commands>>

-----------------------------------------------------------------------------
(***************************************************************************)
(* SetupLocalDatabase, and what follows.                                   *)
(***************************************************************************)

\* initSchema, UpsertVaultSecrets, SeedGlobals, MigrateAndSeed.
SetUp ==
  /\ pc = "database"
  /\ NeedsSetup
  /\ Healthy("db")
  /\ \E k \in 1 .. Len(Stages) :
       /\ \A j \in 1 .. Len(Stages) : j < k <=> Stages[j] \in done
       /\ done' = done \cup {Stages[k]}
  /\ UNCHANGED <<settings, docker, rows, objects, process, pc, result, history,
                 faults, commands>>

\* The connection is lost with the database, or cannot be made while it restores
\* a backup.
SetUpFails ==
  /\ pc \in {"database", "recreate", "init14", "migrate14"}
  /\ pc = "database" => NeedsSetup
  /\ ~Healthy("db")
  /\ FailsWith("plain")
  /\ late' = IF pc = "recreate" /\ container["db"] = "starting" THEN "db" ELSE late
  /\ UNCHANGED <<settings, docker, data, process, crashed, faults, commands>>

DatabaseReady ==
  /\ pc = "database"
  /\ NeedsSetup => AllStages \subseteq done
  /\ \/ /\ cmd = "start"
        /\ NextService
        /\ UNCHANGED <<result, excuses>>
     \/ /\ cmd = "reset"
        /\ pc' = "restart"
        /\ UNCHANGED <<cur, started, probing, after, result, excuses>>
     \/ /\ cmd \in {"db_start", "db_restore"}
        /\ Succeeds("started")
        /\ UNCHANGED <<cur, started, probing, after>>
  /\ UNCHANGED <<settings, docker, data, cmd, excluded, ignore, noBackup, crashed,
                 late, faults, commands>>

\* buckets.Run speaks to storage through the gateway, which nobody has waited
\* for, and does not try again.
SeedBuckets ==
  /\ pc = "buckets"
  /\ IF Healthy("kong")
     THEN /\ IF cmd = "reset"
             THEN Succeeds("reset") /\ UNCHANGED <<probing, after>>
             ELSE Probe(Probed(started), "report") /\ UNCHANGED <<result, excuses>>
          /\ UNCHANGED late
     ELSE /\ FailsWith("plain")
          /\ late' = IF Up("kong") THEN "kong" ELSE late
          /\ UNCHANGED <<probing, after>>
  /\ UNCHANGED <<settings, docker, data, cmd, excluded, ignore, noBackup, cur,
                 started, crashed, faults, commands>>

\* The errors of the uploads come joined out of the queue.
UploadFails ==
  /\ pc = "buckets"
  /\ Fault
  /\ FailsWith("joined")
  /\ UNCHANGED <<settings, docker, data, process, crashed, late, commands>>

Report ==
  /\ pc = "report"
  /\ Succeeds("started")
  /\ UNCHANGED <<settings, docker, data, process, crashed, late, faults, commands>>

-----------------------------------------------------------------------------
(***************************************************************************)
(* db reset.                                                               *)
(***************************************************************************)

\* Postgres 15: the container and its volume go, and DockerStart makes both
\* anew.
RemoveDatabase ==
  /\ pc = "remove"
  /\ container' = [container EXCEPT !["db"] = "absent"]
  /\ CutShort(TRUE)
  /\ pc' = "remove_volume"
  /\ UNCHANGED <<settings, volumes, rows, objects, process, result, history, faults, commands>>

RemoveVolume ==
  /\ pc = "remove_volume"
  /\ RemoveVolumes({"db"})
  /\ cur' = 0
  /\ pc' = "volume"
  /\ UNCHANGED <<settings, container, cmd, excluded, ignore, noBackup, started,
                 probing, after, result, crashed, late, faults, commands>>

\* Postgres 14: the database is dropped inside its server; the roles, which a
\* backup restores too, stay: they belong to the server.  Of a restore that was
\* cut short nobody knows which roles it has created.
Recreate ==
  /\ pc = "recreate"
  /\ Healthy("db")
  /\ done' = (done \cap {"partial"}) \cup
       IF done \cap {"roles", "restored"} # {} THEN {"roles"} ELSE {}
  /\ rows' = FALSE
  /\ pc' = "init14"
  /\ UNCHANGED <<settings, docker, objects, process, result, history, faults, commands>>

InitSchema14 ==
  /\ pc = "init14"
  /\ Healthy("db")
  /\ done' = done \cup {"schema"}
  /\ container' = [container EXCEPT !["db"] = "starting"]
  /\ Probe({"db"}, "restart")
  /\ UNCHANGED <<settings, volumes, rows, objects, cmd, excluded, ignore, noBackup,
                 cur, started, result, history, faults, commands>>

Migrate14 ==
  /\ pc = "migrate14"
  /\ Healthy("db")
  /\ done' = done \cup {"migrated"}
  /\ pc' = "storage"
  /\ UNCHANGED <<settings, docker, rows, objects, process, result, history, faults,
                 commands>>

\* Nobody waits for the services that are restarted.
RestartServices ==
  /\ pc = "restart"
  /\ container' = [s \in Containers |->
       IF s \in {"storage", "auth", "realtime", "pooler"} /\ container[s] # "absent"
       THEN "starting" ELSE container[s]]
  /\ pc' = IF major = 14 THEN "migrate14" ELSE "storage"
  /\ UNCHANGED <<settings, volumes, data, process, result, history, faults, commands>>

\* Buckets are seeded if there is a storage container, once it is healthy.
SeedStorage ==
  /\ pc = "storage"
  /\ \/ /\ ~Exists("storage")
        /\ Succeeds("reset")
        /\ UNCHANGED <<probing, after>>
     \/ /\ Healthy("storage")
        /\ pc' = "buckets"
        /\ UNCHANGED <<probing, after, result, excuses>>
     \/ /\ Exists("storage") /\ ~Healthy("storage")
        /\ Probe({"storage"}, "buckets")
        /\ UNCHANGED <<result, excuses>>
  /\ UNCHANGED <<settings, docker, data, cmd, excluded, ignore, noBackup, cur,
                 started, crashed, late, faults, commands>>

-----------------------------------------------------------------------------
(***************************************************************************)
(* DockerRemoveAll: stop, and the rollback of a start.                     *)
(***************************************************************************)

List ==
  /\ pc = "list"
  /\ pc' = "stopping"
  /\ UNCHANGED <<settings, docker, data, process, result, history, faults, commands>>

\* Every container is stopped; if one cannot be, nothing is removed.
StopContainers ==
  /\ pc = "stopping"
  /\ \E up \in {{}} \cup {{s} : s \in Containers} :
       /\ \A s \in up : Up(s)
       /\ container' = [s \in Containers |->
            IF Exists(s) /\ s \notin up THEN "stopped" ELSE container[s]]
       /\ CutShort("db" \notin up)
       /\ IF up = {} THEN pc' = "prune" /\ UNCHANGED <<result, excuses, faults>>
          ELSE Fault /\ Aborts
  /\ UNCHANGED <<settings, volumes, rows, objects, process, crashed, late,
                 commands>>

\* Faulty variant: the stopped containers are left.
LeaveContainers ==
  /\ pc = "prune"
  /\ pc' = "prune_volumes"
  /\ UNCHANGED <<settings, docker, data, process, result, history, faults, commands>>

PruneContainers ==
  /\ pc = "prune"
  /\ container' = [s \in Containers |->
       IF container[s] = "stopped" THEN "absent" ELSE container[s]]
  /\ pc' = "prune_volumes"
  /\ UNCHANGED <<settings, volumes, data, process, result, history, faults, commands>>

\* Faulty variant: every rollback takes the volumes with it.
PruneAlways ==
  /\ pc = "prune_volumes"
  /\ IF noBackup \/ cmd \in Starts THEN RemoveVolumes(Volumes)
     ELSE UNCHANGED <<volumes, data, excuses>>
  /\ EndsWith(IF cmd \in Stops THEN "stopped" ELSE "failed")
  /\ UNCHANGED <<settings, container, process, crashed, late, faults, commands>>

\* Faulty variant: only stop --no-backup removes volumes.
PruneOnStop ==
  /\ pc = "prune_volumes"
  /\ IF cmd = "stop_no_backup" THEN RemoveVolumes(Volumes)
     ELSE UNCHANGED <<volumes, data, excuses>>
  /\ EndsWith(IF cmd \in Stops THEN "stopped" ELSE "failed")
  /\ UNCHANGED <<settings, container, process, crashed, late, faults, commands>>

PruneVolumes ==
  /\ pc = "prune_volumes"
  /\ IF noBackup THEN RemoveVolumes(Volumes)
     ELSE UNCHANGED <<volumes, data, excuses>>
  /\ EndsWith(IF cmd \in Stops THEN "stopped" ELSE "failed")
  /\ UNCHANGED <<settings, container, process, crashed, late, faults, commands>>

-----------------------------------------------------------------------------
(***************************************************************************)
(* Faults.                                                                 *)
(***************************************************************************)

\* A call to Docker or to the database fails.
CallFails ==
  /\ pc \in {"check", "inspect", "volume", "create", "run", "database", "remove",
             "remove_volume", "recreate", "init14", "restart", "migrate14", "buckets"}
  /\ Fault
  /\ IF pc = "check" THEN EndsWith("failed") /\ UNCHANGED excuses
     ELSE FailsWith("plain")
  /\ UNCHANGED <<settings, docker, data, process, crashed, late, commands>>

\* DockerRemoveAll fails to list, or to prune.
RemoveAllFails ==
  /\ pc \in {"list", "prune", "prune_volumes"}
  /\ Fault
  /\ Aborts
  /\ UNCHANGED <<settings, docker, data, process, crashed, late, commands>>

\* The process is killed, and with it everything it knows.
Kill ==
  /\ pc # "idle"
  /\ Fault
  /\ EndsWith("killed")
  /\ excuses' = excuses \cup {"killed"}
  /\ UNCHANGED <<settings, docker, data, process, crashed, late, commands>>

-----------------------------------------------------------------------------
Init ==
  /\ major \in Majors /\ host \in Hosts
  /\ container = [s \in Containers |-> "absent"]
  /\ volumes = {} /\ done = {} /\ rows = FALSE /\ objects = FALSE
  /\ cmd = "stop" /\ pc = "idle" /\ excluded = {} /\ ignore = FALSE
  /\ noBackup = FALSE /\ cur = 0 /\ started = {} /\ probing = {} /\ after = "report"
  /\ result = "none" /\ excuses = {} /\ crashed = FALSE /\ late = "none"
  /\ faults = 0 /\ commands = 0

\* A step of the command that nothing forces to fail.
Step ==
  \/ Check \/ Inspect
  \/ CreateVolumes \/ CreateContainer \/ RunContainer
  \/ ProbeRound \/ ProbeTimesOut
  \/ SetUp \/ SetUpFails \/ DatabaseReady \/ SeedBuckets \/ Report
  \/ RemoveDatabase \/ RemoveVolume
  \/ Recreate \/ InitSchema14 \/ Migrate14 \/ RestartServices \/ SeedStorage
  \/ List \/ StopContainers \/ PruneContainers \/ PruneVolumes

Next ==
  \/ Begin \/ Step \/ UploadFails \/ CallFails \/ RemoveAllFails \/ Kill
  \/ Develop \/ RestoreEnds \/ RestoreFails
  \/ \E s \in Containers : GetsHealthy(s) \/ Crash(s)

\* A command goes on as long as it can, and a container that starts gets
\* healthy or its probes run out.
Fairness == WF_vars(Step) /\ \A s \in Containers : WF_vars(GetsHealthy(s))

Spec == Init /\ [][Next]_vars /\ Fairness

-----------------------------------------------------------------------------
(***************************************************************************)
(* Properties                                                              *)
(***************************************************************************)

\* What the developer has stored survives everything but what asks for its
\* removal: rows go by db reset and by stop --no-backup only, whatever start
\* fails and wherever; objects also go when a start fails whose database a
\* reset has left removed, or a kill.
KeepsData ==
  [][/\ rows /\ ~rows' => cmd \in {"stop_no_backup", "reset"}
     /\ objects /\ ~objects' =>
          cmd = "stop_no_backup" \/ excuses \cap {"reset", "killed"} # {}]_vars

\* A volume stands for a database that is set up, as the next start takes it:
\* between commands it is, unless a command was killed, a reset or a rollback
\* failed, health was ignored or the volume could not be inspected; or unless a
\* backup is being restored, or its restore has failed or was stopped: every
\* later start takes what is left for the whole.  A reset of Postgres 14 does
\* not create the vault's secrets again.
VolumeMeansSetUp ==
  pc = "idle" /\ "db" \in volumes /\ excuses = {} =>
    \/ Complete
    \/ major = 14 /\ AllStages \ {"vault"} \subseteq done
    \/ done \cap Unfinished # {}

\* A start reports success when every service that is wanted has been found
\* healthy, but for Vector on Windows: if none has crashed since, all of them
\* are.
SuccessMeansUp ==
  result = "started" /\ ~crashed /\ cmd = "start" =>
    \A s \in {"db"} \cup Probed(WantedIds(excluded)) : Ready(s)

\* The images that a start may not exclude alone: others wait for them.
Unservable(x) ==
  \/ \E s \in WantedIds(x) :
       ~(Section(s).through \cup Section(s).awaits \subseteq WantedIds(x))
  \/ "storage" \in WantedIds(x) /\ "kong" \notin WantedIds(x)

\* When nothing goes wrong, a command fails for a reason that the developer
\* can see: no database to reset, one that is there already to restore over,
\* one that has not finished restoring a backup, or the exclusion of a service
\* that others need; or because buckets were seeded before the gateway answered.
FailsForAReason ==
  result = "failed" /\ faults = 0 =>
    \/ cmd = "reset" /\ ~Exists("db")
    \/ cmd = "db_restore" /\ "db" \in volumes
    \/ cmd = "start" /\ Unservable(excluded)
    \/ cmd = "reset" /\ Exists("storage") /\ ~Exists("kong")
    \/ late = "db" /\ done \cap {"restoring", "restored"} # {}
    \/ late = "kong"

\* Every command comes to an end.
CommandEnds == pc # "idle" ~> pc = "idle"
=============================================================================
