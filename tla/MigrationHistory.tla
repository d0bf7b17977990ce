-------------------------- MODULE MigrationHistory --------------------------
(***************************************************************************)
(* The migration history of one remote database and the commands that      *)
(* change it, run by several clients, each with a migrations directory of  *)
(* its own: db push and migration up, db reset and migration down (remote) *)
(* , migration repair and migration fetch.                                 *)
(*                                                                         *)
(* A command reads the tables once, computes what is pending, prompts, and *)
(* then executes one migration file per implicit transaction: the file's   *)
(* statements and the INSERT of its version commit together or not at all. *)
(* Nothing locks the database between those steps: another client's        *)
(* command, a failing statement or a crash may come between any two.       *)
(*                                                                         *)
(* A migration is its version, a number: the 14-digit timestamps that      *)
(* migration new generates compare the same as strings, file names and     *)
(* numbers (PendingMigrations treats the versions for which they do not).  *)
(* FindPending states what FindPendingMigrations computes; PendingMigrations*)
(* has the loop itself and compares the two.                               *)
(***************************************************************************)
EXTENDS Naturals, FiniteSets

CONSTANTS
  Clients,    \* the machines that run the CLI against this database
  Versions,   \* the migration versions of the project
  Hashes,     \* the contents the seed file may have
  None,       \* no row in seed_files
  Newest,     \* above every version: the target of a reset without one
  Commands,   \* the commands that the clients run
  Exclusive,  \* do the clients keep their commands from overlapping?
  MaxRuns,    \* bound: executions of one migration or seed between resets
  MaxFaults,  \* bound: crashes and failing statements
  MaxEdits,   \* bound: changes to a migrations directory or seed file
  MaxAdmin    \* bound: resets, repairs and fetches

ASSUME VersionsAssumption == Versions \subseteq Nat \ {0} /\ IsFiniteSet(Versions)
ASSUME NewestAssumption == Newest \in Nat /\ \A v \in Versions : v < Newest
ASSUME HashesAssumption == None \notin Hashes
ASSUME ExclusiveAssumption == Exclusive \in BOOLEAN
ASSUME BoundsAssumption == MaxRuns \in Nat /\ MaxFaults \in Nat
                           /\ MaxEdits \in Nat /\ MaxAdmin \in Nat

VARIABLES
  history,   \* versions in supabase_migrations.schema_migrations
  recorded,  \* hash of the seed file in supabase_migrations.seed_files
  runs,      \* how often each migration was executed since the last drop
  seedRuns,  \* how often the seed file was executed since the last drop
  touched,   \* versions whose row a repair has written or deleted since then
  files,     \* versions in each client's supabase/migrations directory
  seedFile,  \* content of each client's seed file
  proc,      \* the command each client is running, and where it stands
  faults, edits, admin  \* counters of the bounds

db == <<history, recorded, runs, seedRuns, touched>>
disk == <<files, seedFile>>
counters == <<faults, edits, admin>>
vars == <<db, disk, proc, counters>>

\* A command: the step it is at, its kind ("push", "all" for --include-all,
\* "reset"), the version a reset stops at, the migrations it still has to
\* execute, and the seed file as it was read: a hash, and whether another
\* hash was recorded for it.
NoPlan == [hash |-> None, dirty |-> FALSE]
Idle == [pc |-> "idle", kind |-> "push", target |-> 0, pending |-> {},
         plan |-> NoPlan]

-----------------------------------------------------------------------------
(***************************************************************************)
(* Faulty variants, each a plausible slip in the code.                     *)
(***************************************************************************)

\* The check for versions older than the remote ones is left out.
RefusedIfMissingOnly(dir, remote, all) == remote \ dir # {}

\* Pending is what is newer than every remote version, even with
\* --include-all.
FindNewest(dir, remote) == {v \in dir : \A r \in remote : r < v}

\* The newest file is never reached.
FindAllButLast(dir, remote) == {v \in dir \ remote : \E w \in dir : v < w}

\* The recorded hash itself is kept for the dirty flag.
SeedPlanUntyped(hash) ==
  IF recorded = hash THEN NoPlan ELSE [hash |-> hash, dirty |-> recorded]

\* A changed seed file is planned like a new one.
SeedPlanNeverDirty(hash) ==
  IF recorded = hash THEN NoPlan ELSE [hash |-> hash, dirty |-> FALSE]

\* The version is upserted, as migration repair does, not inserted.
CommitUpserts(c, v) ==
  /\ proc[c].pc = "apply"
  /\ v \in proc[c].pending /\ \A w \in proc[c].pending : v <= w
  /\ runs[v] < MaxRuns
  /\ runs' = [runs EXCEPT ![v] = @ + 1]
  /\ history' = history \cup {v}
  /\ proc' = [proc EXCEPT ![c].pending = @ \ {v}]
  /\ UNCHANGED <<recorded, seedRuns, touched, disk, counters>>

\* The drop truncates schema_migrations but not seed_files.
DropKeepsSeeds(c) ==
  /\ proc[c].pc = "drop"
  /\ history' = {}
  /\ runs' = [v \in Versions |-> 0]
  /\ seedRuns' = 0
  /\ touched' = {}
  /\ proc' = [proc EXCEPT ![c].pc = "apply",
                           ![c].pending = {v \in files[c] : v <= proc[c].target}]
  /\ UNCHANGED <<recorded, disk, counters>>

-----------------------------------------------------------------------------
(***************************************************************************)
(* What the commands compute                                               *)
(***************************************************************************)

\* Remote versions that are missing from the local directory.
Missing(dir, remote) == remote \ dir

\* Local migrations that are older than a migration on remote.
OutOfOrder(dir, remote) == {l \in dir \ remote : \E r \in remote : l < r}

\* FindPendingMigrations refuses a history that is not a prefix of the
\* directory; --include-all accepts gaps in it.
Refused(dir, remote, all) ==
  \/ Missing(dir, remote) # {}
  \/ ~all /\ OutOfOrder(dir, remote) # {}

FindPending(dir, remote) == dir \ remote

\* GetPendingSeeds for the one seed file: nothing to do when its hash is
\* recorded; only the hash is updated when another one is.
SeedPlan(hash) ==
  IF recorded = hash THEN NoPlan
  ELSE [hash |-> hash, dirty |-> recorded # None]

\* LoadPartialMigrations: the local files up to the target of a reset.
LoadPartial(c) == {v \in files[c] : v <= proc[c].target}

-----------------------------------------------------------------------------
Init ==
  /\ history = {}
  /\ recorded = None
  /\ runs = [v \in Versions |-> 0]
  /\ seedRuns = 0
  /\ touched = {}
  /\ files \in [Clients -> SUBSET Versions]
  /\ seedFile \in [Clients -> Hashes]
  /\ proc = [c \in Clients |-> Idle]
  /\ faults = 0 /\ edits = 0 /\ admin = 0

\* Client c may start a command.
Ready(c) ==
  /\ proc[c] = Idle
  /\ Exclusive => \A d \in Clients : proc[d] = Idle

At(c, step) == proc[c].pc = step

Goto(c, step) == proc' = [proc EXCEPT ![c].pc = step]

\* Client c starts a command.
Begin(c, step, kind, t, todo) ==
  proc' = [proc EXCEPT ![c] = [pc |-> step, kind |-> kind, target |-> t,
                               pending |-> todo, plan |-> NoPlan]]

\* The command is over, with or without an error.
End(c) == proc' = [proc EXCEPT ![c] = Idle]

(***************************************************************************)
(* db push and migration up                                                *)
(***************************************************************************)

\* up.GetPendingMigrations: list the remote versions and the local files.  A
\* refused history ends the command.
ReadHistory(c, kind) ==
  /\ kind \in Commands
  /\ Ready(c)
  /\ ~Refused(files[c], history, kind = "all")
  /\ Begin(c, "seeds", kind, 0, FindPending(files[c], history))
  /\ UNCHANGED <<db, disk, counters>>

\* migration.GetPendingSeeds, or no --include-seed.  With nothing to do the
\* command is over: "Remote database is up to date."
ReadSeeds(c) ==
  /\ At(c, "seeds")
  /\ \E p \in {NoPlan, SeedPlan(seedFile[c])} :
       IF proc[c].pending = {} /\ p = NoPlan
       THEN End(c)
       ELSE proc' = [proc EXCEPT ![c].plan = p,
                                 ![c].pc = IF proc[c].pending # {}
                                           THEN "confirm" ELSE "confirmseed"]
  /\ UNCHANGED <<db, disk, counters>>

\* The prompt, of any length, before the migrations or before the seeds.
Confirm(c) ==
  /\ \/ At(c, "confirm") /\ Goto(c, "apply")
     \/ At(c, "confirmseed") /\ Goto(c, "seed")
  /\ UNCHANGED <<db, disk, counters>>

\* The user declines: the command ends with context.Canceled.
Decline(c) ==
  /\ proc[c].pc \in {"confirm", "confirmseed", "drop"}
  /\ End(c)
  /\ UNCHANGED <<db, disk, counters>>

(***************************************************************************)
(* migration.ApplyMigrations                                               *)
(***************************************************************************)

\* The oldest pending migration of client c.
NextMigration(c, v) ==
  v \in proc[c].pending /\ \A w \in proc[c].pending : v <= w

\* ExecBatch commits: the version was not recorded, and the statements and
\* the new row take effect together.
Commit(c, v) ==
  /\ At(c, "apply")
  /\ NextMigration(c, v)
  /\ v \in files[c]
  /\ v \notin history
  /\ runs[v] < MaxRuns
  /\ runs' = [runs EXCEPT ![v] = @ + 1]
  /\ history' = history \cup {v}
  /\ proc' = [proc EXCEPT ![c].pending = @ \ {v}]
  /\ UNCHANGED <<recorded, seedRuns, touched, disk, counters>>

\* The whole batch is rolled back by the primary key of schema_migrations,
\* or the file has gone since it was listed: the command ends with the error.
Conflict(c, v) ==
  /\ At(c, "apply")
  /\ NextMigration(c, v)
  /\ v \in history \/ v \notin files[c]
  /\ End(c)
  /\ UNCHANGED <<db, disk, counters>>

\* No migration is left: push goes on with the seeds it has planned, a reset
\* reads the seed table now.
Applied(c) ==
  /\ At(c, "apply")
  /\ proc[c].pending = {}
  /\ \/ /\ proc[c].kind = "reset"
        /\ proc' = [proc EXCEPT ![c].plan = SeedPlan(seedFile[c]),
                                ![c].pc = "seed"]
     \/ proc[c].kind # "reset" /\ proc[c].plan = NoPlan /\ End(c)
     \/ proc[c].kind # "reset" /\ proc[c].plan # NoPlan /\ Goto(c, "confirmseed")
  /\ UNCHANGED <<db, disk, counters>>

(***************************************************************************)
(* migration.SeedData: the seed statements, skipped when the plan says     *)
(* dirty, and the upsert of the planned hash commit together.              *)
(***************************************************************************)
Seed(c) ==
  /\ At(c, "seed")
  /\ IF proc[c].plan = NoPlan
     THEN UNCHANGED <<recorded, seedRuns>>
     ELSE /\ seedRuns < MaxRuns
          /\ recorded' = proc[c].plan.hash
          /\ seedRuns' = IF proc[c].plan.dirty THEN seedRuns ELSE seedRuns + 1
  /\ End(c)
  /\ UNCHANGED <<history, runs, touched, disk, counters>>

(***************************************************************************)
(* down.ResetAll: db reset --linked and migration down                     *)
(***************************************************************************)

\* db reset takes its target from the local files: a --version that has a
\* file, --last n counted from the newest file (0: skip all), or none.
ResetTargets(c) == files[c] \cup {0, Newest}

\* migration down --last n takes it from the remote history, before its
\* prompt: the newest version that stays.  n may not revert everything.
DownTargets == {t \in history : \E r \in history : t < r}

StartReset(c) ==
  /\ "reset" \in Commands
  /\ admin < MaxAdmin /\ admin' = admin + 1
  /\ Ready(c)
  /\ \E t \in ResetTargets(c) \cup DownTargets :
       Begin(c, "drop", "reset", t, {})
  /\ UNCHANGED <<db, disk, faults, edits>>

\* DropUserSchemas: user objects are dropped and both tables truncated, in
\* one DO block; then the local files up to the target are listed.
Drop(c) ==
  /\ At(c, "drop")
  /\ history' = {}
  /\ recorded' = None
  /\ runs' = [v \in Versions |-> 0]
  /\ seedRuns' = 0
  /\ touched' = {}
  /\ proc' = [proc EXCEPT ![c].pc = "apply", ![c].pending = LoadPartial(c)]
  /\ UNCHANGED <<disk, counters>>

(***************************************************************************)
(* migration repair and migration fetch: one batch, one query              *)
(***************************************************************************)

\* --status applied upserts the rows of versions that have a local file,
\* --status reverted deletes rows.  No statement of a migration is run.
Repair(c) ==
  /\ "repair" \in Commands
  /\ admin < MaxAdmin /\ admin' = admin + 1
  /\ Ready(c)
  /\ \E vs \in (SUBSET Versions) \ {{}} :
       /\ \/ vs \subseteq files[c] /\ history' = history \cup vs
          \/ history' = history \ vs
       /\ touched' = touched \cup vs
  /\ UNCHANGED <<recorded, runs, seedRuns, disk, proc, faults, edits>>

\* Without versions, the table is truncated first, and --status applied
\* makes it match the local files.
RepairAll(c) ==
  /\ "repair" \in Commands
  /\ admin < MaxAdmin /\ admin' = admin + 1
  /\ Ready(c)
  /\ history' \in {files[c], {}}
  /\ touched' = Versions
  /\ UNCHANGED <<recorded, runs, seedRuns, disk, proc, faults, edits>>

\* fetch writes every recorded migration to a local file.
Fetch(c) ==
  /\ "fetch" \in Commands
  /\ admin < MaxAdmin /\ admin' = admin + 1
  /\ Ready(c)
  /\ files' = [files EXCEPT ![c] = @ \cup history]
  /\ UNCHANGED <<db, seedFile, proc, faults, edits>>

(***************************************************************************)
(* Surroundings                                                            *)
(***************************************************************************)

\* The developer adds or removes a migration, or edits the seed file.  With
\* Exclusive a directory is left alone while its command runs.
Edit(c) ==
  /\ edits < MaxEdits /\ edits' = edits + 1
  /\ Exclusive => proc[c] = Idle
  /\ \/ /\ \E v \in Versions :
             files' = [files EXCEPT ![c] = IF v \in @ THEN @ \ {v} ELSE @ \cup {v}]
        /\ seedFile' = seedFile
     \/ /\ \E h \in Hashes : seedFile' = [seedFile EXCEPT ![c] = h]
        /\ files' = files
  /\ UNCHANGED <<db, proc, faults, admin>>

\* The client dies, loses its connection, or a statement of its batch fails:
\* the transaction in progress is rolled back, the rest is not executed.
Fault(c) ==
  /\ proc[c] # Idle
  /\ faults < MaxFaults /\ faults' = faults + 1
  /\ End(c)
  /\ UNCHANGED <<db, disk, edits, admin>>

-----------------------------------------------------------------------------
Work(c) ==
  \/ ReadSeeds(c) \/ Confirm(c) \/ Applied(c) \/ Seed(c) \/ Drop(c)
  \/ \E v \in Versions : Commit(c, v) \/ Conflict(c, v)

Next ==
  \E c \in Clients :
    \/ \E kind \in {"push", "all"} : ReadHistory(c, kind)
    \/ Work(c)
    \/ Decline(c)
    \/ StartReset(c)
    \/ Repair(c) \/ RepairAll(c) \/ Fetch(c)
    \/ Edit(c) \/ Fault(c)

Spec == Init /\ [][Next]_vars

\* The developers repeat the push until nothing is pending, and confirm in the
\* end; a command that runs is not suspended for ever.
LiveSpec ==
  /\ Spec
  /\ \A c \in Clients : /\ WF_vars(ReadHistory(c, "push"))
                        /\ WF_vars(Work(c))
                        /\ SF_vars(Confirm(c))

-----------------------------------------------------------------------------
(***************************************************************************)
(* Properties                                                              *)
(***************************************************************************)

Kinds == {"push", "all", "reset"}
Steps == {"idle", "seeds", "confirm", "confirmseed", "apply", "seed", "drop"}
Plans == [hash : Hashes \cup {None}, dirty : BOOLEAN]
CommandsType == [pc : Steps, kind : Kinds, target : Nat,
                 pending : SUBSET Versions, plan : Plans]

\* Every variable holds a value of its type.
TypeOK ==
  /\ history \subseteq Versions /\ touched \subseteq Versions
  /\ recorded \in Hashes \cup {None}
  /\ runs \in [Versions -> Nat] /\ seedRuns \in Nat
  /\ files \in [Clients -> SUBSET Versions]
  /\ seedFile \in [Clients -> Hashes]
  /\ proc \in [Clients -> CommandsType]
  /\ faults \in Nat /\ edits \in Nat /\ admin \in Nat

\* The history table tells the truth about the schema: however commands of
\* several clients interleave, fail half-way, or find a stale list of pending
\* migrations, a version that no repair has touched is recorded exactly when
\* its statements were executed, and they were executed once ("Subsequent
\* pushes will skip migrations that have already been applied").
HistoryHonest ==
  \A v \in Versions \ touched : runs[v] = IF v \in history THEN 1 ELSE 0

\* The seed table does not claim a seed that was never run: a crash between
\* the drop of a reset and its seeding leaves no row behind.
SeedHonest == recorded # None => seedRuns > 0

\* "Enforce migrations are applied in chronological order by default": without
\* --include-all no migration is executed after a newer one was recorded.
ChronologicalOrder ==
  [][\A c \in Clients, v \in Versions :
       Commit(c, v) /\ proc[c].kind # "all" => \A h \in history : h < v]_vars

\* A command that has gone through its list leaves the history equal to the
\* local directory (to its part up to the target, for a reset): the list of
\* pending migrations neither skipped one nor held one too many.
EndsComplete ==
  [][\A c \in Clients : Applied(c) =>
       history = IF proc[c].kind = "reset" THEN LoadPartial(c) ELSE files[c]]_vars

\* "Skip seed files that already exist": the seed statements run once.
SeedOnce == seedRuns <= 1

\* Clients that have the same directory and keep pushing it bring the database
\* up to date, whatever fails or collides on the way.
Converges ==
  (\A c, d \in Clients : files[c] = files[d])
    => <>[](\A c \in Clients : history = files[c])
=============================================================================
