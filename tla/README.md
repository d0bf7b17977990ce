# A verification project for the Supabase CLI

The Supabase CLI (`src/`, Go) manages projects of the Supabase platform: it
applies database migrations, deploys and serves edge functions, pushes the
configuration of a project, starts a local stack in Docker, and calls the
platform's Management API.  Most of its commands are sequential, but the
interesting ones share something with another actor: a second developer who
works on the same remote project, a goroutine, a container, a listing that
changes while it is read.  This directory holds TLA+ models of those parts, TLC
runs that check them on small instances, and proofs that TLAPS checks for every
instance.

Contents: [Inventory](#inventory), [Modules](#modules), [Runs](#runs),
[Proofs](#proofs), [Findings](#findings), [What is not
modelled](#what-is-not-modelled), [Plan](#plan).

## Inventory

### Components that the models cover

**Job queue** (`pkg/queue/queue.go`).  State: one buffered channel `errCh`,
filled with `nil` at creation, and a wait group.  Operations: `Put` takes a
value from the channel (a worker token that carries the error of an earlier
job) and starts a goroutine that puts its own error back; `Collect` waits for
the wait group and exchanges every value for `nil`.  Used by the functions
deploy (`deploy.go`), `storage cp -r` (`cp.go`, `batch.go`), `link`,
`services` and the template download of `bootstrap`, which differ in what they
do with an error of `Put`.  Hard: errors and tokens are the same values; a job
is blamed on a later `Put`; the callers that return early leave jobs behind.
Correct: never more jobs than workers, no error lost or reported twice,
everyone returns if the jobs do.

**Functions deploy** (`pkg/function`, `internal/functions/deploy`,
`internal/functions/delete`).  State: the project's functions (remote), the
listing that the command took, the list of updates under way.  Three ways in:
one function by API, several by API (`bulkUpload`: uploads through the queue,
then one bulk update), or by the Docker bundler one after the other
(`UpsertFunctions`, with retries); then `--prune`.  Hard: a listing as old as
the command, answers that are lost after the request took effect, one back-off
policy shared by all requests, other clients.  Correct: a deploy that reports
success has deployed; one client's retries never turn its own work into an
error; a prune deletes nothing that exists locally.

**Functions serve** (`internal/functions/serve`).  State: the set of watched
directories, a debounce timer, the container, the log stream.  Three
goroutines and Docker.  Hard: two resets of one timer race with its expiry and
its receiver; files change while a restart reads them; the log streamer
addresses the container by name while it is removed and created again.
Correct: no change is missed, no restart without a change, a restart never
ends the session, the last version of the files is served in the end.

**Migration history** (`pkg/migration`, `internal/db/push`, `internal/db/reset`
for linked projects, `internal/migration/*`).  State: in the database the
tables `schema_migrations` and `seed_files` and the schema itself; on each
machine the migrations directory and the seed files.  A command reads, prompts,
and executes one file per transaction.  Hard: nothing is locked between those
steps; commands fail half-way and are repeated; repair and reset rewrite the
history.  Correct: the history says what was executed; migrations are applied
in order, each once; a push that is repeated gets through.

**Computation of pending migrations** (`FindPendingMigrations`,
`ListLocalMigrations`, `GetPendingMigrations`).  A one-pass merge of two sorted
lists whose orders are not quite the same.  Correct: exactly the missing
migrations, in order, or a refusal that names exactly the right versions.

**SQL statement splitter** (`pkg/parser`).  State: the state machine's current
state, nested in atomic states, and what it looks back at.  Feeds every
migration file to the database statement by statement.  Hard: it sees one rune
and a few bytes behind it, and nested comments, dollar tags, doubled quotes and
atomic bodies have to come out right.  Correct: the text is cut where its
statements end and nowhere else.

**Local stack** (`internal/start`, `internal/stop`, `internal/db/start`,
`internal/db/reset`, `internal/utils/docker.go`).  State: containers and named
volumes in Docker; the commands keep none of their own.  A container of the
database means "already running", a volume of the database "already set up".
Hard: containers crash or never get healthy, calls fail, the process is killed
between any two steps, and a failed start rolls back with the routine that stop
uses, under a global that says whether volumes go too.  Correct: the
developer's data survives what does not ask for its removal; a volume holds a
database that was set up; a start that reports success is up.

**Configuration push** (`pkg/config/updater.go`, `auth.go`, `api.go`, `db.go`,
`storage.go`, `internal/config/push`).  State: `config.toml`, the project's
settings, and between them the updater's copy with the remote values written
over it.  Hard: what is compared and what is sent are two lists of some 300
fields, written apart; what is left out locally must keep its remote value; a
paid add-on must be agreed to; others use the dashboard.  Correct: nothing
changes unseen, undeclared or unpaid, and a second push has nothing to do.

**Storage commands** (`internal/storage/rm`, `mv`, `cp`, `ls`).  State: the
objects of a bucket, and the queue of directories a command still has to list.
Hard: listings come in pages while the command removes what they list, or moves
it into directories that are listed later.  Correct: every object asked for,
once, and no other.

**Schemas and their catalogs** (`internal/db/declarative`, `diff`, `pull`,
`pgcache`).  State: migration files, declarative files, a database with its
history, and in `.temp/pgdelta` catalogs of schemas, named after a hash of the
files they were made from, and the time.  `db schema declarative generate` and
`sync`, `db diff`, `db pull`, `db reset` and `db push` read and write them.
Hard: a command reads the files to hash them and again to apply them; what one
command caches another finds; each export removes old catalogs; with
`--no-cache` everything goes to fixed names.  Correct: a migration that a sync
writes takes the migrations to what is declared; a catalog that was chosen is
there until it is read; a pull leaves nothing to pull or to push.

### Components that are not modelled

| component | state | why not |
|---|---|---|
| Migration squash | migration files, remote history | promises nothing when a step fails; its hazards are listed |
| Telemetry | `telemetry.json` | read, changed and written without a lock; the code calls a loss harmless |
| Login, connection | credentials | cryptography and network; the poll's only state is its counter |
| API commands, inspection, bootstrap, legacy branches, flags, libraries | none | sequential, one request each |

Vault secrets appear as a stage of the set-up of a local database only.
PROJECT.json lists every component with its files, and the hazards of the code
with the properties that cover them.

## Modules

`X` has the model, `MCX` instantiates it for TLC, `XProofs` has its theorems.

| module | source | extends | what it is |
|---|---|---|---|
| JobPool | queue.go | | abstract specification: a pool of jobs that reports every error once |
| JobQueue | queue.go and its callers | | the channel, the wait group, the goroutines and the caller's loop |
| BulkDeploy | pkg/function/deploy.go | JobQueue | `bulkUpload` on top of the queue |
| FunctionsDeploy | pkg/function/batch.go, functions/deploy | | `UpsertFunctions`, bulk update and prune of several clients |
| FunctionsServe | internal/functions/serve | | watcher, restart loop, container, log streamer |
| MigrationHistory | pkg/migration, db/push, migration/* | | the commands that change one remote history |
| PendingMigrations | pkg/migration/apply.go, list.go | | the listing and the merge loop, statement by statement |
| SqlSplitter | pkg/parser | | the splitter, fed by a generator of PostgreSQL's tokens |
| LocalStack | internal/start, stop, db/start, db/reset, utils/docker.go | | the commands of the local stack on Docker |
| ConfigSync | pkg/config, internal/config/push | | config push, section by section |
| StorageObjects | internal/storage/rm, mv | | rm and mv on a bucket that others use |
| SchemaSync | internal/db/declarative, diff, pull, pgcache | | the schema commands and the catalogs they share |
| MCCommands | | PendingMigrations, SqlSplitter, ConfigSync, StorageObjects, SchemaSync | these five in one run |

Every module with a model also has *faulty variants*: operators that state a
plausible slip in the code (a dropped guard, a missing reset, an off-by-one).
PROJECT.json pairs each property with one of them that breaks it.

### JobQueue, JobPool

`errCh` is the sequence of the values in the channel, `job[i]` where the
goroutine of job `i` stands (`idle`, `running` inside `job()`, `sending` on
`q.errCh <- job()`, `sent` before `wg.Done`, `exited`), `wg` the counter.  `Put`
is enabled when a value is in the channel (the receive blocks otherwise);
`Finish`, `Send` and `Exit` are the three steps of the goroutine; `CallCollect`,
`WaitReturns`, `Drain` and `CollectReturns` are the steps of `Collect`.  The
error of job `i` is `i`, so that errors are told apart.  `policy` is what the
caller does with an error of `Put`: return (`bulkUpload`, `UpsertObjects`,
template download), join it with `Collect`'s (`storage cp -r`), or log it
(`link`, `services`).  What a job does is an outcome; most HTTP clients of the
jobs have no time-out, so a job may also run for ever: CallerReturns has as its
condition that none does.

`JobPool` has jobs that run, fail or succeed, and a caller to whom each failure
is handed at most once; `JobQueue` implements it under the mapping given by its
`INSTANCE JobPool`, checked by TLC and proved.

### BulkDeploy

Adds to the queue the array `toUpdate` (`filled`: the entries that jobs have
written), the functions that are `live`, and the bulk update.  It is the reason
why `Collect` must be complete: the request reads an array that the jobs write
without a lock.

### MigrationHistory

`history`, `recorded` are the tables `schema_migrations` and `seed_files`;
`runs`, `seedRuns` count how often a file's statements were really executed
since the schemas were last dropped (what the tables are supposed to say);
`touched` holds the versions whose row was written by `migration repair`, of
which no honesty can be expected.  `proc[c]` is the command that client `c`
runs: the step, the list it computed, and the seed plan.

| action | code |
|---|---|
| ReadHistory, ReadSeeds | `push.Run` / `up.Run`: list local and remote, compute pending, `GetPendingSeeds` |
| Confirm, Decline | the prompts |
| Commit, Conflict, Applied | `ApplyMigrations` with `ExecBatch`: one file and its row in one transaction, or the primary key refuses it |
| Seed | `SeedData`, `ExecBatchWithCache`: statements and upsert of the hash |
| StartReset, Drop | `down.ResetAll` (`db reset --linked`, `migration down`): both tables are truncated with the schemas in one statement; then migrations and seeds |
| Repair, RepairAll, Fetch | `migration repair` with and without versions, `migration fetch` |
| Edit, Fault | the developer; a crash, a failing statement or a lost connection |

A migration is a number.  `FindPending` states what `FindPendingMigrations`
returns; PendingMigrations has the code itself and compares the two, including
versions that are not ordered like numbers.  `Exclusive` says whether the
operators keep commands from overlapping: the code has no lock, so the
properties that need one are stated under that constant, and the run
`history_stale_push` shows what happens without.

Left out: migrations or seeds disabled in config.toml, dry runs, roles, vault
secrets (one of the faults), the catalog cache, a COMMIT inside a migration
file, the `CREATE TABLE IF NOT EXISTS` that precedes every command, and two
local files of one version.

### PendingMigrations

`List` goes through the directory entry by entry (`listed`); `Match`,
`RemoteMissing` and `LocalUnapplied` are the iterations of the loop of
`FindPendingMigrations` with its two indices; `Return` is the slices after the
loop, and what `up.GetPendingMigrations` makes of the result with
`--include-all`.  The two orders are constants: `Precedes` is
the order of versions as strings (the remote side, `ORDER BY version`) and
`DirOrder` that of file names (the local side, `fs.ReadDir`).  They differ
because `_` sorts after the digits.  The directory may hold entries that are
not migrations and the deprecated `_init.sql`, which `ListLocalMigrations`
skips only if it is the first entry; it may hold two files of one version.

### SqlSplitter

Two machines side by side.  A generator writes a text token by token and knows
what it is really in (`inside`: parentheses, an atomic body, strings, comments,
dollar quotes) and whether a statement `ends` with the token; it is the
reference, taken from the lexical rules of PostgreSQL, and external.  The
splitter (`split`) is `state.go` and `ScanToken` of `token.go`: `ReadyState`,
`TagState`, `DollarState`, `QuoteState`, `CommentState`, `BlockState`,
`EscapeState` and `AtomicState` with their look-behind.  A symbol is a rune or
a word of which only the last rune matters.  A text is unbounded; what bounds
the state space is `MaxNesting`, since both machines forget what they have
closed.

The splitter is known to misread some texts, listed under
[Findings](#findings).  The generator does not write those: each guard that
keeps it from one is marked "misread" in the module, and without any of them
TLC finds a text that is cut wrongly.  Left out are the buffer's growth and
its limit, and trimming.

### LocalStack

`container` and `volumes` are Docker's; `done` holds the stages of the set-up
that the database's volume has gone through, `rows` and `objects` whether the
developer has stored something of his own.  The process has `pc`, the service
`cur` that `DockerStart` is at, the services that are `started`, those that
`WaitForHealthyService` is still `probing`, and `noBackup`, the global
`NoBackupVolume`.

| actions | code |
|---|---|
| Check, Inspect | `AssertSupabaseDbIsRunning`; `StartDatabase` up to the inspection of the volume |
| CreateVolumes, CreateContainer, RunContainer, NextService | `DockerStart` and the sections of `start.go`'s `run` in their order |
| RestoreEnds, RestoreFails | `restore.sh` in the container of `db start --from-backup`, whatever the command does meanwhile |
| ProbeRound, ProbeForever, ProbeTimesOut | `WaitForHealthyService`: what was healthy once is not probed again |
| SetUp, SetUpFails, DatabaseReady | `SetupLocalDatabase`: schema, vault, roles, migrations and seeds |
| SeedBuckets, UploadFails, Report | buckets, and the end of `start.Run` |
| RemoveDatabase, RemoveVolume, Recreate, InitSchema14, Migrate14, RestartServices, SeedStorage | `db reset`, with its two ways for Postgres 15 and 14 |
| List, StopContainers, LeaveContainers, PruneContainers, PruneVolumes | `DockerRemoveAll`, of stop and of the rollback of a failed start |
| CallFails, RemoveAllFails, Kill | a Docker call or a statement that fails; the process is killed |
| GetsHealthy, Crash, Develop | the containers, and the developer between commands |

A restore begins with the container and goes on in it: `done` holds
`restoring` until it has ended, `partial` when it failed or its container was
stopped or removed.  The database does not listen meanwhile, the command goes on
when the probes run out ("restoring a large backup may take longer") and reports
success, and every later start takes what is in the volume for the whole.
`host` is how Docker is reached: behind a named pipe (Windows) Vector is started
and not probed (`Probed`).  Buckets are seeded through the gateway, for which
nobody waits: one that runs and does not answer yet fails the start, without a
fault (`late` remembers what was running and not ready).

The services of a start, what switches them on, which images exclude them, the
volumes they mount and the services they wait for are one table, `StartOrder`.
`excuses` and `crashed` are history variables: why a volume may not be set up,
and whether a container has crashed.  Left out: two commands at once, images
and networks (a step that may fail), ports, `stop --all`.

### ConfigSync

A setting stands for the fields of the source that are treated alike; it is
declared or not, has a switch, a value and the hash of a secret.  `To(k, c)` is
the set of its parts that `To...` puts in the request (`ToAuthConfigBody`,
`ToUpdatePostgrestConfigBody` and so on), `Sent` what becomes of their values on
the way, `From(k, c, r)` what `From...` writes over the local copy: durations
that are sent in whole hours or seconds, a hash that stands in for a secret,
emptied lists that are not sent.  `Get`, `ConfirmCost`, `Diff`, `Ask`, `Put` are
the steps of one section in `UpdateRemoteConfig`; `Skip` a section that is
switched off or cannot be read; `Write` is another client at the dashboard.
`config` is what the loader makes of config.toml: it is merged over the
template's defaults (`mergeDefaultValues`), which declare
`[storage.s3_protocol]` with `enabled = true` and `[auth.external.apple]`; what
a config.toml leaves out there is declared all the same and sent (`Defaults`, as
against `Pointers`).  SMTP is always read as enabled: `smtp.fromAuthConfig`
looks at whether the host is nil, and a host that is null in the answer is a
`nullable.Nullable`, a map, that is not.  Parsing, templating and the validation
of single values are left out: `LocalSettings` is what they let through.

### StorageObjects

A path is a sequence of names; an object holds the path it had when the command
began, so that one can tell where it went.  `TryDelete`, `TryMove` treat the
path as an object first, `DeclineDelete` is the prompt before a removal: its
default is no, which is also the answer without a terminal, and the command then
ends without an error; `PopDirectory`, `ListObjects`, `DeleteObjects`,
`MoveObject` are `RemoveStoragePathAll` and `MoveStorageObjectAll` with their
queue of directories, page by page; `Upload` is another client.

### SchemaSync

A schema is a set of things, a migration a set to add and a set to drop.
`snapshots[family]` holds the dated catalogs of `pgcache` and `declarative`:
`hash` is the content that was hashed, `at` the time in the name, `catalog` the
schema in the file, and `by` says how it came about (a history variable):
`shadow` when the files hashed were those applied, `raced` when they were edited
in between, `live` when it is that of a database in use.  `baseline` is the catalog
of an empty database, `temp` those of `--no-cache`.  `job` is what the command
under way knows, `place` where it stands.

| actions | code |
|---|---|
| GenerateBaseline, Export, DeclineOverwrite, WriteDeclarativeSchemas, WarmCache | `declarative.Generate` |
| ResolveSource, MigrateShadow | `getMigrationsCatalogRef`, and the same for `db diff --from migrations` |
| ResolveTarget, ApplyDeclarative | `getDeclarativeCatalogRef`, `writeDeclarativeCatalogFromConfig` |
| DiffRefs, SaveMigration, DeclineApply, ApplyToLocal | `DiffDeclarativeToMigrations` and the rest of `sync` |
| Reset, ResetAfterSync, PushMigrations | `db reset`, `db push`, each one step, with `TryCacheMigrationsCatalog` at its end |
| DiffToFile | `db diff -f` |
| AssertRemoteInSync, DumpRemoteSchema, SecondPass, DiffRemoteSchema, UpdateHistory | `db pull` |
| EditMigrations, EditDeclared, AlterDatabase, CommandFails | the developer, others at the database, a failure or an interrupt at any step |

A `db start` on a new volume ends with the same catalog as a reset.  A sync that
resets the database before it starts is a reset and a sync.  Left out: two
commands at once, schema flags, what pg-delta filters, the diff engines other than
pg-delta, the `--experimental` pull, and the formatting of SQL.

### MCCommands

The five models are of commands that run on their own and share nothing here; one
run checks them all, each with all its inputs while the others have none.

### FunctionsDeploy

The content of a function is the client whose code it is.  One command per
client: `List`, then for each enabled function skip, update or create with up to
three retries, bundle failures, requests and answers that are lost; the bulk
update; prune.  The server's behaviour is external and taken from the status
codes the code handles: to create a slug that exists is refused with "Duplicated
function slug", to update one that does not with 404, the bulk update replaces
the records it names.  A function that cannot be bundled ends the deploy
(`unbundled`).  `ErrNoDeploy`, on which `UpsertFunctions` skips a function
(`batch.go:64`), is left out: the Docker bundler never returns it.
`backoff.RetryNotify` (v4.3.0) does not call the notifier on the last error.

### FunctionsServe

Files are abstracted to the directories they are in.  `watched` is what the
watching library was told; `timer` is `restartTimer` with the semantics of Go
1.23 and later (go.mod says 1.25): `Reset` reports an active timer and takes
back a value that was not received.  `Receive` and `Rearm` are the two `Reset`s
of `debounceFileWatcher.Start`; `RestartDue`, `Load`, `Kill`, `Remove`,
`Populate`, `SetWatchPaths`, `Create`, `Started` are `restartEdgeRuntime` in
its order; `ContainerLogs`, `Inspect` and `StreamFails` the streamer.

Between `Populate` (the files are read) and `SetWatchPaths` a directory that
is new is not watched; a change there raises no event.  The model has that
window; what is *noticeable* excludes it.  Left out: the limit of watched
directories, the watcher's error channel, environment and binds, and the
projects without an enabled function, which watch nothing.

## Runs

Run any of them with `tlc -config <cfg> <module>`.

| run | configuration | bounds | distinct states | checks |
|---|---|---|---|---|
| queue | MCBulkDeploy | 4 jobs (functions), 2 workers | 12 thousand | BoundedConcurrency, SendNeverBlocks, NoErrorLost, ReportedOnce, AllOrNothing, CallerReturns, PoolSpec |
| queue_zero | MCJobQueueZero | 1 job, 0 workers | - | CallerReturns fails: finding 1 |
| history_races | MCHistoryRaces | 2 clients, 2 versions, 1 seed content, every command, 1 fault, 1 edit, 1 reset/repair/fetch | 750 thousand | TypeOK, HistoryHonest |
| history_exclusive | MCHistoryExclusive | the same with 3 versions, 2 seed contents, no overlap | 710 thousand | SeedOnce, SeedHonest, ChronologicalOrder, EndsComplete |
| history_converges | MCHistoryConverge | 2 clients, 2 versions, push only, 2 faults | 8 thousand | Converges |
| history_stale_push | MCHistoryStale | 2 clients, 2 versions, push only, no fault | - | ChronologicalOrder fails: finding 2 |
| commands | MCCommands | see below | 1.4 million | PendingIsDifference, SlicesInBounds, RefusalIsExact, OldestFirst; SplitsAtStatements; PushSettles, OnlyShownChanges, UndeclaredKept, CostConfirmed; RemovesAll, MovesAll; SyncIsExact, RefsReadable, PullSettles |
| pending_prefix | MCPendingMigrationsPrefix | versions of 1 and 2 digits, up to 2 files | - | UpToDate fails: finding 3 |
| functions | MCFunctionsDeploy | 2 clients, 2 functions, one command each, 2 faults | 590 thousand | SuccessIsDeployed, NobodyFails |
| functions_prune | MCFunctionsDeployPrune | one command, no fault | - | PruneKeepsLocal fails: finding 4 |
| serve | MCFunctionsServe | 2 directories, 3 changes, 1 fault | 109 thousand | NoChangeMissed, RestartsAreCaused, SurvivesRestarts, ServesLatest, LogsFollowed |
| stack | MCLocalStack | analytics, api and storage enabled; 3 sets of exclusions; Postgres 14 and 15; Docker behind a socket or a named pipe; 3 commands, 1 fault | 865 thousand | VolumeMeansSetUp, SuccessMeansUp, FailsForAReason, KeepsData, CommandEnds |

The deadlock check is on only for the queue, where the end is a step of its own
(`Quiescent`).  Elsewhere a system may really stop: the commands have ended and
the bounds are used up, or the session is over.

### What the properties say

*Job queue.*  BoundedConcurrency: no more jobs run than the queue has workers.
SendNeverBlocks: a finished job always finds room in the channel, so no
goroutine leaks.  NoErrorLost and ReportedOnce: an error is in the channel or
was handed to the caller, never both, never neither, never twice. CallerReturns
(liveness): if every job returns, the caller does.  PoolSpec: refinement; with
it, `Collect` returns only when every job has ended and every error has been
handed over.  AllOrNothing: the functions go live together, after the last
upload, with every entry of the shared array filled and nobody writing it.

*Migration history.*  HistoryHonest: a version that no repair touched is
recorded exactly if its statements were executed, and then once, under every
interleaving, fault and stale list.  ChronologicalOrder, EndsComplete: without
overlap, the order the code says it enforces, and a history that is equal to the
local directory after a successful command.  SeedOnce, SeedHonest: the seed
statements run once, and the seed table never claims a seed that was not run.
Converges (liveness).

*Pending migrations.*  PendingIsDifference compares the result of the loop with
the set difference it stands for; RefusalIsExact the two refusals with the
versions that are missing or out of order; SlicesInBounds, because the code
slices the directory by the number of rows; OldestFirst.  RefusalIsExact and
OldestFirst assume that the directory is in the order of the versions; finding 3
is what happens otherwise.

*Splitter.*  SplitsAtStatements: after every token, a statement is emitted if
and only if the text has one that ends there.

*Config push.*  PushSettles: after a push in which nothing failed, was declined
or was changed by somebody else, a second push finds nothing to do, for every
setting and every value of it, with the exceptions named in `NeverSettles`; it
is what ties the list of the fields sent to the list of the fields read.
OnlyShownChanges: an update changes nothing that was not shown before the
confirmation, but for what somebody else has changed since it was read.
UndeclaredKept: what neither config.toml nor the defaults it is merged over
declare keeps its value on the project.  CostConfirmed: a paid add-on is enabled
only by a user who has agreed to its price.

*Storage.*  RemovesAll: `rm -r` that was confirmed and reports success has removed
every object below the path, and no command removes any other.  One that was
declined reports success too, and has removed nothing.  MovesAll: the same of `mv`,
with each object moved once and to its own place, but for the two kinds of moves
that go through a directory they put objects into.

*Schemas.*  SyncIsExact: whatever earlier commands have left in the cache and
whatever is edited meanwhile, the diff about to be written can be applied after
the migrations as they were hashed and makes of them what was declared.  Two
kinds of catalogs are excepted because with them neither holds (see
[Findings](#findings)).  RefsReadable: a catalog that was chosen is there when it
is read, although exports and clean-ups lie in between.  PullSettles: after a
`db pull` that recorded its migration, while nobody edits anything, the files
make the schema of the database and its history has all of them.

*Functions deploy.*  SuccessIsDeployed: after "ok", each function asked for has
this client's code, unless another client has written it since the listing.
NobodyFails: as long as nobody prunes, two lost messages and another client
that creates the same function make no command run out of retries, wherever it
stands.  A function that cannot be bundled is another matter.

*Functions serve.*  NoChangeMissed: as long as a noticeable change has not been
read, a restart that reads it is certain to come.  RestartsAreCaused: each
restart is owed to a change of its own.  SurvivesRestarts: the session ends by
an interrupt or a failure only.  ServesLatest, LogsFollowed (liveness).

*Local stack.*  KeepsData: rows are lost by `db reset` and `stop --no-backup`
only, objects also when a start fails after a reset that failed, or a kill.
VolumeMeansSetUp: between commands a database volume holds a database that went
through its whole set-up (on Postgres 14 but for the vault).  Its excuses: a
command was killed, a reset or a rollback failed, health was ignored, the volume
could not be inspected; or a backup is being restored, or its restore failed or
was stopped.  SuccessMeansUp: a start that reports success has found everything
it wanted ready, but for Vector behind a named pipe, and unless something has
crashed since it still is.  FailsForAReason: when nothing goes wrong, a command
fails for a named reason: nothing to reset, a volume to restore over, an
exclusion that others need, a database that still restores, or buckets that are
seeded before the gateway answers. CommandEnds (liveness): a start does not wait
for ever.

### Why the bounds are enough

* Queue: with 4 jobs and 2 workers one worker runs two jobs or more, `Put`
  blocks, errors wait in the channel behind others, and `Collect` finds errors in
  every position.  The theorems lift the safety part to every number.
* History: two clients are enough for a stale list; two versions for an order,
  three (exclusive) for a gap between recorded ones; one reset, repair or fetch
  and one fault between any two steps.  `MaxRuns` = 2 lets a second execution
  happen, which is what the properties exclude.  The theorems lift HistoryHonest,
  ChronologicalOrder and EndsComplete to any number of clients, versions,
  faults and commands.
* Pending (in commands): versions of 1 and 2 digits, three files and the rows of
  up to all versions give every way in which the merge can run ahead on one side.
* Splitter (in commands): four constructs within one another; texts are of any
  length.  A dollar quote in an atomic body in parentheses is three.
* Config (in commands): each setting on its own, and with one it could disturb
  (`MCVariable`), since a setting is read and written apart from the others
  but for those pairs; values 0, 1 and 2 are the zero value, an uneven and an
  even duration; one secret besides none; one change by somebody else.  The
  theorems hold for any sets of these.
* Storage (in commands): pages of one entry, so that two objects are two pages;
  three levels of directories; one upload at any moment.
* Schemas (in commands): a database begins empty or full, any other is one edit
  away; two things tell what a diff adds from what it drops, and one of them is
  what pg_dump leaves to the second pass and what seeds create; two commands are
  one that caches and one that finds, and one edit falls between any two of
  their steps; a sync that writes both families with `catalogRetentionCount` = 2
  is what a clean-up of the wrong family needs.  The theorems lift SyncIsExact
  and RefsReadable to any number of these.
* Functions: two clients meet at one function; two faults lose an answer and a
  retry of it.  Three retries remain the code's own constant.
* Serve: three changes fall into the two resets of one burst and into a restart.
* Stack: the services that wait for others (Vector, PostgREST, Storage), those
  they wait for, and the two volumes; the other services are sections of the same
  form.  Three commands are a start, one that fails or is killed, and the one
  that has to cope with what it left.
* The counters of the bounds are guards of the environment's actions only
  (edits, faults, administration, commands started).  The exception is
  `MaxRuns`, which bounds a step of the program: where a repair has reverted a
  version, or two pushes overlap on the seed file, a third execution is cut
  off.  Neither property of history_races depends on what comes after it, and in
  history_exclusive and history_converges the bound is not reached by a version
  that no repair has touched.

Symmetry (clients, and functions or seed contents) is used in runs of safety
properties only.

### Fairness

* Queue: goroutines that can take a step of the queue do, in any order.  No
  fairness is assumed of `job()`: the Management API client
  (`internal/utils/api.go:134`), that of remote storage
  (`internal/storage/client/api.go:43`) and that of bootstrap have no time-out,
  so a server that never answers hangs the command.  CallerReturns has it as a
  condition that no job runs for ever.
* history_converges: developers repeat the push until nothing is pending (weak
  fairness of ReadHistory), a command that can go on does (weak fairness of
  Work), and a developer who is asked again and again confirms in the end
  (strong fairness of Confirm: Decline may always come first).
* Serve: the watcher, the timer, the restart, the streamer and the receive of
  its error each go on.  `select` chooses at random among what is ready, so a
  value that waits is received; nobody has to edit, fail or interrupt.
* Stack: a command that can go on does (weak fairness of Step, in which probes
  that run out of time are a step too), and a container that starts gets healthy
  unless it waits for one that does not.  No call has to fail.

## Proofs

`tlapm <module>` checks them.  All constants are arbitrary up to the named
assumptions of the module (`NumJobs`, `Cap` and the bounds are naturals, the
versions are finitely many positive numbers, the empty marker is no value).

**JobQueueProofs** proves TypeOK, BoundedConcurrency, SendNeverBlocks,
NoErrorLost, ReportedOnce, `CollectCorrect` (when Collect returns, every job
has ended, and the queue is like new), and the refinement of JobPool
(`ImplementsPool`).  None of these is inductive alone.  The invariant `IInv`
says that tokens are conserved (values in the channel, tokens that goroutines
hold and, during Collect's loop, the one in its hand add up to `Cap`), that the
wait group counts the pending jobs, that jobs are started in order, that a value
that is not nil is the error of a job that has sent it, that every such error is
in the channel or reported, and that during Collect the first `drained` places
from the end are nil.  BoundedConcurrency and SendNeverBlocks are then
arithmetic on the conserved number of tokens.  ReportedOnce needs besides that
the errors in the channel and those reported are all different: an error leaves
the channel in the step that reports it.  The refinement needs only its step
part: JobPool is stated without fairness.  BulkDeploy reuses all this: each of
its steps is one of the queue or leaves it alone, so `IInv` holds; on top of it
`BInv` ties the filled entries to the jobs that ended well, and `AllOrNothing`
follows from CollectIsComplete at the moment of the bulk update.

**MigrationHistoryProofs** proves TypeOK and HistoryHonest for any interference
(HistoryHonest is inductive with TypeOK: the guard of `Commit`, the primary
key, is what saves a stale list), and ChronologicalOrder, EndsComplete, SeedOnce
and SeedHonest under `Exclusive`.  The first two of those need `XInv`: at most
one command is under way (`Alone`), and while a command relies on its list, that
list is still the goal of the command without the history, and, except with
`--include-all`, newer than all of the history (`ListCurrent`).  The seeds need
`SeedInv`: what a command has planned for the seed file is still what it would
plan (`PlanCurrent`), and the file was run once exactly when a hash is recorded.
No primary key helps here: a stale plan runs the file twice, so that this one
holds under `Exclusive` only.  The lemmas of that module treat what a step of
one client leaves true for the others once and are cited by every action.

**PendingMigrationsProofs** proves SlicesInBounds and PendingIsDifference for
any two orders, also when the directory has several files of one version, and
OldestFirst and RefusalIsExact when the directory is in the order of the
versions.  The loop compares in one order only, so nothing can be said of what
it finds missing when the two differ; but a list without an error is returned
only if nothing was, and then each row has been matched by a file of its own.
`MInv` says so: as long as `missing` is empty, the files passed are the rows
passed and the out-of-order ones, counted together (`Passed`).  The slices are
in bounds because of that count alone.  RefusalIsExact is the loop invariant of a
merge, `RInv`: all that is left of one list comes after all that has been passed
of the other (`Split`), so what was passed as missing or as out of order can
turn up no more (`Sorted`).  It is the one place where the order has to be a
strict total order; `PrecedesAssumption` says so, and strings have one.

The same module proves SplitsAtStatements for every text that the generator of
SqlSplitter writes, constructs within one another to any depth.  The splitter
knows less than the text, and `SplitInv` says what each part of its state stands
for.  Its AtomicStates are the body and the parentheses that the text is in
(`Nested`); how many of these there are it does not know, because the closing
one of any pair takes all of them away.  In code its state is what the text ends
with (`CodeState`): after a quote it is still in the string, after a hyphen
already in a comment.  In a block comment its depth is the number of comments
around (`BlockState`), and in a dollar quote the runes it compares with the tag
are the last of the text (`Window`).  `Words` ties its look-behind for names and
BEGIN to the words that the text ends with.  A semicolon then finds it ready,
with no AtomicState around, exactly where it ends a statement.  Each token has a
lemma of its own, and these rest on a few on what one, two or three runes do
(`OneSymbol` to `ThreeSymbols`) and on the nesting (`NestOpens`, `NestCloses`).

**FunctionsDeployProofs** proves SuccessIsDeployed and NobodyFails for any
clients, functions and faults.  `SInv` follows every function asked for through
the command (`Covered`): it is deployed, or still to come and as it was in the
listing, or being sent, or another client has written it; and a command never
prunes what it was asked for (`Spared`).  A function that the command skips is
covered because the listing had its own code.  NobodyFails is a budget: the
attempts behind a request are at most the messages lost, and one more for a
creation that was answered by "Duplicated function slug" (`Spent`), which is
answered so once, because an update follows; what a client takes for existing
exists as long as nobody prunes.  With `MaxFaults` at most 2 this stays below
the limit of three retries.

**FunctionsServeProofs** proves TypeOK, NoChangeMissed, RestartsAreCaused and
SurvivesRestarts.  Its invariant has three parts besides: `Budget` (restarts,
pending events and the timer together never exceed the changes that raised an
event: each pays for the next), `Watching` (what is watched is what is served,
except between reading and watching), and `Blame` (wherever the session could
end because of a failure, something has failed; a container that is running is
never addressed by its removal).

**LocalStackProofs** proves KeepsData, VolumeMeansSetUp, SuccessMeansUp and
FailsForAReason for any switches, exclusions, commands and faults.  A rollback
removes volumes only if `NoBackupVolume` is set, and a start sets it only when
it found no volume of the database.  So the invariant has to say that rows, and
a container of the database, exist only where its volume does; that objects, or
any container, without that volume mean a reset under way, one that failed, or a
kill; that a start under which the global is set has found no rows (`DataInv`);
and that objects, and the container of storage, exist only where its own volume
does (`StorageInv`).  `VolumeInv` adds which command may stand where
(`Courses`), how far the set-up has come there whatever went wrong before
(`SetUpSoFar`), and, when nothing is to blame, that the volume found was whole
and is left whole (`Blameless`).  `Restoring` is the part about backups: nothing
is done in a database that is being restored, so that what a restore leaves is
its own.  For SuccessMeansUp, `Progress` says that the sections before the
current one have been started and no others, in the order of the table, and
`FoundReady` that what is not probed any more was ready when it was dropped:
only a crash undoes that, and the property excepts it.  FailsForAReason needs
the converse, `Undisturbed`: without a fault every step that could fail cannot,
but for the two that are `late`: a gateway that does not answer yet, and a
database that restores.  The database is the first container to be made and the
last to go, no container is left stopped, and those a service waits for have
been started before it unless the exclusions forbid it.

**CommandProofs** has the proofs of two models.  For ConfigSync it proves
PushSettles, OnlyShownChanges, UndeclaredKept and CostConfirmed, for any
settings, values and secrets.  The core are two lemmas on the lists of fields:
`PutThenGet` (after what is sent has been taken, what is read is what is
declared, but for NeverSettles, a declared and disabled mail server among them)
and `GetThenPut` (a setting in which the two copies agree is not changed by an
update).  `Apart` says which settings disturb another one.  The invariant
`SyncInv` carries them through a push: the copy is the file, but for an add-on
that was declined (`Copied`), what has been read is the project but for what
others have changed (`ReadAndShown`), and the sections that a calm push has left
behind are in line (`Behind`).

For StorageObjects it proves RemovesAll and MovesAll, for any names, depth,
objects, uploads, failures and size of a page.  The listing is by page
number while the objects listed change, so the question is whether one can be
passed over.  `StorageInv` says of every object asked for that the walk still
comes to it (`Pending`): a directory above it is queued or, in the directory
that is listed, its entry has been read or has a rank at or beyond the next page.
Both commands act only after the last page, so while one is listing only uploads
change what is listed, and those can only raise a rank (`RankGrows`).  An object
that has been moved must never be reached again (`Unreached`): its new place is
not below what is still queued or listed.  Two kinds of moves break the
argument, and the property excepts them (see [Findings](#findings)): the proof
attempt is how the second one, `MovesBack`, was found.

**SchemaSyncProofs** proves SyncIsExact, RefsReadable and PullSettles for any
things, migrations, edits, commands and retention counts.  `SyncInv` says that
every catalog made in a shadow database is what its hash makes (`CatalogsTrue`),
and that the two files a command has chosen are such catalogs for the hashes it
holds, as long as it relies on them (`RefsTrue`): edits change the files but
neither the catalogs nor the hashes.  `ReadInv` adds that no catalog is newer
than the clock (`Times`).  So a catalog just written has none above it in its
family and survives a clean-up that keeps at least one (`KeepsReadable`), the
writing of one family leaves the other alone, and the latest of a family exists
(`LatestIsThere`). PullSettles needs to know how far a pull that nobody disturbs
has come (`PullSoFar`): once the histories have been compared, the database has
applied exactly the local migrations, and when the pull comes to record its own,
the migrations with it make the schema of the database.  What a list of
migrations makes is stated in closed form (a thing exists if the last migration
that mentions it adds it), so that `OneMoreMigration`, that appending one
applies it, is a lemma and not an induction.

### What is only model-checked

Liveness (CallerReturns, Converges, ServesLatest, LogsFollowed, CommandEnds),
which is beyond the prover.  Every invariant of the passing runs, and of their
other properties all that do not need fairness, are proved.

## Findings

1. **queue_zero** - `storage cp -r --jobs 0` hangs.  The flag is passed to
   `NewJobQueue` as it is, a channel of capacity 0 holds no token, and the first
   `Put` waits for ever.  `functions deploy` guards the same value.
2. **history_stale_push** - two pushes that overlap can apply an older migration
   after a newer one, without `--include-all`, although the code says that
   chronological order is enforced: the list is computed before the prompt and
   not looked at again.
3. **pending_prefix** - with versions of different lengths (1 and 10) the
   directory and the history are ordered differently, and a database that is up
   to date is refused with "Remote migration versions not found in local
   migrations directory".
4. **functions_prune** - `functions deploy a --prune` offers to delete every
   function but `a`, also those that exist locally, although the comment and the
   flag's help say that only functions without a local counterpart are deleted.

Seen while modelling and not turned into runs, because nothing in the repository
says what should happen, or because a model excludes it:

* Migrations: two pushes with `--include-seed` that overlap run the seed twice;
  a file such as `.gitkeep` that sorts first keeps the deprecated `_init.sql`
  from being skipped; `fetch` may leave two files of one version.
* Functions: a bulk update writes back over what another client has deployed
  since the listing.
* Local stack: a reset that fails after it has removed the database's volume
  makes the next start, if that fails too, remove the storage volume.  `start
  --ignore-health-check` with an unhealthy database skips the set-up and says
  "Started".  Any error of inspecting the volume counts as "it exists".  A
  rollback ends at the first container that cannot be stopped.  `-x kong` with
  PostgREST or the edge runtime, and `-x logflare` with Vector, cannot pass the
  health check.  A reset of Postgres 14 does not create the vault's secrets again.
  A restore that fails, or is stopped, leaves a part of the backup in a volume that
  every later start takes as set up.  Buckets are seeded through a gateway that
  nobody has waited for, and not tried again.
* Config push: a mail server that is declared and disabled is read back as enabled
  (`auth.go:1115`), so that every push shows and sends it.  To leave out
  `[storage.s3_protocol]` sends `enabled = true`, the default of the template.  An
  override of the database that exists only on the project, test
  codes that were removed locally, emptied schemas, a row limit of 0, and
  intervals that are not whole make every push show and send an update again.  A
  fraction of an hour that was set remotely is neither shown nor kept; row limit
  and search path change unshown when the API is enabled again.  The settings of
  the OAuth server are not sent, webhooks are enabled each time without a look.
* Splitter: nested parentheses are all closed by the inner one, so that a
  semicolon between the two closings splits; every END in an atomic body ends it
  (CASE ... END, or a name that ends so); ATOMIC after a column named BEGIN opens
  one; delimiters of block comments that overlap (`/*/`) or nest (`*/*`); tags
  such as `$$$`; a tag with a letter of several bytes; a quote that a backslash
  escapes in an E'' string; a dollar quote within a name; a comment between BEGIN
  and ATOMIC.
* Schemas: `db reset`, `db start` and `db push --local` cache the catalog of the
  database in use under the hash of the migrations; it may have what seeds created
  or somebody altered by hand.  A later sync or `db diff --from migrations` takes
  it for that of "local migrations applied to a shadow database", and its diff is
  then wrong.  The same holds for files edited between the hash and their use.
  With declarative files, `db pull --local` pulls from these and not from the
  database.  A dump that fails leaves an empty migration; the directory of the
  declarative files is removed before they are written.
* Storage: `rm` that is declined, or run without a terminal and without `--yes`,
  removes nothing and reports success; `mv -r` into a directory two levels below
  the source can go on for ever, and into an existing directory of its own moves
  objects twice; `mv -r` from a directory to one above it moves an object twice
  when it lands in a directory of the source that has yet to be listed (`mv -r
  ss:///b/2 ss:///b` takes 2/2/1/1 to 2/1/1 and then, if there was a 2/1/2, on
  to 1/1); `rm -r a` with both an object `a` and a directory `a/` removes the
  object only; `ls` and `cp -r` search by prefix (`dir` also finds `dir2/`);
  deletions of another client between two pages make `rm -r` pass over objects.

## What is not modelled

The bundlers (esbuild in Docker, the server's), `pg_dump`, migra and pg-delta,
PostgreSQL and Docker are external: an outcome, or the part of their behaviour
that the code relies on.  The Management API is a set of answers, and its client
(`pkg/api`, a third of the repository's lines) is generated.  The parsing of the
configuration, output and layout, and the commands that make one request are
sequential data conversion with no state to go wrong between steps.

Squash and telemetry do change shared files in several steps, but the code
promises nothing of them that holds across a failure or an edit in between:
squash empties the newest migration before its new content is there, and a lost
write of telemetry.json is called harmless.  The hazard of squash is listed without
a property.

Of the modelled components, what each leaves out is said in its section above.

## Plan

Done, in this order: JobQueue with JobPool and its proofs; BulkDeploy;
MigrationHistory; PendingMigrations and its proofs; FunctionsDeploy;
FunctionsServe; LocalStack with the proof of KeepsData; ConfigSync and its
proofs; SqlSplitter; StorageObjects; SchemaSync and its proofs; then the safety
invariants that were only model-checked until then: ReportedOnce, the seeds,
RefusalIsExact, FunctionsDeploy, the rest of LocalStack, StorageObjects,
PullSettles, SplitsAtStatements.

Next, proving:

1. Termination measures of the loops with fairness left out: each round of
   `DockerStart` and of the walk through a bucket makes a number smaller.
2. An abstract history of migrations that MigrationHistory implements under
   `Exclusive`.

Next, extending the model:

1. `ls` and the listing of `cp -r` in StorageObjects; several paths in `rm`.
2. The watcher's error channel and the limit of FunctionsServe, as constants.
3. Vault: two clients that read before either writes.
4. Two of the commands that cache, at once: their exports and clean-ups overlap.
