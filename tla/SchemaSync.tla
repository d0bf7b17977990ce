----------------------------- MODULE SchemaSync -----------------------------
(***************************************************************************)
(* One schema in three forms: the migration files, the declarative files   *)
(* and a database, and the commands that take it from one to another:      *)
(* db schema declarative generate and sync, db diff (-f and --from         *)
(* migrations), db pull (and --declarative), db push and db reset, with    *)
(* the catalogs that they leave to each other in .temp/pgdelta.            *)
(*                                                                         *)
(* A schema is a set of things, a migration a change of it.  A catalog is  *)
(* kept under a hash of the files it was made from; here the hash is the   *)
(* content of the files.                                                   *)
(*                                                                         *)
(* Simplifications:                                                        *)
(*   - pg-delta, migra and pg_dump are external: a diff of two schemas is  *)
(*     the change from one to the other, without what they filter out;     *)
(*   - one project, one database, which is the local one or the linked     *)
(*     one, one command at a time, pg-delta enabled, no schema flags; the  *)
(*     files are edited and the database is altered at any moment;         *)
(*   - db push and db reset, whose steps MigrationHistory and LocalStack   *)
(*     take apart, are one step here; the catalog that they export is one  *)
(*     of a database that others may have altered;                         *)
(*   - the clock does not go back, so that no two catalogs have one name;  *)
(*   - MaxMigrations, MaxTurns and MaxEdits bound a behaviour.             *)
(***************************************************************************)
EXTENDS Naturals, Sequences, FiniteSets

CONSTANTS
  Things,         \* of a schema: tables, views, functions...
  Managed,        \* those that pg_dump leaves to the second pass of db pull
  SeedThings,     \* those that the seed files create
  catalogRetentionCount,
  MaxMigrations,  \* bound: migration files
  MaxTurns,       \* bound: commands
  MaxEdits        \* bound: edits of files and of the database by others

ASSUME SchemaAssumption ==
  /\ Managed \subseteq Things /\ SeedThings \subseteq Things
  /\ catalogRetentionCount \in Nat \ {0}
  /\ MaxMigrations \in Nat /\ MaxTurns \in Nat /\ MaxEdits \in Nat

VARIABLES
  migrations,  \* the changes in the files, in their order
  declared,    \* by the declarative files; {} means that there are none
  database,    \* [schema, applied]: the versions in its history
  isLocal,     \* is it the local database?
  baseline,    \* has the catalog of an empty database been kept?
  snapshots,   \* the dated catalogs, by what they were made from
  temp,        \* the catalogs of --no-cache, by name
  clock,       \* of the last dated catalog
  place,       \* where the command is
  job,         \* what it knows
  pulled,      \* has nothing happened since a db pull recorded its migration?
  turns,
  edits

sides == <<migrations, declared, database>>
store == <<baseline, snapshots, temp, clock>>
bounds == <<isLocal, turns, edits>>
schemaVars == <<sides, store, bounds, place, job, pulled>>

-----------------------------------------------------------------------------
Unchanged == [add |-> {}, drop |-> {}]
Between(s, t) == [add |-> t \ s, drop |-> s \ t]
Alter(s, c) == (s \ c.drop) \cup c.add
\* What exists is not created, and what does not is not dropped.
CanAlter(s, c) == c.drop \subseteq s /\ c.add \cap (s \ c.drop) = {}
\* One file with the statements of both.
Joined(c, d) == [add |-> (c.add \ d.drop) \cup d.add, drop |-> c.drop \cup d.drop]

\* What a sequence of migrations makes of a schema, applied one after the other:
\* there is what was there or one of them adds, and no later one drops.
AlterAll(s, m) ==
  LET Dropped(x, i) == \E j \in DOMAIN m : j > i /\ x \in m[j].drop
  IN  {x \in s : ~Dropped(x, 0)}
        \cup UNION {{x \in m[i].add : ~Dropped(x, i)} : i \in DOMAIN m}
Made(m) == AlterAll({}, m)
\* The first n of them can be applied.
AppliesTo(s, m, n) ==
  \A i \in 1 .. n : CanAlter(AlterAll(s, SubSeq(m, 1, i - 1)), m[i])
Applicable(s, m) ==
  CHOOSE n \in 0 .. Len(m) :
    AppliesTo(s, m, n) /\ (n = Len(m) \/ ~AppliesTo(s, m, n + 1))
MakesSchema == AppliesTo({}, migrations, Len(migrations))

\* Catalogs: [hash, at, catalog, by], by "shadow" when the files were still
\* those of the hash when they were applied to a shadow database, "raced"
\* when they were not, "live" when the catalog is that of a database in use.
Snapshot(h, c, b) == [hash |-> h, at |-> clock + 1, catalog |-> c, by |-> b]
Of(kind, h) == {s \in snapshots[kind] : s.hash = h}
Latest(S) == CHOOSE s \in S : \A t \in S : t.at <= s.at

\* One more, and all but the newest of its family removed.
RetainedOfBoth(kind, s) ==
  LET all == [snapshots EXCEPT ![kind] = @ \cup {s}]
      newer(x) == Cardinality({y \in all.migrations : y.at > x.at})
                  + Cardinality({y \in all.declared : y.at > x.at})
  IN  [k \in DOMAIN all |-> {x \in all[k] : newer(x) < catalogRetentionCount}]
Retained(kind, s) ==
  LET all == snapshots[kind] \cup {s}
      newer(x) == Cardinality({y \in all : y.at > x.at})
  IN  [snapshots EXCEPT ![kind] = {x \in all : newer(x) < catalogRetentionCount}]

Keeps(kind, s) ==
  snapshots' = Retained(kind, s) /\ clock' = clock + 1 /\ UNCHANGED <<baseline, temp>>

\* The names of the files of --no-cache.
OneTempName(kind) == "nocache"
TempName(kind) ==
  CASE kind = "baseline" -> "nocache-baseline"
    [] kind = "migrations" -> "nocache-migrations"
    [] kind = "declared" -> "nocache-declarative"
WriteTemp(kind, s) ==
  temp' = [n \in DOMAIN temp \cup {TempName(kind)} |->
             IF n = TempName(kind) THEN s ELSE temp[n]]

\* A reference is the path of a catalog: its kind, hash and time.
Ref(kind, h, s) == [kind |-> kind, hash |-> h, at |-> s.at]
FileRef(name) == [kind |-> name, hash |-> <<>>, at |-> 0]
Empty == [hash |-> <<>>, at |-> 0, catalog |-> {}, by |-> "shadow"]
Live == [Empty EXCEPT !.catalog = database.schema, !.by = "live"]

\* The files at that path: one, or none.
At(r) ==
  CASE r.kind \in {"migrations", "declared"} ->
         {s \in snapshots[r.kind] : s.hash = r.hash /\ s.at = r.at}
    [] r.kind = "baseline" -> IF baseline THEN {Empty} ELSE {}
    [] r.kind = "database" -> {Live}
    [] OTHER -> IF r.kind \in DOMAIN temp THEN {temp[r.kind]} ELSE {}
Read(r) == CHOOSE s \in At(r) : TRUE

\* A write to the cache with its clean-up, or writeTempCatalog.
Exports(kind, s) ==
  IF job.noCache
  THEN WriteTemp(kind, s) /\ UNCHANGED <<baseline, snapshots, clock>>
  ELSE Keeps(kind, s)
ExportRef(kind, s) ==
  IF job.noCache THEN FileRef(TempName(kind)) ELSE Ref(kind, s.hash, s)
-----------------------------------------------------------------------------
Ops == {"generate", "sync", "explicit", "diff", "pull", "pullDeclared"}

\* migrations and declared as they were hashed, the two catalogs to diff, the
\* change to write and the migration it is written to, the empty shadow
\* database that generate holds, and whether nobody has edited anything since
\* the command began.
Job(op, noCache) ==
  [op |-> op, noCache |-> noCache, migrations |-> <<>>, declared |-> {},
   source |-> FileRef("baseline"), target |-> FileRef("baseline"),
   change |-> Unchanged, file |-> 0, shadow |-> FALSE, quiet |-> op # "none"]

Goto(p) == place' = p /\ UNCHANGED pulled
GoOn(p) == Goto(p) /\ UNCHANGED job
Done == place' = "idle" /\ job' = Job("none", FALSE) /\ pulled' = FALSE

SchemaInit ==
  /\ migrations = <<>> /\ declared \in SUBSET Things /\ isLocal \in BOOLEAN
  /\ \E s \in SUBSET Things : database = [schema |-> s, applied |-> {}]
  /\ baseline = FALSE /\ temp = <<>> /\ clock = 0
  \* A catalog of a former version of the CLI has no date.
  /\ \E legacy \in {{}, {Empty}} :
       snapshots = [migrations |-> legacy, declared |-> {}]
  /\ place = "idle" /\ job = Job("none", FALSE) /\ pulled = FALSE
  /\ turns = 0 /\ edits = 0

TakesTurn ==
  /\ place = "idle" /\ turns < MaxTurns
  /\ turns' = turns + 1 /\ UNCHANGED <<isLocal, edits>>

\* Where a command begins; sync generates first when nothing is declared.
Entry(op) ==
  CASE op = "generate" -> "baseline"
    [] op = "sync" -> IF declared = {} THEN "baseline" ELSE "source"
    [] op = "explicit" -> "source"
    [] op = "diff" -> "compare"
    [] op = "pull" -> "assert"
    [] op = "pullDeclared" -> "export"

Begin ==
  /\ TakesTurn
  /\ \E op \in Ops, noCache \in BOOLEAN :
       /\ noCache => op \in {"generate", "sync"}
       /\ job' = Job(op, noCache)
       /\ place' = Entry(op)
  /\ pulled' = FALSE
  /\ UNCHANGED <<sides, store>>

\* Docker, a script or a connection fails, a file cannot be written, or the
\* process is interrupted.
CommandFails ==
  place # "idle" /\ Done /\ UNCHANGED <<sides, store, bounds>>
-----------------------------------------------------------------------------
\* getGenerateBaselineCatalogRef: the empty shadow database is held for
\* later, unless its catalog was known.
GenerateBaseline ==
  /\ place = "baseline" /\ Goto("export")
  /\ IF job.noCache
     THEN /\ WriteTemp("baseline", Empty) /\ UNCHANGED baseline
          /\ job' = [job EXCEPT !.source = FileRef(TempName("baseline"))]
     ELSE /\ baseline' = TRUE /\ UNCHANGED temp
          /\ job' = [job EXCEPT !.shadow = ~baseline]
  /\ UNCHANGED <<sides, bounds, snapshots, clock>>

\* What the database has and an empty one has not.
Export ==
  /\ place = "export" /\ Goto("overwrite")
  /\ job.op # "pullDeclared" => At(job.source) # {}
  /\ job' = [job EXCEPT !.change = Between({}, database.schema)]
  /\ UNCHANGED <<sides, store, bounds>>

DeclineOverwrite ==
  /\ place = "overwrite" /\ declared # {} /\ job.op = "generate" /\ Done
  /\ UNCHANGED <<sides, store, bounds>>

\* The directory is removed, then written file by file.
WriteDeclarativeSchemas ==
  /\ place = "overwrite"
  /\ \/ /\ declared' = job.change.add
        /\ IF job.op = "pullDeclared" THEN Done ELSE GoOn("warm")
     \/ /\ \E partly \in SUBSET job.change.add \ {job.change.add} : declared' = partly
        /\ Done
  /\ UNCHANGED <<migrations, database, store, bounds>>

\* generate is done when the declarative files have a catalog; a sync that
\* began with it goes on, if there are any files.
EndsGenerate ==
  IF job.op = "sync" /\ declared # {}
  THEN Goto("source") /\ job' = [job EXCEPT !.shadow = FALSE]
  ELSE Done

WarmCache ==
  /\ place = "warm"
  /\ CASE job.noCache -> EndsGenerate
       [] ~job.noCache /\ job.shadow ->
            Goto("warmShadow") /\ job' = [job EXCEPT !.declared = declared]
       [] ~job.noCache /\ ~job.shadow -> GoOn("warmTarget")
  /\ UNCHANGED <<sides, store, bounds>>

\* getMigrationsCatalogRef, and resolveMigrationsCatalogRef of db diff --from.
AfterSource == IF job.op = "sync" THEN "target" ELSE "diff"
UsesBaseline ==
  job.op = "sync" /\ ~job.noCache /\ migrations = <<>> /\ baseline
Found(kind, h) == IF job.noCache THEN {} ELSE Of(kind, h)
ResolveSource ==
  /\ place = "source"
  /\ LET known == [job EXCEPT !.migrations = migrations,
                     !.target = IF job.op = "sync" THEN @ ELSE FileRef("database")]
         found == Found("migrations", migrations)
     IN  CASE UsesBaseline ->
                Goto("target") /\ job' = [known EXCEPT !.source = FileRef("baseline")]
           [] ~UsesBaseline /\ found # {} ->
                /\ Goto(AfterSource)
                /\ job' = [known EXCEPT !.source = Ref("migrations", migrations, Latest(found))]
           [] ~UsesBaseline /\ found = {} -> Goto("sourceShadow") /\ job' = known
  /\ UNCHANGED <<sides, store, bounds>>

\* MigrateShadowDatabase lists and reads the migrations again.
MigrateShadow ==
  /\ place = "sourceShadow" /\ MakesSchema /\ Goto(AfterSource)
  /\ LET by == IF migrations = job.migrations THEN "shadow" ELSE "raced"
         made == Snapshot(job.migrations, Made(migrations), by)
     IN  /\ Exports("migrations", made)
         /\ job' = [job EXCEPT !.source = ExportRef("migrations", made)]
  /\ UNCHANGED <<sides, bounds>>

\* getDeclarativeCatalogRef, for sync and at the end of generate.
ResolveTarget ==
  /\ place \in {"target", "warmTarget"}
  /\ LET known == [job EXCEPT !.declared = declared]
         found == Found("declared", declared)
     IN  CASE found = {} ->
                /\ Goto(IF place = "target" THEN "targetShadow" ELSE "warmShadow")
                /\ job' = known
           [] found # {} /\ place = "target" ->
                /\ Goto("diff")
                /\ job' = [known EXCEPT !.target = Ref("declared", declared, Latest(found))]
           [] found # {} /\ place = "warmTarget" -> EndsGenerate
  /\ UNCHANGED <<sides, store, bounds>>

\* writeDeclarativeCatalogFromConfig: the files are read again.
ApplyDeclarative ==
  /\ place \in {"targetShadow", "warmShadow"}
  /\ LET by == IF declared = job.declared THEN "shadow" ELSE "raced"
         made == Snapshot(job.declared, declared, by)
     IN  /\ Exports("declared", made)
         /\ IF place = "targetShadow"
            THEN /\ Goto("diff")
                 /\ job' = [job EXCEPT !.target = ExportRef("declared", made)]
            ELSE EndsGenerate
  /\ UNCHANGED <<sides, bounds>>

\* DiffPgDeltaRef: a catalog that is not there fails the command.
DiffRefs ==
  /\ place = "diff" /\ At(job.source) # {} /\ At(job.target) # {}
  /\ job' = [job EXCEPT !.change =
               Between(Read(job.source).catalog, Read(job.target).catalog)]
  /\ Goto("save")
  /\ UNCHANGED <<sides, store, bounds>>

\* GetMigrationPath: its version is the time, later than those of all others.
NewMigration(c) ==
  /\ migrations' = Append(migrations, c)
  /\ job' = [job EXCEPT !.file = Len(migrations) + 1]

\* Without a change there is nothing to write, and --from only prints it;
\* otherwise a name is asked for, then the file written.
SaveMigration ==
  /\ place = "save" /\ UNCHANGED <<declared, database>>
  /\ IF job.op = "explicit" \/ job.change = Unchanged
     THEN Done /\ UNCHANGED migrations
     ELSE /\ Len(migrations) < MaxMigrations
          /\ NewMigration(job.change) /\ Goto("apply")
  /\ UNCHANGED <<store, bounds>>

DeclineApply ==
  place = "apply" /\ Done /\ UNCHANGED <<sides, store, bounds>>

\* applyMigrationToLocal: this file only, and its version.
ApplyToLocal ==
  /\ place = "apply" /\ isLocal
  /\ IF CanAlter(database.schema, migrations[job.file])
     THEN /\ database' = [schema |-> Alter(database.schema, migrations[job.file]),
                          applied |-> database.applied \cup {job.file}]
          /\ Done
     ELSE GoOn("offer") /\ UNCHANGED database
  /\ UNCHANGED <<migrations, declared, store, bounds>>
-----------------------------------------------------------------------------
\* TryCacheMigrationsCatalog: of the local database, and only after all the
\* migrations; that of another database has a name nobody looks for.  If it
\* fails there is a warning; before PostgreSQL 15, db reset does not try.
TryCache(complete, schema) ==
  IF isLocal /\ complete
  THEN Keeps("migrations", Snapshot(migrations, schema, "live")) \/ UNCHANGED store
  ELSE UNCHANGED store

\* db reset, with a version up to the n-th migration, without one to the last.
ResetTo(n, versioned) ==
  LET asked == SubSeq(migrations, 1, n)
      done == Applicable({}, asked)
      schema == Made(SubSeq(asked, 1, done))
      complete == done = Len(asked)
      seeded == IF complete THEN schema \cup SeedThings ELSE schema
  IN  /\ database' = [schema |-> seeded, applied |-> 1 .. done]
      /\ TryCache(complete /\ ~versioned, seeded)
      /\ Done

Reset ==
  /\ TakesTurn
  /\ \/ ResetTo(Len(migrations), FALSE)
     \/ \E n \in 0 .. Len(migrations) : ResetTo(n, TRUE)
  /\ UNCHANGED <<migrations, declared>>

\* Offered when the migration of a sync cannot be applied.
ResetAfterSync ==
  /\ place = "offer" /\ ResetTo(Len(migrations), FALSE)
  /\ UNCHANGED <<migrations, declared, bounds>>

\* db push: the migrations after those of the history, which has no holes.
PushMigrations ==
  /\ TakesTurn
  /\ LET k == Cardinality(database.applied)
         pending == SubSeq(migrations, k + 1, Len(migrations))
         done == Applicable(database.schema, pending)
         schema == AlterAll(database.schema, SubSeq(pending, 1, done))
     IN  /\ database.applied = 1 .. k /\ pending # <<>>
         /\ database' = [schema |-> schema, applied |-> 1 .. (k + done)]
         /\ TryCache(done = Len(pending), schema)
  /\ Done
  /\ UNCHANGED <<migrations, declared>>
-----------------------------------------------------------------------------
\* DiffDatabase: with declarative files, a local database stands for them.
Reached == IF isLocal /\ declared # {} THEN declared ELSE database.schema
Drift == Between(Made(migrations), Reached)

\* db diff -f
DiffToFile ==
  /\ place = "compare" /\ MakesSchema /\ Done
  /\ IF Drift = Unchanged
     THEN UNCHANGED migrations
     ELSE /\ Len(migrations) < MaxMigrations
          /\ migrations' = Append(migrations, Drift)
  /\ UNCHANGED <<declared, database, store, bounds>>

\* db pull: a history that is not that of the files fails the command.
AssertRemoteInSync ==
  /\ place = "assert" /\ database.applied = 1 .. Len(migrations)
  /\ GoOn(IF migrations = <<>> THEN "dump" ELSE "fetch")
  /\ UNCHANGED <<sides, store, bounds>>

\* The file is there before the dump, which may fail.
DumpRemoteSchema ==
  /\ place = "dump" /\ Len(migrations) < MaxMigrations
  /\ \/ /\ NewMigration(Between({}, database.schema \ Managed))
        /\ Goto("second")
     \/ migrations' = Append(migrations, Unchanged) /\ Done
  /\ UNCHANGED <<declared, database, store, bounds>>

\* diffRemoteSchema after a dump: the rest goes to the end of the same file.
DumpOnly ==
  place = "second" /\ GoOn("history") /\ UNCHANGED <<sides, store, bounds>>
SecondPass ==
  /\ place = "second" /\ MakesSchema /\ GoOn("history")
  /\ migrations' = [migrations EXCEPT ![job.file] = Joined(@, Drift)]
  /\ UNCHANGED <<declared, database, store, bounds>>

\* diffRemoteSchema: no change at all is an error.
DiffRemoteSchema ==
  /\ place = "fetch" /\ MakesSchema
  /\ Drift # Unchanged /\ Len(migrations) < MaxMigrations
  /\ NewMigration(Drift) /\ Goto("history")
  /\ UNCHANGED <<declared, database, store, bounds>>

\* Whether to record the new version as applied is asked.
UpdateHistory ==
  /\ place = "history"
  /\ \/ /\ database' = [database EXCEPT !.applied = @ \cup {job.file}]
        /\ place' = "idle" /\ job' = Job("none", FALSE) /\ pulled' = job.quiet
     \/ UNCHANGED database /\ Done
  /\ UNCHANGED <<migrations, declared, store, bounds>>
-----------------------------------------------------------------------------
Disturbs ==
  /\ edits < MaxEdits /\ edits' = edits + 1
  /\ job' = [job EXCEPT !.quiet = FALSE] /\ pulled' = FALSE
  /\ UNCHANGED <<store, isLocal, turns, place>>

\* A migration is added, or the last one written anew.
EditMigrations ==
  /\ Disturbs /\ UNCHANGED <<declared, database>>
  /\ \E n \in {Len(migrations), Len(migrations) + 1} \ {0}, s \in SUBSET Things :
       /\ n <= MaxMigrations
       /\ LET before == SubSeq(migrations, 1, n - 1)
          IN  migrations' = Append(before, Between(Made(before), s))

EditDeclared ==
  /\ Disturbs /\ UNCHANGED <<migrations, database>>
  /\ declared' \in SUBSET Things \ {{}}

AlterDatabase ==
  /\ Disturbs /\ UNCHANGED <<migrations, declared>>
  /\ \E s \in SUBSET Things : database' = [database EXCEPT !.schema = s]

SchemaNext ==
  \/ Begin \/ CommandFails
  \/ GenerateBaseline \/ Export \/ DeclineOverwrite
  \/ WriteDeclarativeSchemas \/ WarmCache
  \/ ResolveSource \/ MigrateShadow \/ ResolveTarget \/ ApplyDeclarative
  \/ DiffRefs \/ SaveMigration \/ DeclineApply \/ ApplyToLocal
  \/ Reset \/ ResetAfterSync \/ PushMigrations
  \/ DiffToFile \/ AssertRemoteInSync \/ DumpRemoteSchema \/ SecondPass
  \/ DiffRemoteSchema \/ UpdateHistory
  \/ EditMigrations \/ EditDeclared \/ AlterDatabase

SchemaSpec == SchemaInit /\ [][SchemaNext]_schemaVars
-----------------------------------------------------------------------------
(***************************************************************************)
(* The diff of a sync (declarative.go, DiffDeclarativeToMigrations), be it *)
(* empty, can be applied after the migrations as they were hashed, and     *)
(* makes of them what was declared then, whatever is in the cache; that of *)
(* db diff --from migrations can be applied after them as well.  Two kinds *)
(* of catalogs are excepted, since with them neither holds: those of a     *)
(* database in use, and those of files edited after they were hashed.      *)
(***************************************************************************)
SyncIsExact ==
  place = "save" /\ Read(job.source).by = "shadow" =>
    /\ CanAlter(Made(job.migrations), job.change)
    /\ job.op = "sync" /\ Read(job.target).by = "shadow" =>
         Alter(Made(job.migrations), job.change) = job.declared

(***************************************************************************)
(* A catalog that a command has chosen is there until it is read, although *)
(* the command itself writes catalogs meanwhile and removes old ones       *)
(* (cleanupOldDeclarativeCatalogs, CleanupOldMigrationCatalogs).           *)
(***************************************************************************)
RefsReadable ==
  /\ place \in {"target", "targetShadow", "diff"} => At(job.source) # {}
  /\ place = "export" /\ job.op # "pullDeclared" => At(job.source) # {}
  /\ place = "diff" => At(job.target) # {}

(***************************************************************************)
(* After a db pull that has recorded its migration, while nobody edited    *)
(* anything, the migrations make the schema of the database, and its       *)
(* history has all of them (pull.go, Run): a push or another pull finds    *)
(* nothing to do.  A local database is excepted when there are declarative *)
(* files, since db pull --local then pulls from these.                     *)
(***************************************************************************)
PullSettles ==
  pulled /\ (isLocal => declared = {}) =>
    /\ Made(migrations) = database.schema
    /\ database.applied = 1 .. Len(migrations)
=============================================================================
