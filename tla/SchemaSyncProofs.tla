--------------------------- MODULE SchemaSyncProofs ---------------------------
(***************************************************************************)
(* Theorems about the catalogs that the schema commands leave to each      *)
(* other, and about db pull, for any things, migrations, edits and         *)
(* retention count.                                                        *)
(*                                                                         *)
(* SyncInv: a dated catalog made in a shadow database is what its hash     *)
(* makes, whoever reads it and whatever has been edited since.  So the two *)
(* catalogs that a sync has chosen, read from the cache or just made, are  *)
(* those of the files as the sync hashed them, and the diff between them   *)
(* is exact.                                                               *)
(*                                                                         *)
(* ReadInv: no catalog is newer than the clock.  So the one that a command *)
(* exports is the newest of its family, which a clean-up never removes,    *)
(* and the one it finds is not removed by an export of the other family.   *)
(*                                                                         *)
(* PullInv: from its check of the history on, a db pull that nobody        *)
(* disturbs knows which versions the history has; when it comes to record  *)
(* its own, the migrations make the schema of the database.                *)
(***************************************************************************)
EXTENDS SchemaSync, FiniteSetTheorems, SequenceTheorems, TLAPS

-----------------------------------------------------------------------------
(***************************************************************************)
(* The diff of a sync is exact.                                            *)
(***************************************************************************)

\* The fields of job, and what the source of a diff can be besides a database.
Fields ==
  {"op", "noCache", "migrations", "declared", "source", "target", "change", "file",
   "shadow", "quiet"}

SourceKinds == {"baseline", "migrations", "nocache-baseline", "nocache-migrations"}

\* The domains of the two functions that steps change field by field.
Shapes == DOMAIN job = Fields /\ DOMAIN snapshots = {"migrations", "declared"}

\* A catalog made in a shadow database is what its hash makes.
CatalogsTrue ==
  /\ \A s \in snapshots["migrations"] : s.by = "shadow" => s.catalog = Made(s.hash)
  /\ \A s \in snapshots["declared"] : s.by = "shadow" => s.catalog = s.hash

\* The same of the two files chosen, for the hashes that the command holds.
SourceTrue ==
  \A s \in At(job.source) : s.by = "shadow" => s.catalog = Made(job.migrations)
TargetTrue ==
  \A s \in At(job.target) : s.by = "shadow" => s.catalog = job.declared

\* The source is a file, and where a command relies on a choice, it is true.
RefsTrue ==
  /\ job.source.kind \in SourceKinds
  /\ place \in {"target", "targetShadow", "diff", "save"} => SourceTrue
  /\ place \in {"diff", "save"} /\ job.op = "sync" =>
       job.target.kind # "database" /\ TargetTrue

\* The invariant behind SyncIsAlwaysExact.
SyncInv == Shapes /\ CatalogsTrue /\ RefsTrue /\ SyncIsExact

\* A diff can be applied to its source, and makes its target of it.
LEMMA BetweenIsExact ==
  ASSUME NEW s, NEW t
  PROVE  CanAlter(s, Between(s, t)) /\ Alter(s, Between(s, t)) = t
  BY DEF CanAlter, Alter, Between

\* Without migrations there is nothing, as in a catalog without a date.
LEMMA MadeOfNone == Made(<<>>) = {}
  BY DEF Made, AlterAll

\* A command begins with the fields of job, and with a file as its source.
LEMMA JobShape ==
  ASSUME NEW op, NEW b
  PROVE  /\ DOMAIN Job(op, b) = Fields
         /\ Job(op, b).source.kind \in SourceKinds
         /\ Job(op, b).op = op
  BY DEF Job, Fields, FileRef, SourceKinds

\* The invariant holds at first: a former version's catalog is of no files.
LEMMA InitSync == SchemaInit => SyncInv
  <1> SUFFICES ASSUME SchemaInit PROVE SyncInv
    OBVIOUS
  <1>1. Shapes
    BY JobShape DEF SchemaInit, Shapes
  <1>2. CatalogsTrue
    <2>1. PICK legacy \in {{}, {Empty}} :
            snapshots = [migrations |-> legacy, declared |-> {}]
      BY DEF SchemaInit
    <2>2. snapshots["migrations"] = legacy /\ snapshots["declared"] = {}
      BY <2>1
    <2>3. Empty.catalog = {} /\ Empty.hash = <<>>
      BY DEF Empty
    <2> QED BY <2>2, <2>3, MadeOfNone DEF CatalogsTrue
  <1>3. RefsTrue /\ SyncIsExact
    BY JobShape DEF SchemaInit, RefsTrue, SyncIsExact
  <1> QED BY <1>1, <1>2, <1>3 DEF SyncInv

\* What an export adds.
LEMMA ExportsTrue ==
  ASSUME Shapes, CatalogsTrue, NEW kind \in {"migrations", "declared"}, NEW s,
         s.by = "shadow" =>
           s.catalog = IF kind = "migrations" THEN Made(s.hash) ELSE s.hash,
         Keeps(kind, s)
  PROVE  /\ DOMAIN snapshots' = {"migrations", "declared"} /\ CatalogsTrue'
         /\ \A k \in {"migrations", "declared"} \ {kind} : snapshots'[k] = snapshots[k]
  <1>1. snapshots' = Retained(kind, s)
    BY DEF Keeps
  <1>2. DOMAIN snapshots' = DOMAIN snapshots
        /\ \A k \in DOMAIN snapshots : k # kind => snapshots'[k] = snapshots[k]
    BY <1>1 DEF Retained
  <1>3. snapshots'[kind] \subseteq snapshots[kind] \cup {s}
    BY <1>1 DEF Retained, Shapes
  <1>4. CatalogsTrue'
    BY <1>2, <1>3 DEF CatalogsTrue, Shapes
  <1> QED BY <1>2, <1>4 DEF Shapes

\* Where a command relies on what it has chosen.
Resolved == {"target", "targetShadow", "diff", "save"}

\* Where a command relies on no choice, the catalogs are all there is to keep.
LEMMA Leaves ==
  ASSUME Shapes', CatalogsTrue', job'.source.kind \in SourceKinds, place' \notin Resolved
  PROVE  SyncInv'
  BY DEF SyncInv, RefsTrue, SyncIsExact, Resolved

\* The same for a step that writes no dated catalog.
LEMMA LeavesWithoutExport ==
  ASSUME SyncInv, snapshots' = snapshots, DOMAIN job' = Fields,
         job'.source.kind \in SourceKinds, place' \notin Resolved
  PROVE  SyncInv'
  <1>1. Shapes' /\ CatalogsTrue'
    BY DEF SyncInv, Shapes, CatalogsTrue
  <1> QED BY <1>1, Leaves

\* A command that ends relies on nothing.
LEMMA DoneLeaves ==
  ASSUME SyncInv, snapshots' = snapshots, Done
  PROVE  SyncInv'
  BY JobShape, LeavesWithoutExport DEF Done, Resolved

\* A reference to a file is good until the files change.
LEMMA StaysThere ==
  ASSUME snapshots' = snapshots, baseline' = baseline, temp' = temp
  PROVE  /\ job.source.kind \in SourceKinds /\ job'.source = job.source =>
              At(job.source)' = At(job.source) /\ Read(job.source)' = Read(job.source)
         /\ job.target.kind # "database" /\ job'.target = job.target =>
              At(job.target)' = At(job.target) /\ Read(job.target)' = Read(job.target)
  <1>1. ASSUME job.source.kind \in SourceKinds, job'.source = job.source
        PROVE  At(job.source)' = At(job.source)
    BY <1>1 DEF At, SourceKinds
  <1>2. ASSUME job.target.kind # "database", job'.target = job.target
        PROVE  At(job.target)' = At(job.target)
    BY <1>2 DEF At
  <1> QED BY <1>1, <1>2 DEF Read

\* The steps that choose nothing and write no dated catalog.
LEMMA SimpleSteps ==
  ASSUME SyncInv
  PROVE  /\ Begin => SyncInv'
         /\ CommandFails => SyncInv'
         /\ Export => SyncInv'
         /\ DeclineOverwrite => SyncInv'
         /\ WriteDeclarativeSchemas => SyncInv'
         /\ WarmCache => SyncInv'
         /\ DeclineApply => SyncInv'
         /\ ApplyToLocal => SyncInv'
         /\ DiffToFile => SyncInv'
         /\ AssertRemoteInSync => SyncInv'
         /\ DumpRemoteSchema => SyncInv'
         /\ SecondPass => SyncInv'
         /\ DiffRemoteSchema => SyncInv'
         /\ UpdateHistory => SyncInv'
         /\ SaveMigration => SyncInv'
         /\ GenerateBaseline => SyncInv'
  <1> USE DEF store, Goto, GoOn, Resolved
  <1>0. DOMAIN job = Fields /\ job.source.kind \in SourceKinds
    BY DEF SyncInv, Shapes, RefsTrue
  <1>1. ASSUME Begin PROVE SyncInv'
    <2>1. PICK op \in Ops, noCache \in BOOLEAN : job' = Job(op, noCache) /\ place' = Entry(op)
      BY <1>1 DEF Begin
    <2>2. Entry(op) \notin Resolved
      BY DEF Entry, Ops
    <2> QED BY <1>1, <2>1, <2>2, JobShape, LeavesWithoutExport DEF Begin
  <1>2. ASSUME CommandFails PROVE SyncInv'
    BY <1>2, DoneLeaves DEF CommandFails
  <1>3. ASSUME Export PROVE SyncInv'
    BY <1>0, <1>3, LeavesWithoutExport DEF Export, Fields
  <1>4. ASSUME DeclineOverwrite PROVE SyncInv'
    BY <1>4, DoneLeaves DEF DeclineOverwrite
  <1>5. ASSUME WriteDeclarativeSchemas PROVE SyncInv'
    BY <1>0, <1>5, DoneLeaves, LeavesWithoutExport DEF WriteDeclarativeSchemas
  <1>6. ASSUME WarmCache PROVE SyncInv'
    BY <1>0, <1>6, DoneLeaves, LeavesWithoutExport DEF WarmCache, EndsGenerate, Fields
  <1>7. ASSUME DeclineApply PROVE SyncInv'
    BY <1>7, DoneLeaves DEF DeclineApply
  <1>8. ASSUME ApplyToLocal PROVE SyncInv'
    BY <1>0, <1>8, DoneLeaves, LeavesWithoutExport DEF ApplyToLocal
  <1>9. ASSUME DiffToFile PROVE SyncInv'
    BY <1>9, DoneLeaves DEF DiffToFile
  <1>10. ASSUME AssertRemoteInSync PROVE SyncInv'
    BY <1>0, <1>10, LeavesWithoutExport DEF AssertRemoteInSync
  <1>11. ASSUME DumpRemoteSchema PROVE SyncInv'
    BY <1>0, <1>11, DoneLeaves, LeavesWithoutExport DEF DumpRemoteSchema, NewMigration, Fields
  <1>12. ASSUME SecondPass PROVE SyncInv'
    BY <1>0, <1>12, LeavesWithoutExport DEF SecondPass
  <1>13. ASSUME DiffRemoteSchema PROVE SyncInv'
    BY <1>0, <1>13, LeavesWithoutExport DEF DiffRemoteSchema, NewMigration, Fields
  <1>14. ASSUME UpdateHistory PROVE SyncInv'
    <2>1. snapshots' = snapshots
      BY <1>14 DEF UpdateHistory
    <2>2. CASE Done
      BY <2>1, <2>2, DoneLeaves
    <2>3. CASE place' = "idle" /\ job' = Job("none", FALSE)
      BY <2>1, <2>3, JobShape, LeavesWithoutExport
    <2> QED BY <1>14, <2>2, <2>3 DEF UpdateHistory
  <1>15. ASSUME SaveMigration PROVE SyncInv'
    BY <1>0, <1>15, DoneLeaves, LeavesWithoutExport DEF SaveMigration, NewMigration, Fields
  <1>16. ASSUME GenerateBaseline PROVE SyncInv'
    BY <1>0, <1>16, LeavesWithoutExport
       DEF GenerateBaseline, FileRef, TempName, Fields, SourceKinds
  <1> QED BY <1>1, <1>2, <1>3, <1>4, <1>5, <1>6, <1>7, <1>8, <1>9, <1>10, <1>11, <1>12,
             <1>13, <1>14, <1>15, <1>16

\* The catalog cached by db reset and db push claims to be of a live database only.
LEMMA TryCacheTrue ==
  ASSUME SyncInv, NEW b \in BOOLEAN, NEW schema, TryCache(b, schema)
  PROVE  DOMAIN snapshots' = {"migrations", "declared"} /\ CatalogsTrue'
  <1>1. CASE UNCHANGED store
    BY <1>1 DEF store, SyncInv, Shapes, CatalogsTrue
  <1>2. CASE Keeps("migrations", Snapshot(migrations, schema, "live"))
    <2>1. Snapshot(migrations, schema, "live").by # "shadow"
      BY DEF Snapshot
    <2> QED BY <1>2, <2>1, ExportsTrue DEF SyncInv
  <1> QED BY <1>1, <1>2 DEF TryCache

\* So a command that ends with it keeps the invariant.
LEMMA LeavesWithCatalog ==
  ASSUME SyncInv, NEW b \in BOOLEAN, NEW schema, TryCache(b, schema), Done
  PROVE  SyncInv'
  BY TryCacheTrue, JobShape, Leaves DEF Done, Resolved, Shapes

\* db reset is such a command, with a version and without.
LEMMA ResetTrue ==
  ASSUME SyncInv, NEW n, NEW b \in BOOLEAN, ResetTo(n, b)
  PROVE  SyncInv'
  <1> DEFINE asked == SubSeq(migrations, 1, n)
             done == Applicable({}, asked)
             schema == Made(SubSeq(asked, 1, done))
             complete == done = Len(asked)
             seeded == IF complete THEN schema \cup SeedThings ELSE schema
  <1>1. TryCache(complete /\ ~b, seeded) /\ Done
    BY DEF ResetTo
  <1> HIDE DEF seeded, complete
  <1>2. (complete /\ ~b) \in BOOLEAN
    BY DEF complete
  <1> QED BY <1>1, <1>2, LeavesWithCatalog

\* The steps that end with that catalog.
LEMMA CachingSteps ==
  ASSUME SyncInv
  PROVE  /\ Reset => SyncInv'
         /\ ResetAfterSync => SyncInv'
         /\ PushMigrations => SyncInv'
  <1>1. ASSUME Reset PROVE SyncInv'
    BY <1>1, ResetTrue DEF Reset
  <1>2. ASSUME ResetAfterSync PROVE SyncInv'
    BY <1>2, ResetTrue DEF ResetAfterSync
  <1>3. ASSUME PushMigrations PROVE SyncInv'
    <2> DEFINE k == Cardinality(database.applied)
               pending == SubSeq(migrations, k + 1, Len(migrations))
               done == Applicable(database.schema, pending)
               schema == AlterAll(database.schema, SubSeq(pending, 1, done))
               complete == done = Len(pending)
    <2>1. TryCache(complete, schema) /\ Done
      BY <1>3 DEF PushMigrations
    <2> HIDE DEF schema
    <2>2. complete \in BOOLEAN
      OBVIOUS
    <2> QED BY <2>1, <2>2, LeavesWithCatalog
  <1> QED BY <1>1, <1>2, <1>3

\* Edits of files and of the database change no catalog and no file chosen.
LEMMA Edits ==
  ASSUME SyncInv, Disturbs
  PROVE  SyncInv'
  <1>1. /\ snapshots' = snapshots /\ baseline' = baseline /\ temp' = temp
        /\ place' = place
    BY DEF Disturbs, store
  <1>2. /\ DOMAIN job' = Fields
        /\ job'.source = job.source /\ job'.target = job.target /\ job'.op = job.op
        /\ job'.migrations = job.migrations /\ job'.declared = job.declared
        /\ job'.change = job.change
    BY DEF Disturbs, SyncInv, Shapes, Fields
  <1>3. Shapes' /\ CatalogsTrue'
    BY <1>1, <1>2 DEF SyncInv, Shapes, CatalogsTrue
  <1>4. At(job.source)' = At(job.source) /\ Read(job.source)' = Read(job.source)
    BY <1>1, <1>2, StaysThere DEF SyncInv, RefsTrue
  <1>5. job.target.kind # "database" =>
          At(job.target)' = At(job.target) /\ Read(job.target)' = Read(job.target)
    BY <1>1, <1>2, StaysThere
  <1>6. SourceTrue => SourceTrue'
    BY <1>2, <1>4 DEF SourceTrue
  <1>7. job.target.kind # "database" /\ TargetTrue => TargetTrue'
    BY <1>2, <1>5 DEF TargetTrue
  <1>8. RefsTrue'
    BY <1>1, <1>2, <1>6, <1>7 DEF SyncInv, RefsTrue
  <1>9. SyncIsExact'
    BY <1>1, <1>2, <1>4, <1>5 DEF SyncInv, SyncIsExact, RefsTrue
  <1> QED BY <1>3, <1>8, <1>9 DEF SyncInv

\* A catalog found under the migrations' hash is what they make.
LEMMA ResolveSourceStep == SyncInv /\ ResolveSource => SyncInv'
  <1> SUFFICES ASSUME SyncInv, ResolveSource PROVE SyncInv'
    OBVIOUS
  <1> DEFINE known == [job EXCEPT !.migrations = migrations,
                         !.target = IF job.op = "sync" THEN @ ELSE FileRef("database")]
             found == Found("migrations", migrations)
             ref == Ref("migrations", migrations, Latest(found))
  <1>1. snapshots' = snapshots /\ baseline' = baseline /\ temp' = temp
    BY DEF ResolveSource, store
  <1>2. /\ DOMAIN known = Fields /\ known.migrations = migrations
        /\ known.op = job.op /\ known.source.kind \in SourceKinds
    BY DEF SyncInv, Shapes, RefsTrue, Fields
  <1>3. CASE UsesBaseline
    <2>1. /\ place' = "target" /\ job' = [known EXCEPT !.source = FileRef("baseline")]
          /\ migrations = <<>>
      BY <1>3 DEF ResolveSource, Goto, UsesBaseline
    <2> HIDE DEF known
    <2>2. /\ DOMAIN job' = Fields /\ job'.source.kind = "baseline"
          /\ job'.migrations = <<>>
      BY <1>2, <2>1 DEF FileRef, Fields
    <2>3. Shapes' /\ CatalogsTrue'
      BY <1>1, <2>2 DEF SyncInv, Shapes, CatalogsTrue
    <2>4. \A s \in At(job.source)' : s = Empty
      BY <2>2 DEF At
    <2>5. SourceTrue'
      <3>1. Empty.catalog = {}
        BY DEF Empty
      <3> QED BY <2>2, <2>4, <3>1, MadeOfNone DEF SourceTrue
    <2> QED BY <2>1, <2>2, <2>3, <2>5 DEF SyncInv, RefsTrue, SyncIsExact, SourceKinds
  <1>4. CASE ~UsesBaseline /\ found # {}
    <2>1. place' = AfterSource /\ job' = [known EXCEPT !.source = ref]
      BY <1>4 DEF ResolveSource, Goto
    <2>2. place' \in {"target", "diff"} /\ (place' = "diff" => job.op # "sync")
      BY <2>1 DEF AfterSource
    <2> HIDE DEF known
    <2>3. /\ DOMAIN job' = Fields /\ job'.op = job.op
          /\ job'.source.kind = "migrations" /\ job'.source.hash = migrations
          /\ job'.migrations = migrations
      BY <1>2, <2>1 DEF Ref, Fields
    <2>4. Shapes' /\ CatalogsTrue'
      BY <1>1, <2>3 DEF SyncInv, Shapes, CatalogsTrue
    <2>5. \A s \in At(job.source)' : s \in snapshots["migrations"] /\ s.hash = migrations
      BY <1>1, <2>3 DEF At
    <2>6. SourceTrue'
      BY <2>3, <2>5 DEF SourceTrue, SyncInv, CatalogsTrue
    <2> QED BY <2>2, <2>3, <2>4, <2>6 DEF SyncInv, RefsTrue, SyncIsExact, SourceKinds
  <1>5. CASE ~UsesBaseline /\ found = {}
    <2>1. place' = "sourceShadow" /\ job' = known
      BY <1>5 DEF ResolveSource, Goto
    <2> HIDE DEF known
    <2> QED BY <1>1, <1>2, <2>1, LeavesWithoutExport DEF Resolved
  <1> QED BY <1>3, <1>4, <1>5

\* A catalog made of the migrations is too, unless they were edited meanwhile.
LEMMA MigrateShadowStep == SyncInv /\ MigrateShadow => SyncInv'
  <1> SUFFICES ASSUME SyncInv, MigrateShadow PROVE SyncInv'
    OBVIOUS
  <1> DEFINE by == IF migrations = job.migrations THEN "shadow" ELSE "raced"
             made == Snapshot(job.migrations, Made(migrations), by)
             ref == ExportRef("migrations", made)
  <1>1. /\ place' = AfterSource /\ Exports("migrations", made)
        /\ job' = [job EXCEPT !.source = ref]
    BY DEF MigrateShadow, Goto
  <1>2. /\ made.hash = job.migrations
        /\ made.by = "shadow" => made.catalog = Made(job.migrations)
    BY DEF Snapshot
  <1> HIDE DEF made
  <1>3. /\ DOMAIN job' = Fields /\ job'.migrations = job.migrations
        /\ job'.op = job.op /\ job'.source = ref
    BY <1>1 DEF SyncInv, Shapes, Fields
  <1>4. place' \in {"target", "diff"} /\ (place' = "diff" => job.op # "sync")
    BY <1>1 DEF AfterSource
  <1>5. CASE job.noCache
    <2>1. WriteTemp("migrations", made) /\ snapshots' = snapshots
          /\ ref.kind = "nocache-migrations"
      BY <1>1, <1>5 DEF Exports, ExportRef, FileRef, TempName
    <2>2. temp'["nocache-migrations"] = made
      BY <2>1 DEF WriteTemp, TempName
    <2>3. At(job.source)' \subseteq {made}
      BY <1>3, <2>1, <2>2 DEF At
    <2>4. Shapes' /\ CatalogsTrue'
      BY <1>3, <2>1 DEF SyncInv, Shapes, CatalogsTrue
    <2>5. SourceTrue'
      BY <1>2, <1>3, <2>3 DEF SourceTrue
    <2> QED BY <1>3, <1>4, <2>1, <2>4, <2>5 DEF SyncInv, RefsTrue, SyncIsExact, SourceKinds
  <1>6. CASE ~job.noCache
    <2>1. Keeps("migrations", made) /\ ref.kind = "migrations" /\ ref.hash = job.migrations
      BY <1>1, <1>2, <1>6 DEF Exports, ExportRef, Ref
    <2>2. DOMAIN snapshots' = {"migrations", "declared"} /\ CatalogsTrue'
      BY <1>2, <2>1, ExportsTrue DEF SyncInv
    <2>3. \A s \in At(job.source)' : s \in snapshots'["migrations"] /\ s.hash = job.migrations
      BY <1>3, <2>1 DEF At
    <2>4. SourceTrue'
      BY <1>3, <2>2, <2>3 DEF SourceTrue, CatalogsTrue
    <2> QED BY <1>3, <1>4, <2>1, <2>2, <2>4
            DEF SyncInv, Shapes, RefsTrue, SyncIsExact, SourceKinds
  <1> QED BY <1>5, <1>6

\* The source stays what it was, and the target is what was declared.
LEMMA TargetResolved ==
  ASSUME SyncInv, Shapes', CatalogsTrue', place \in {"target", "targetShadow"},
         place' \in {"targetShadow", "diff"},
         job'.source = job.source, job'.migrations = job.migrations,
         At(job.source)' = At(job.source),
         place' = "diff" => job'.target.kind # "database" /\ TargetTrue'
  PROVE  SyncInv'
  <1>1. SourceTrue'
    BY DEF SyncInv, RefsTrue, SourceTrue
  <1> QED BY <1>1 DEF SyncInv, RefsTrue, SyncIsExact

\* A catalog found under the declarative files' hash is what they declare.
LEMMA ResolveTargetStep == SyncInv /\ ResolveTarget => SyncInv'
  <1> SUFFICES ASSUME SyncInv, ResolveTarget PROVE SyncInv'
    OBVIOUS
  <1> DEFINE known == [job EXCEPT !.declared = declared]
             found == Found("declared", declared)
             ref == Ref("declared", declared, Latest(found))
  <1>1. snapshots' = snapshots /\ baseline' = baseline /\ temp' = temp
    BY DEF ResolveTarget, store
  <1>2. /\ DOMAIN known = Fields /\ known.declared = declared
        /\ known.migrations = job.migrations /\ known.source = job.source
        /\ job.source.kind \in SourceKinds
    BY DEF SyncInv, Shapes, RefsTrue, Fields
  <1>3. CASE place = "warmTarget" /\ found = {}
    <2>1. place' = "warmShadow" /\ job' = known
      BY <1>3 DEF ResolveTarget, Goto
    <2> HIDE DEF known
    <2> QED BY <1>1, <1>2, <2>1, LeavesWithoutExport DEF Resolved
  <1>4. CASE place = "warmTarget" /\ found # {}
    <2>1. EndsGenerate
      BY <1>4 DEF ResolveTarget
    <2>2. CASE Done
      BY <1>1, <2>2, DoneLeaves
    <2>3. CASE place' = "source" /\ job' = [job EXCEPT !.shadow = FALSE]
      BY <1>1, <1>2, <2>3, LeavesWithoutExport DEF Resolved, SyncInv, Shapes, Fields
    <2> QED BY <2>1, <2>2, <2>3 DEF EndsGenerate, Goto
  <1>5. CASE place = "target" /\ found = {}
    <2>1. place' = "targetShadow" /\ job' = known
      BY <1>5 DEF ResolveTarget, Goto
    <2> HIDE DEF known
    <2>2. Shapes' /\ CatalogsTrue'
      BY <1>1, <1>2, <2>1 DEF SyncInv, Shapes, CatalogsTrue
    <2>3. At(job.source)' = At(job.source)
      BY <1>1, <1>2, <2>1, StaysThere
    <2> QED BY <1>2, <1>5, <2>1, <2>2, <2>3, TargetResolved
  <1>6. CASE place = "target" /\ found # {}
    <2>1. place' = "diff" /\ job' = [known EXCEPT !.target = ref]
      BY <1>6 DEF ResolveTarget, Goto
    <2> HIDE DEF known
    <2>2. /\ DOMAIN job' = Fields /\ job'.source = job.source
          /\ job'.migrations = job.migrations /\ job'.declared = declared
          /\ job'.target.kind = "declared" /\ job'.target.hash = declared
      BY <1>2, <2>1 DEF Ref, Fields
    <2>3. Shapes' /\ CatalogsTrue'
      BY <1>1, <2>2 DEF SyncInv, Shapes, CatalogsTrue
    <2>4. At(job.source)' = At(job.source)
      BY <1>1, <1>2, <2>2, StaysThere
    <2>5. \A s \in At(job.target)' : s \in snapshots["declared"] /\ s.hash = declared
      BY <1>1, <2>2 DEF At
    <2>6. TargetTrue'
      BY <2>2, <2>5 DEF TargetTrue, SyncInv, CatalogsTrue
    <2> QED BY <1>6, <2>1, <2>2, <2>3, <2>4, <2>6, TargetResolved
  <1>7. place \in {"target", "warmTarget"}
    BY DEF ResolveTarget
  <1> QED BY <1>3, <1>4, <1>5, <1>6, <1>7

\* A catalog made of them is too, and neither it nor its clean-up changes the source.
LEMMA ApplyDeclarativeStep == SyncInv /\ ApplyDeclarative => SyncInv'
  <1> SUFFICES ASSUME SyncInv, ApplyDeclarative PROVE SyncInv'
    OBVIOUS
  <1> DEFINE by == IF declared = job.declared THEN "shadow" ELSE "raced"
             made == Snapshot(job.declared, declared, by)
             ref == ExportRef("declared", made)
  <1>1. Exports("declared", made) /\ place \in {"targetShadow", "warmShadow"}
    BY DEF ApplyDeclarative
  <1>2. /\ made.hash = job.declared
        /\ made.by = "shadow" => made.catalog = job.declared
    BY DEF Snapshot
  <1>3. DOMAIN job = Fields /\ job.source.kind \in SourceKinds
    BY DEF SyncInv, Shapes, RefsTrue
  <1>4. /\ DOMAIN snapshots' = {"migrations", "declared"} /\ CatalogsTrue'
        /\ snapshots'["migrations"] = snapshots["migrations"] /\ baseline' = baseline
    <2> HIDE DEF made
    <2>1. CASE job.noCache
      BY <1>1, <2>1 DEF Exports, SyncInv, Shapes, CatalogsTrue
    <2>2. CASE ~job.noCache
      <3>1. Keeps("declared", made)
        BY <1>1, <2>2 DEF Exports
      <3> QED BY <1>2, <3>1, ExportsTrue DEF SyncInv, Keeps
    <2> QED BY <2>1, <2>2
  <1>5. CASE place = "warmShadow"
    <2>1. EndsGenerate
      BY <1>5 DEF ApplyDeclarative
    <2>2. CASE Done
      BY <1>4, <2>2, JobShape, Leaves DEF Done, Resolved, Shapes
    <2>3. CASE place' = "source" /\ job' = [job EXCEPT !.shadow = FALSE]
      BY <1>3, <1>4, <2>3, Leaves DEF Resolved, Shapes, Fields
    <2> QED BY <2>1, <2>2, <2>3 DEF EndsGenerate, Goto
  <1>6. CASE place = "targetShadow"
    <2>1. place' = "diff" /\ job' = [job EXCEPT !.target = ref]
      BY <1>6 DEF ApplyDeclarative, Goto
    <2> HIDE DEF made
    <2>2. /\ DOMAIN job' = Fields /\ job'.source = job.source /\ job'.target = ref
          /\ job'.migrations = job.migrations /\ job'.declared = job.declared
      BY <1>3, <2>1 DEF Fields
    <2>3. Shapes'
      BY <1>4, <2>2 DEF Shapes
    <2>4. At(job.source)' = At(job.source) /\ ref.kind # "database" /\ TargetTrue'
      <3>1. CASE job.noCache
        <4>1. /\ temp' = [n \in DOMAIN temp \cup {"nocache-declarative"} |->
                           IF n = "nocache-declarative" THEN made ELSE temp[n]]
              /\ snapshots' = snapshots /\ ref.kind = "nocache-declarative"
          BY <1>1, <3>1 DEF Exports, WriteTemp, ExportRef, FileRef, TempName
        <4>2. At(job.source)' = At(job.source)
          BY <1>3, <1>4, <2>2, <4>1 DEF At, SourceKinds
        <4>3. At(job.target)' \subseteq {made}
          BY <2>2, <4>1 DEF At
        <4> QED BY <1>2, <2>2, <4>1, <4>2, <4>3 DEF TargetTrue
      <3>2. CASE ~job.noCache
        <4>1. /\ temp' = temp
              /\ ref.kind = "declared" /\ ref.hash = job.declared
          BY <1>1, <1>2, <3>2 DEF Exports, Keeps, ExportRef, Ref
        <4>2. At(job.source)' = At(job.source)
          BY <1>3, <1>4, <2>2, <4>1 DEF At, SourceKinds
        <4>3. \A s \in At(job.target)' :
                s \in snapshots'["declared"] /\ s.hash = job.declared
          BY <2>2, <4>1 DEF At
        <4> QED BY <1>4, <2>2, <4>1, <4>2, <4>3 DEF TargetTrue, CatalogsTrue
      <3> QED BY <3>1, <3>2
    <2> QED BY <1>4, <1>6, <2>1, <2>2, <2>3, <2>4, TargetResolved
  <1> QED BY <1>1, <1>5, <1>6

\* The diff of two true catalogs is exact.
LEMMA DiffRefsStep == SyncInv /\ DiffRefs => SyncInv'
  <1> SUFFICES ASSUME SyncInv, DiffRefs PROVE SyncInv'
    OBVIOUS
  <1> DEFINE source == Read(job.source)
             target == Read(job.target)
  <1>1. /\ snapshots' = snapshots /\ baseline' = baseline /\ temp' = temp
        /\ place = "diff" /\ place' = "save"
        /\ job' = [job EXCEPT !.change = Between(source.catalog, target.catalog)]
    BY DEF DiffRefs, Goto, store
  <1>2. source \in At(job.source) /\ target \in At(job.target)
    BY DEF DiffRefs, Read
  <1> HIDE DEF source, target
  <1>3. /\ DOMAIN job' = Fields /\ job'.op = job.op
        /\ job'.source = job.source /\ job'.target = job.target
        /\ job'.migrations = job.migrations /\ job'.declared = job.declared
        /\ job'.change = Between(source.catalog, target.catalog)
    BY <1>1 DEF SyncInv, Shapes, Fields
  <1>4. Shapes' /\ CatalogsTrue'
    BY <1>1, <1>3 DEF SyncInv, Shapes, CatalogsTrue
  <1>5. At(job.source)' = At(job.source) /\ Read(job.source)' = source
    BY <1>1, <1>3, StaysThere DEF SyncInv, RefsTrue, source
  <1>6. job.op = "sync" => At(job.target)' = At(job.target) /\ Read(job.target)' = target
    BY <1>1, <1>3, StaysThere DEF SyncInv, RefsTrue, target
  <1>7. SourceTrue /\ (job.op = "sync" => TargetTrue /\ job.target.kind # "database")
    BY <1>1 DEF SyncInv, RefsTrue
  <1>8. RefsTrue'
    BY <1>1, <1>3, <1>5, <1>6, <1>7 DEF SyncInv, RefsTrue, SourceTrue, TargetTrue
  <1>9. SyncIsExact'
    <2>1. source.by = "shadow" => source.catalog = Made(job.migrations)
      BY <1>2, <1>7 DEF SourceTrue
    <2>2. job.op = "sync" /\ target.by = "shadow" => target.catalog = job.declared
      BY <1>2, <1>7 DEF TargetTrue
    <2> QED BY <1>3, <1>5, <1>6, <2>1, <2>2, BetweenIsExact DEF SyncIsExact
  <1> QED BY <1>4, <1>8, <1>9 DEF SyncInv

\* The invariant depends on the variables only.
LEMMA Stutters == SyncInv /\ UNCHANGED schemaVars => SyncInv'
  BY DEF SyncInv, Shapes, CatalogsTrue, RefsTrue, SourceTrue, TargetTrue, SyncIsExact,
     At, Read, Live, schemaVars, sides, store, bounds

\* Every step keeps the invariant.
LEMMA SyncStep == SyncInv /\ [SchemaNext]_schemaVars => SyncInv'
  <1> SUFFICES ASSUME SyncInv, [SchemaNext]_schemaVars PROVE SyncInv'
    OBVIOUS
  <1>1. CASE EditMigrations \/ EditDeclared \/ AlterDatabase
    BY <1>1, Edits DEF EditMigrations, EditDeclared, AlterDatabase
  <1> QED BY <1>1, SimpleSteps, CachingSteps, ResolveSourceStep, MigrateShadowStep,
             ResolveTargetStep, ApplyDeclarativeStep, DiffRefsStep, Stutters
          DEF SchemaNext

(***************************************************************************)
(* declarative sync and db diff --from migrations: whatever other commands *)
(* have left in the cache and whatever is edited meanwhile, the change     *)
(* about to be written takes the migrations, as they were hashed, to the   *)
(* schema that was declared.                                               *)
(***************************************************************************)
THEOREM SyncIsAlwaysExact == SchemaSpec => []SyncIsExact
  <1>1. SyncInv => SyncIsExact
    BY DEF SyncInv
  <1> QED BY <1>1, InitSync, SyncStep, PTL DEF SchemaSpec

-----------------------------------------------------------------------------
(***************************************************************************)
(* What a command has chosen is there when it is read.                     *)
(***************************************************************************)

\* A set of natural numbers that is not empty has a least one.
LEMMA HasLeast ==
  ASSUME NEW T, T \subseteq Nat, T # {}
  PROVE  \E x \in T : \A y \in T : x <= y
  <1> DEFINE R == StrictSubsetOrdering(Nat)
             U == {1 .. x : x \in T}
  <1>0. IsWellFoundedOn(R, FiniteSubsetsOf(Nat))
    BY FS_StrictSubsetOrderingWellFounded
  <1>1. U \subseteq FiniteSubsetsOf(Nat) /\ U # {}
    <2>1. ASSUME NEW x \in T PROVE 1 .. x \in FiniteSubsetsOf(Nat)
      <3>1. x \in Int /\ 1 \in Int /\ 1 .. x \in SUBSET Nat
        OBVIOUS
      <3> QED BY <3>1, FS_Interval DEF FiniteSubsetsOf
    <2> QED BY <2>1
  <1>2. PICK u \in U : \A v \in U : <<v, u>> \notin R
    <2> HIDE DEF R, U
    <2> QED BY <1>0, <1>1, WFMin
  <1>3. PICK x \in T : u = 1 .. x
    OBVIOUS
  <1>4. ASSUME NEW y \in T, y < x
        PROVE  FALSE
    <2>1. 1 .. y \in U /\ 1 .. y \subseteq 1 .. x /\ x \in 1 .. x /\ x \notin 1 .. y
      BY <1>4
    <2>2. 1 .. y \in SUBSET Nat /\ 1 .. x \in SUBSET Nat
      OBVIOUS
    <2>3. <<1 .. y, 1 .. x>> \in R
      BY <2>1, <2>2 DEF StrictSubsetOrdering
    <2> QED BY <1>2, <1>3, <2>1, <2>3
  <1> QED BY <1>4

\* Of catalogs whose times are bounded there is a latest one, if there are any.
LEMMA LatestIsThere ==
  ASSUME NEW S, S # {}, NEW n \in Nat, \A s \in S : s.at \in 0 .. n
  PROVE  Latest(S) \in S
  <1> DEFINE T == {n - s.at : s \in S}
  <1>1. T \subseteq Nat /\ T # {}
    OBVIOUS
  <1>2. PICK t \in T : \A u \in T : t <= u
    BY <1>1, HasLeast
  <1>3. PICK s \in S : t = n - s.at
    OBVIOUS
  <1>4. ASSUME NEW u \in S PROVE u.at <= s.at
    <2>1. n - s.at <= n - u.at
      BY <1>2, <1>3
    <2> QED BY <2>1
  <1> QED BY <1>4 DEF Latest

\* No catalog is newer than the clock.
Times ==
  /\ clock \in Nat
  /\ \A k \in {"migrations", "declared"} : \A s \in snapshots[k] : s.at \in 0 .. clock

\* The invariant behind RefsAreReadable, on top of SyncInv.
ReadInv ==
  /\ Times
  /\ place = "baseline" => job.source.kind = "baseline"
  /\ place = "sourceShadow" /\ job.op # "sync" => job.target.kind = "database"
  /\ RefsReadable

\* It holds at first: nothing is chosen yet.
LEMMA InitRead == SchemaInit => ReadInv
  <1> SUFFICES ASSUME SchemaInit PROVE ReadInv
    OBVIOUS
  <1>1. Times
    <2>1. PICK legacy \in {{}, {Empty}} :
            snapshots = [migrations |-> legacy, declared |-> {}]
      BY DEF SchemaInit
    <2>2. snapshots["migrations"] = legacy /\ snapshots["declared"] = {} /\ clock = 0
      BY <2>1 DEF SchemaInit
    <2>3. Empty.at = 0
      BY DEF Empty
    <2> QED BY <2>2, <2>3 DEF Times
  <1> QED BY <1>1 DEF SchemaInit, ReadInv, RefsReadable

\* The catalog just written is the newest of its family, and the clean-up keeps it.
LEMMA KeepsReadable ==
  ASSUME SyncInv, Times, NEW kind \in {"migrations", "declared"}, NEW s,
         s.at = clock + 1, Keeps(kind, s)
  PROVE  Times' /\ s \in snapshots'[kind]
  <1> DEFINE all == snapshots[kind] \cup {s}
             newer(x) == Cardinality({y \in all : y.at > x.at})
  <1>1. /\ snapshots' =
             [snapshots EXCEPT ![kind] = {x \in all : newer(x) < catalogRetentionCount}]
        /\ clock' = clock + 1
    BY DEF Keeps, Retained
  <1>2. DOMAIN snapshots = {"migrations", "declared"}
    BY DEF SyncInv, Shapes
  <1>3. /\ snapshots'[kind] = {x \in all : newer(x) < catalogRetentionCount}
        /\ \A k \in {"migrations", "declared"} : k # kind => snapshots'[k] = snapshots[k]
    BY <1>1, <1>2
  <1>4. \A y \in snapshots[kind] : y.at \in 0 .. clock
    BY DEF Times
  <1>5. {y \in all : y.at > s.at} = {}
    BY <1>4 DEF Times
  <1>6. newer(s) < catalogRetentionCount
    <2>1. newer(s) = Cardinality({})
      BY <1>5
    <2>2. Cardinality({}) = 0
      BY FS_EmptySet
    <2>3. 0 < catalogRetentionCount
      BY SchemaAssumption
    <2> HIDE DEF newer
    <2> QED BY <2>1, <2>2, <2>3
  <1>7. Times'
    <2> HIDE DEF newer
    <2>1. clock \in Nat
      BY DEF Times
    <2>2. \A x \in snapshots'[kind] : x.at \in 0 .. clock'
      BY <1>1, <1>3, <1>4, <2>1
    <2>3. \A k \in {"migrations", "declared"} :
            k # kind => \A x \in snapshots'[k] : x.at \in 0 .. clock'
      BY <1>1, <1>3, <2>1 DEF Times
    <2> QED BY <1>1, <2>1, <2>2, <2>3 DEF Times
  <1>8. s \in snapshots'[kind]
    <2> HIDE DEF newer
    <2> QED BY <1>3, <1>6
  <1> QED BY <1>7, <1>8

\* Where no file is going to be read, the times are all there is to keep.
LEMMA LeavesRead ==
  ASSUME Times', place' \notin {"baseline", "export", "sourceShadow", "target",
                               "targetShadow", "diff"}
  PROVE  ReadInv'
  BY DEF ReadInv, RefsReadable

\* The times hold as long as no dated catalog is written.
LEMMA TimesKept ==
  ASSUME Times, snapshots' = snapshots, clock' = clock
  PROVE  Times'
  BY DEF Times

\* The same for a step that writes nothing.
LEMMA LeavesReadWithoutExport ==
  ASSUME ReadInv, UNCHANGED store,
         place' \notin {"baseline", "export", "sourceShadow", "target", "targetShadow", "diff"}
  PROVE  ReadInv'
  BY TimesKept, LeavesRead DEF ReadInv, store

\* The steps that choose nothing and write nothing.
LEMMA SimpleReads ==
  ASSUME SyncInv, ReadInv
  PROVE  /\ CommandFails => ReadInv'
         /\ Export => ReadInv'
         /\ DeclineOverwrite => ReadInv'
         /\ WriteDeclarativeSchemas => ReadInv'
         /\ WarmCache => ReadInv'
         /\ DeclineApply => ReadInv'
         /\ ApplyToLocal => ReadInv'
         /\ DiffToFile => ReadInv'
         /\ AssertRemoteInSync => ReadInv'
         /\ DumpRemoteSchema => ReadInv'
         /\ SecondPass => ReadInv'
         /\ DiffRemoteSchema => ReadInv'
         /\ UpdateHistory => ReadInv'
         /\ SaveMigration => ReadInv'
         /\ DiffRefs => ReadInv'
  <1> USE LeavesReadWithoutExport DEF Done, Goto, GoOn
  <1>1. CommandFails => ReadInv'
    BY DEF CommandFails
  <1>2. Export => ReadInv'
    BY DEF Export
  <1>3. DeclineOverwrite => ReadInv'
    BY DEF DeclineOverwrite
  <1>4. WriteDeclarativeSchemas => ReadInv'
    BY DEF WriteDeclarativeSchemas
  <1>5. WarmCache => ReadInv'
    BY DEF WarmCache, EndsGenerate
  <1>6. DeclineApply => ReadInv'
    BY DEF DeclineApply
  <1>7. ApplyToLocal => ReadInv'
    BY DEF ApplyToLocal
  <1>8. DiffToFile => ReadInv'
    BY DEF DiffToFile
  <1>9. AssertRemoteInSync => ReadInv'
    BY DEF AssertRemoteInSync
  <1>10. DumpRemoteSchema => ReadInv'
    BY DEF DumpRemoteSchema
  <1>11. SecondPass => ReadInv'
    BY DEF SecondPass
  <1>12. DiffRemoteSchema => ReadInv'
    BY DEF DiffRemoteSchema
  <1>13. UpdateHistory => ReadInv'
    BY DEF UpdateHistory
  <1>14. SaveMigration => ReadInv'
    BY DEF SaveMigration
  <1>15. DiffRefs => ReadInv'
    BY DEF DiffRefs
  <1> QED BY <1>1, <1>2, <1>3, <1>4, <1>5, <1>6, <1>7, <1>8, <1>9, <1>10, <1>11, <1>12,
             <1>13, <1>14, <1>15

\* A command that begins has chosen nothing but the empty baseline.
LEMMA BeginReads == SyncInv /\ ReadInv /\ Begin => ReadInv'
  <1> SUFFICES ASSUME ReadInv, Begin PROVE ReadInv'
    OBVIOUS
  <1>1. PICK op \in Ops, noCache \in BOOLEAN : job' = Job(op, noCache) /\ place' = Entry(op)
    BY DEF Begin
  <1>2. Times'
    BY TimesKept DEF Begin, store, ReadInv
  <1>3. job'.source.kind = "baseline" /\ job'.op = op
    BY <1>1 DEF Job, FileRef
  <1>4. /\ Entry(op) \in {"baseline", "source", "compare", "assert", "export"}
        /\ Entry(op) = "export" => op = "pullDeclared"
    BY DEF Entry, Ops
  <1> QED BY <1>1, <1>2, <1>3, <1>4 DEF ReadInv, RefsReadable

\* The baseline of generate is written before it is read.
LEMMA BaselineReads == SyncInv /\ ReadInv /\ GenerateBaseline => ReadInv'
  <1> SUFFICES ASSUME SyncInv, ReadInv, GenerateBaseline PROVE ReadInv'
    OBVIOUS
  <1>1. Times' /\ place' = "export"
    BY TimesKept DEF GenerateBaseline, ReadInv, Goto
  <1>2. At(job.source)' # {}
    <2>1. CASE job.noCache
      <3>1. /\ temp' = [n \in DOMAIN temp \cup {"nocache-baseline"} |->
                         IF n = "nocache-baseline" THEN Empty ELSE temp[n]]
            /\ job' = [job EXCEPT !.source = FileRef("nocache-baseline")]
        BY <2>1 DEF GenerateBaseline, WriteTemp, TempName
      <3>2. job'.source.kind = "nocache-baseline"
        BY <3>1 DEF SyncInv, Shapes, Fields, FileRef
      <3>3. "nocache-baseline" \in DOMAIN temp'
        BY <3>1
      <3> QED BY <3>2, <3>3 DEF At
    <2>2. CASE ~job.noCache
      <3>1. baseline' = TRUE /\ job' = [job EXCEPT !.shadow = ~baseline]
        BY <2>2 DEF GenerateBaseline
      <3>2. job'.source = job.source
        BY <3>1 DEF SyncInv, Shapes, Fields
      <3>3. job'.source.kind = "baseline"
        BY <3>2 DEF GenerateBaseline, ReadInv
      <3> QED BY <3>1, <3>3 DEF At
    <2> QED BY <2>1, <2>2
  <1> QED BY <1>1, <1>2 DEF ReadInv, RefsReadable

\* The catalog cached by db reset and db push has the time of the clock.
LEMMA CacheReads ==
  ASSUME SyncInv, ReadInv, NEW b \in BOOLEAN, NEW schema, TryCache(b, schema), Done
  PROVE  ReadInv'
  <1>1. Times'
    <2>1. CASE UNCHANGED store
      BY <2>1, TimesKept DEF store, ReadInv
    <2>2. CASE Keeps("migrations", Snapshot(migrations, schema, "live"))
      <3>1. Snapshot(migrations, schema, "live").at = clock + 1
        BY DEF Snapshot
      <3> QED BY <2>2, <3>1, KeepsReadable DEF ReadInv
    <2> QED BY <2>1, <2>2 DEF TryCache
  <1> QED BY <1>1, LeavesRead DEF Done

\* The steps that end with that catalog.
LEMMA CachingReads ==
  ASSUME SyncInv, ReadInv
  PROVE  /\ Reset => ReadInv'
         /\ ResetAfterSync => ReadInv'
         /\ PushMigrations => ReadInv'
  <1>0. ASSUME NEW n, NEW b \in BOOLEAN, ResetTo(n, b) PROVE ReadInv'
    <2> DEFINE asked == SubSeq(migrations, 1, n)
               done == Applicable({}, asked)
               schema == Made(SubSeq(asked, 1, done))
               complete == done = Len(asked)
               seeded == IF complete THEN schema \cup SeedThings ELSE schema
    <2>1. TryCache(complete /\ ~b, seeded) /\ Done
      BY <1>0 DEF ResetTo
    <2> HIDE DEF seeded, complete
    <2>2. (complete /\ ~b) \in BOOLEAN
      BY DEF complete
    <2> QED BY <2>1, <2>2, CacheReads
  <1>1. ASSUME Reset PROVE ReadInv'
    BY <1>0, <1>1 DEF Reset
  <1>2. ASSUME ResetAfterSync PROVE ReadInv'
    BY <1>0, <1>2 DEF ResetAfterSync
  <1>3. ASSUME PushMigrations PROVE ReadInv'
    <2> DEFINE k == Cardinality(database.applied)
               pending == SubSeq(migrations, k + 1, Len(migrations))
               done == Applicable(database.schema, pending)
               schema == AlterAll(database.schema, SubSeq(pending, 1, done))
               complete == done = Len(pending)
    <2>1. TryCache(complete, schema) /\ Done
      BY <1>3 DEF PushMigrations
    <2> HIDE DEF schema
    <2>2. complete \in BOOLEAN
      OBVIOUS
    <2> QED BY <2>1, <2>2, CacheReads
  <1> QED BY <1>1, <1>2, <1>3

\* A source that was found is there.
LEMMA ResolveSourceReads == SyncInv /\ ReadInv /\ ResolveSource => ReadInv'
  <1> SUFFICES ASSUME SyncInv, ReadInv, ResolveSource PROVE ReadInv'
    OBVIOUS
  <1> DEFINE known == [job EXCEPT !.migrations = migrations,
                         !.target = IF job.op = "sync" THEN @ ELSE FileRef("database")]
             found == Found("migrations", migrations)
             ref == Ref("migrations", migrations, Latest(found))
  <1>1. /\ snapshots' = snapshots /\ baseline' = baseline /\ temp' = temp
        /\ clock' = clock
    BY DEF ResolveSource, store
  <1>2. Times'
    BY <1>1, TimesKept DEF ReadInv
  <1>3. /\ DOMAIN known = Fields /\ known.op = job.op
        /\ job.op # "sync" => known.target.kind = "database"
    BY DEF SyncInv, Shapes, Fields, FileRef
  <1>4. CASE UsesBaseline
    <2>1. /\ place' = "target" /\ job' = [known EXCEPT !.source = FileRef("baseline")]
          /\ baseline
      BY <1>4 DEF ResolveSource, Goto, UsesBaseline
    <2> HIDE DEF known
    <2>2. job'.source.kind = "baseline"
      BY <1>3, <2>1 DEF FileRef, Fields
    <2>3. At(job.source)' # {}
      BY <1>1, <2>1, <2>2 DEF At
    <2> QED BY <1>2, <2>1, <2>3 DEF ReadInv, RefsReadable
  <1>5. CASE ~UsesBaseline /\ found # {}
    <2>1. place' = AfterSource /\ job' = [known EXCEPT !.source = ref]
      BY <1>5 DEF ResolveSource, Goto
    <2>2. place' \in {"target", "diff"} /\ (place' = "diff" => job.op # "sync")
      BY <2>1 DEF AfterSource
    <2>3. /\ Latest(found) \in found
          /\ found \subseteq {s \in snapshots["migrations"] : s.hash = migrations}
      <3>1. found \subseteq {s \in snapshots["migrations"] : s.hash = migrations}
        BY DEF Found, Of
      <3>2. clock \in Nat /\ \A s \in found : s.at \in 0 .. clock
        BY <3>1 DEF ReadInv, Times
      <3> HIDE DEF found
      <3> QED BY <1>5, <3>1, <3>2, LatestIsThere
    <2> HIDE DEF known, found
    <2>4. /\ job'.source.kind = "migrations" /\ job'.source.hash = migrations
          /\ job'.source.at = Latest(found).at
          /\ job.op # "sync" => job'.target.kind = "database"
      BY <1>3, <2>1 DEF Ref, Fields
    <2>5. Latest(found) \in At(job.source)'
      BY <1>1, <2>3, <2>4 DEF At
    <2>6. place' = "diff" => At(job.target)' # {}
      BY <2>2, <2>4 DEF At
    <2> QED BY <1>2, <2>2, <2>5, <2>6 DEF ReadInv, RefsReadable
  <1>6. CASE ~UsesBaseline /\ found = {}
    <2>1. place' = "sourceShadow" /\ job' = known
      BY <1>6 DEF ResolveSource, Goto
    <2> HIDE DEF known
    <2> QED BY <1>2, <1>3, <2>1 DEF ReadInv, RefsReadable
  <1> QED BY <1>4, <1>5, <1>6

\* What has been exported can be read.
LEMMA ExportsReads ==
  ASSUME SyncInv, ReadInv, NEW kind \in {"migrations", "declared"}, NEW s,
         s.at = clock + 1, Exports(kind, s)
  PROVE  /\ Times'
         /\ job.noCache => TempName(kind) \in DOMAIN temp'
         /\ ~job.noCache => s \in snapshots'[kind]
  <1>1. CASE job.noCache
    BY <1>1, TimesKept DEF Exports, WriteTemp, ReadInv
  <1>2. CASE ~job.noCache
    BY <1>2, KeepsReadable DEF Exports, ReadInv
  <1> QED BY <1>1, <1>2

\* A source that was made is there.
LEMMA MigrateShadowReads == SyncInv /\ ReadInv /\ MigrateShadow => ReadInv'
  <1> SUFFICES ASSUME SyncInv, ReadInv, MigrateShadow PROVE ReadInv'
    OBVIOUS
  <1> DEFINE by == IF migrations = job.migrations THEN "shadow" ELSE "raced"
             made == Snapshot(job.migrations, Made(migrations), by)
             ref == ExportRef("migrations", made)
  <1>1. /\ place' = AfterSource /\ place = "sourceShadow" /\ Exports("migrations", made)
        /\ job' = [job EXCEPT !.source = ref]
    BY DEF MigrateShadow, Goto
  <1>2. made.at = clock + 1
    BY DEF Snapshot
  <1> HIDE DEF made
  <1>3. /\ job'.op = job.op /\ job'.source = ref /\ job'.target = job.target
    BY <1>1 DEF SyncInv, Shapes, Fields
  <1>4. place' \in {"target", "diff"} /\ (place' = "diff" => job.op # "sync")
    BY <1>1 DEF AfterSource
  <1>5. Times'
    BY <1>1, <1>2, ExportsReads
  <1>6. At(job.source)' # {}
    <2>1. CASE job.noCache
      <3>1. "nocache-migrations" \in DOMAIN temp' /\ ref.kind = "nocache-migrations"
        BY <1>1, <1>2, <2>1, ExportsReads DEF TempName, ExportRef, FileRef
      <3> QED BY <1>3, <3>1 DEF At
    <2>2. CASE ~job.noCache
      <3>1. made \in snapshots'["migrations"]
        BY <1>1, <1>2, <2>2, ExportsReads
      <3>2. ref.kind = "migrations" /\ ref.hash = made.hash /\ ref.at = made.at
        BY <2>2 DEF ExportRef, Ref
      <3>3. made \in At(job.source)'
        BY <1>3, <3>1, <3>2 DEF At
      <3> QED BY <3>3
    <2> QED BY <2>1, <2>2
  <1>7. place' = "diff" => At(job.target)' # {}
    BY <1>1, <1>3, <1>4 DEF At, ReadInv
  <1> QED BY <1>4, <1>5, <1>6, <1>7 DEF ReadInv, RefsReadable

\* A target that was found is there, and the source still is.
LEMMA ResolveTargetReads == SyncInv /\ ReadInv /\ ResolveTarget => ReadInv'
  <1> SUFFICES ASSUME SyncInv, ReadInv, ResolveTarget PROVE ReadInv'
    OBVIOUS
  <1> DEFINE known == [job EXCEPT !.declared = declared]
             found == Found("declared", declared)
             ref == Ref("declared", declared, Latest(found))
  <1>1. /\ snapshots' = snapshots /\ baseline' = baseline /\ temp' = temp
        /\ clock' = clock /\ UNCHANGED store
    BY DEF ResolveTarget, store
  <1>2. Times'
    BY <1>1, TimesKept DEF ReadInv
  <1>3. /\ DOMAIN known = Fields /\ known.source = job.source
        /\ job.source.kind \in SourceKinds
    BY DEF SyncInv, Shapes, RefsTrue, Fields
  <1>4. CASE place = "warmTarget"
    BY <1>1, <1>4, LeavesReadWithoutExport DEF ResolveTarget, EndsGenerate, Goto, Done
  <1>5. CASE place = "target" /\ found = {}
    <2>1. place' = "targetShadow" /\ job' = known
      BY <1>5 DEF ResolveTarget, Goto
    <2> HIDE DEF known
    <2>2. At(job.source)' = At(job.source)
      BY <1>1, <1>3, <2>1, StaysThere
    <2> QED BY <1>2, <1>5, <2>1, <2>2 DEF ReadInv, RefsReadable
  <1>6. CASE place = "target" /\ found # {}
    <2>1. place' = "diff" /\ job' = [known EXCEPT !.target = ref]
      BY <1>6 DEF ResolveTarget, Goto
    <2>2. Latest(found) \in found
          /\ found \subseteq {s \in snapshots["declared"] : s.hash = declared}
      <3>1. found \subseteq {s \in snapshots["declared"] : s.hash = declared}
        BY DEF Found, Of
      <3>2. clock \in Nat /\ \A s \in found : s.at \in 0 .. clock
        BY <3>1 DEF ReadInv, Times
      <3> HIDE DEF found
      <3> QED BY <1>6, <3>1, <3>2, LatestIsThere
    <2> HIDE DEF known, found
    <2>3. /\ job'.source = job.source
          /\ job'.target.kind = "declared" /\ job'.target.hash = declared
          /\ job'.target.at = Latest(found).at
      BY <1>3, <2>1 DEF Ref, Fields
    <2>4. At(job.source)' = At(job.source)
      BY <1>1, <1>3, <2>3, StaysThere
    <2>5. Latest(found) \in At(job.target)'
      BY <1>1, <2>2, <2>3 DEF At
    <2> QED BY <1>2, <1>6, <2>1, <2>4, <2>5 DEF ReadInv, RefsReadable
  <1>7. place \in {"target", "warmTarget"}
    BY DEF ResolveTarget
  <1> QED BY <1>4, <1>5, <1>6, <1>7

\* A target that was made is there, and its clean-up leaves the source.
LEMMA ApplyDeclarativeReads == SyncInv /\ ReadInv /\ ApplyDeclarative => ReadInv'
  <1> SUFFICES ASSUME SyncInv, ReadInv, ApplyDeclarative PROVE ReadInv'
    OBVIOUS
  <1> DEFINE by == IF declared = job.declared THEN "shadow" ELSE "raced"
             made == Snapshot(job.declared, declared, by)
             ref == ExportRef("declared", made)
  <1>1. Exports("declared", made) /\ place \in {"targetShadow", "warmShadow"}
    BY DEF ApplyDeclarative
  <1>2. made.at = clock + 1
    BY DEF Snapshot
  <1>3. Times'
    <2> HIDE DEF made
    <2> QED BY <1>1, <1>2, ExportsReads
  <1>4. CASE place = "warmShadow"
    <2>1. EndsGenerate
      BY <1>4 DEF ApplyDeclarative
    <2> QED BY <1>3, <2>1, LeavesRead DEF EndsGenerate, Goto, Done
  <1>5. CASE place = "targetShadow"
    <2>1. place' = "diff" /\ job' = [job EXCEPT !.target = ref]
      BY <1>5 DEF ApplyDeclarative, Goto
    <2> HIDE DEF made
    <2>2. job'.source = job.source /\ job'.target = ref
      BY <2>1 DEF SyncInv, Shapes, Fields
    <2>3. job.source.kind \in SourceKinds
      BY DEF SyncInv, RefsTrue
    <2>4. At(job.source)' # {} /\ At(job.target)' # {}
      <3>0. At(job.source) # {}
        BY <1>5 DEF ReadInv, RefsReadable
      <3>1. CASE job.noCache
        <4>1. /\ temp' = [n \in DOMAIN temp \cup {"nocache-declarative"} |->
                           IF n = "nocache-declarative" THEN made ELSE temp[n]]
              /\ snapshots' = snapshots /\ baseline' = baseline
              /\ ref.kind = "nocache-declarative"
          BY <1>1, <3>1 DEF Exports, WriteTemp, ExportRef, FileRef, TempName
        <4>2. At(job.source)' = At(job.source)
          BY <2>2, <2>3, <4>1 DEF At, SourceKinds
        <4>3. At(job.target)' # {}
          BY <2>2, <4>1 DEF At
        <4> QED BY <3>0, <4>2, <4>3
      <3>2. CASE ~job.noCache
        <4>1. /\ temp' = temp /\ baseline' = baseline
              /\ ref.kind = "declared" /\ ref.hash = made.hash /\ ref.at = made.at
              /\ snapshots' = Retained("declared", made)
          BY <1>1, <3>2 DEF Exports, Keeps, ExportRef, Ref
        <4>2. snapshots'["migrations"] = snapshots["migrations"]
          BY <4>1 DEF Retained, SyncInv, Shapes
        <4>3. At(job.source)' = At(job.source)
          BY <2>2, <2>3, <4>1, <4>2 DEF At, SourceKinds
        <4>4. made \in snapshots'["declared"]
          BY <1>1, <1>2, <3>2, ExportsReads
        <4>5. made \in At(job.target)'
          BY <2>2, <4>1, <4>4 DEF At
        <4> QED BY <3>0, <4>3, <4>5
      <3> QED BY <3>1, <3>2
    <2> QED BY <1>3, <2>1, <2>4 DEF ReadInv, RefsReadable
  <1> QED BY <1>1, <1>4, <1>5

\* Edits by others remove no catalog.
LEMMA EditsRead == SyncInv /\ ReadInv /\ Disturbs => ReadInv'
  <1> SUFFICES ASSUME SyncInv, ReadInv, Disturbs PROVE ReadInv'
    OBVIOUS
  <1>1. /\ snapshots' = snapshots /\ baseline' = baseline /\ temp' = temp
        /\ clock' = clock /\ place' = place
    BY DEF Disturbs, store
  <1>2. job'.source = job.source /\ job'.target = job.target /\ job'.op = job.op
    BY DEF Disturbs, SyncInv, Shapes, Fields
  <1>3. At(job.source)' = At(job.source)
    BY <1>1, <1>2, StaysThere DEF SyncInv, RefsTrue
  <1>4. CASE job.target.kind = "database"
    <2>1. At(job.target)' # {}
      BY <1>2, <1>4 DEF At
    <2> QED BY <1>1, <1>2, <1>3, <2>1, TimesKept DEF ReadInv, RefsReadable
  <1>5. CASE job.target.kind # "database"
    <2>1. At(job.target)' = At(job.target)
      BY <1>1, <1>2, <1>5, StaysThere
    <2> QED BY <1>1, <1>2, <1>3, <2>1, TimesKept DEF ReadInv, RefsReadable
  <1> QED BY <1>4, <1>5

\* Every step keeps the invariant.
LEMMA ReadStep == SyncInv /\ ReadInv /\ [SchemaNext]_schemaVars => ReadInv'
  <1> SUFFICES ASSUME SyncInv, ReadInv, [SchemaNext]_schemaVars PROVE ReadInv'
    OBVIOUS
  <1>1. CASE EditMigrations \/ EditDeclared \/ AlterDatabase
    BY <1>1, EditsRead DEF EditMigrations, EditDeclared, AlterDatabase
  <1>2. CASE UNCHANGED schemaVars
    BY <1>2 DEF ReadInv, Times, RefsReadable, At, Live, schemaVars, sides, store, bounds
  <1> QED BY <1>1, <1>2, BeginReads, SimpleReads, BaselineReads, CachingReads,
             ResolveSourceReads, MigrateShadowReads, ResolveTargetReads,
             ApplyDeclarativeReads
          DEF SchemaNext

(***************************************************************************)
(* For any retention count: a catalog that a command has chosen is still   *)
(* there when the command reads it, although exports remove old ones.      *)
(***************************************************************************)
THEOREM RefsAreReadable == SchemaSpec => []RefsReadable
  <1>1. ReadInv => RefsReadable
    BY DEF ReadInv
  <1>2. SyncInv /\ ReadInv /\ [SchemaNext]_schemaVars => SyncInv' /\ ReadInv'
    BY SyncStep, ReadStep
  <1> QED BY <1>1, <1>2, InitSync, InitRead, PTL DEF SchemaSpec
-----------------------------------------------------------------------------
(***************************************************************************)
(* A db pull settles.                                                      *)
(***************************************************************************)

\* The places of a db pull between the check of the history and its update.
Pulling == {"dump", "fetch", "second", "history"}

\* Nothing stands for the database but itself.
Itself == isLocal => declared = {}

\* How far an undisturbed db pull is: the history has all migrations but the
\* one it writes, which makes up for the difference to the database.
PullSoFar ==
  /\ place = "dump" => migrations = <<>> /\ database.applied = {}
  /\ place = "fetch" => database.applied = 1 .. Len(migrations)
  /\ place = "second" =>
       /\ migrations = <<Between({}, database.schema \ Managed)>>
       /\ job.file = 1 /\ database.applied = {}
  /\ place = "history" =>
       /\ job.file = Len(migrations) /\ job.file \in Nat \ {0}
       /\ database.applied = 1 .. job.file - 1
       /\ Itself => Made(migrations) = database.schema

Listed == \E S : migrations \in Seq(S)

\* The invariant behind PullAlwaysSettles.
PullInv ==
  /\ Listed /\ DOMAIN database = {"schema", "applied"}
  /\ pulled => place = "idle"
  /\ job.quiet => PullSoFar
  /\ PullSettles

\* One more migration is applied after the others.
LEMMA OneMoreMigration ==
  ASSUME Listed, NEW s, NEW c
  PROVE  /\ \E S : Append(migrations, c) \in Seq(S)
         /\ Len(migrations) \in Nat
         /\ Len(Append(migrations, c)) = Len(migrations) + 1
         /\ AlterAll(s, Append(migrations, c)) = Alter(AlterAll(s, migrations), c)
  <1>1. PICK S : migrations \in Seq(S)
    BY DEF Listed
  <1> DEFINE T == S \cup {c}
             more == Append(migrations, c)
             n == Len(migrations)
  <1>2. migrations \in Seq(T)
    BY <1>1, SeqMonotonic
  <1>3. /\ more \in Seq(T) /\ Len(more) = n + 1 /\ more[n + 1] = c
        /\ \A i \in 1 .. n : more[i] = migrations[i]
    BY <1>2, AppendProperties
  <1>4. n \in Nat /\ DOMAIN migrations = 1 .. n /\ DOMAIN more = 1 .. n + 1
    BY <1>2, <1>3, LenProperties
  <1>5. ASSUME NEW x
        PROVE  x \in AlterAll(s, more) <=> x \in Alter(AlterAll(s, migrations), c)
    <2> DEFINE Dropped(i) == \E j \in 1 .. n : j > i /\ x \in migrations[j].drop
               Dropped1(i) == \E j \in 1 .. n + 1 : j > i /\ x \in more[j].drop
    <2>1. \A i \in 0 .. n : Dropped1(i) <=> Dropped(i) \/ x \in c.drop
      <3> SUFFICES ASSUME NEW i \in 0 .. n
                   PROVE  Dropped1(i) <=> Dropped(i) \/ x \in c.drop
        OBVIOUS
      <3>1. ASSUME NEW j \in 1 .. n + 1 PROVE j \in 1 .. n \/ j = n + 1
        BY <1>4
      <3>2. n + 1 \in 1 .. n + 1 /\ n + 1 > i /\ \A j \in 1 .. n : j \in 1 .. n + 1
        BY <1>4
      <3> QED BY <1>3, <3>1, <3>2
    <2>2. ~Dropped1(n + 1)
      BY <1>4
    <2>3. x \in AlterAll(s, migrations) <=>
            \/ x \in s /\ ~Dropped(0)
            \/ \E i \in 1 .. n : x \in migrations[i].add /\ ~Dropped(i)
      BY <1>4 DEF AlterAll
    <2>4. x \in AlterAll(s, more) <=>
            \/ x \in s /\ ~Dropped1(0)
            \/ \E i \in 1 .. n + 1 : x \in more[i].add /\ ~Dropped1(i)
      BY <1>4 DEF AlterAll
    <2>5. (\E i \in 1 .. n + 1 : x \in more[i].add /\ ~Dropped1(i)) <=>
            \/ \E i \in 1 .. n : x \in migrations[i].add /\ ~Dropped1(i)
            \/ x \in c.add
      <3>1. /\ \A i \in 1 .. n + 1 : i \in 1 .. n \/ i = n + 1
            /\ n + 1 \in 1 .. n + 1 /\ \A i \in 1 .. n : i \in 1 .. n + 1
        BY <1>4
      <3> HIDE DEF Dropped1
      <3> QED BY <1>3, <2>2, <3>1
    <2>6. 0 \in 0 .. n /\ \A i \in 1 .. n : i \in 0 .. n
      BY <1>4
    <2>7. x \in Alter(AlterAll(s, migrations), c) <=>
            (x \in AlterAll(s, migrations) /\ x \notin c.drop) \/ x \in c.add
      BY DEF Alter
    <2> HIDE DEF Dropped, Dropped1
    <2> QED BY <2>1, <2>3, <2>4, <2>5, <2>6, <2>7
  <1>6. AlterAll(s, more) = Alter(AlterAll(s, migrations), c)
    BY <1>5
  <1> QED BY <1>3, <1>4, <1>6

\* A single migration that drops nothing makes what it adds.
LEMMA MadeOfOne == ASSUME NEW s PROVE Made(<<Between({}, s)>>) = s
  <1>1. /\ DOMAIN <<Between({}, s)>> = {1} /\ <<Between({}, s)>>[1].add = s
        /\ <<Between({}, s)>>[1].drop = {}
    BY DEF Between
  <1> QED BY <1>1 DEF Made, AlterAll

LEMMA InitPull == SchemaInit => PullInv
  <1> SUFFICES ASSUME SchemaInit PROVE PullInv
    OBVIOUS
  <1>1. <<>> \in Seq({})
    OBVIOUS
  <1>2. DOMAIN database = {"schema", "applied"}
    BY DEF SchemaInit
  <1>3. pulled = FALSE /\ place = "idle" /\ migrations = <<>>
    BY DEF SchemaInit
  <1>4. job.quiet => PullSoFar
    BY <1>3 DEF PullSoFar
  <1> QED BY <1>1, <1>2, <1>3, <1>4 DEF PullInv, Listed, PullSettles

\* A step that neither records a pull nor goes on with one.
LEMMA LeavesPull ==
  ASSUME Listed', DOMAIN database' = {"schema", "applied"}, ~pulled', place' \notin Pulling
  PROVE  PullInv'
  BY DEF PullInv, PullSoFar, PullSettles, Pulling

\* The same for the steps of a command that leave migrations and database alone.
LEMMA LeavesSides ==
  ASSUME PullInv, place # "idle", UNCHANGED <<migrations, database>>,
         pulled' = pulled \/ Done, place' \notin Pulling
  PROVE  PullInv'
  <1>1. ~pulled'
    BY DEF PullInv, Done
  <1>2. Listed' /\ DOMAIN database' = {"schema", "applied"}
    BY DEF PullInv, Listed
  <1> QED BY <1>1, <1>2, LeavesPull

\* One more migration in the files.
LEMMA LeavesMore ==
  ASSUME PullInv, place # "idle", UNCHANGED database, NEW c,
         migrations' = Append(migrations, c), pulled' = pulled \/ Done, place' \notin Pulling
  PROVE  PullInv'
  <1>1. Listed'
    BY OneMoreMigration DEF PullInv, Listed
  <1>2. ~pulled'
    BY DEF PullInv, Done
  <1>3. DOMAIN database' = {"schema", "applied"}
    BY DEF PullInv
  <1> QED BY <1>1, <1>2, <1>3, LeavesPull

\* The steps of the other commands.
LEMMA OtherSteps ==
  ASSUME PullInv,
         \/ Begin \/ CommandFails \/ GenerateBaseline \/ Export \/ DeclineOverwrite
         \/ WriteDeclarativeSchemas \/ WarmCache
         \/ ResolveSource \/ MigrateShadow \/ ResolveTarget \/ ApplyDeclarative
         \/ DiffRefs \/ SaveMigration \/ DeclineApply \/ ApplyToLocal \/ DiffToFile
  PROVE  PullInv'
  <1> USE DEF Goto, GoOn, Pulling
  <1>1. CASE Begin
    <2>1. PICK op \in Ops : place' = Entry(op)
      BY <1>1 DEF Begin
    <2>2. Entry(op) \notin Pulling
      BY DEF Entry, Ops
    <2>3. ~pulled' /\ UNCHANGED <<migrations, database>>
      BY <1>1 DEF Begin, sides
    <2> QED BY <2>1, <2>2, <2>3, LeavesPull DEF PullInv, Listed
  <1>2. CASE CommandFails \/ DeclineOverwrite \/ DeclineApply
    BY <1>2, LeavesSides DEF CommandFails, DeclineOverwrite, DeclineApply, sides, Done
  <1>3. CASE GenerateBaseline \/ Export
    BY <1>3, LeavesSides DEF GenerateBaseline, Export, sides
  <1>4. CASE WriteDeclarativeSchemas
    BY <1>4, LeavesSides DEF WriteDeclarativeSchemas, Done
  <1>5. CASE WarmCache
    BY <1>5, LeavesSides DEF WarmCache, EndsGenerate, sides, Done
  <1>6. CASE ResolveSource
    BY <1>6, LeavesSides DEF ResolveSource, AfterSource, sides
  <1>7. CASE MigrateShadow
    BY <1>7, LeavesSides DEF MigrateShadow, AfterSource, sides
  <1>8. CASE ResolveTarget
    BY <1>8, LeavesSides DEF ResolveTarget, EndsGenerate, sides, Done
  <1>9. CASE ApplyDeclarative
    BY <1>9, LeavesSides DEF ApplyDeclarative, EndsGenerate, sides, Done
  <1>10. CASE DiffRefs
    BY <1>10, LeavesSides DEF DiffRefs, sides
  <1>11. CASE SaveMigration
    BY <1>11, LeavesSides, LeavesMore DEF SaveMigration, NewMigration, Done
  <1>12. CASE ApplyToLocal
    <2>1. place # "idle" /\ UNCHANGED migrations /\ place' \notin Pulling
      BY <1>12 DEF ApplyToLocal, Done
    <2>2. ~pulled' /\ DOMAIN database' = {"schema", "applied"}
      BY <1>12 DEF ApplyToLocal, Done, PullInv
    <2> QED BY <2>1, <2>2, LeavesPull DEF PullInv, Listed
  <1>13. CASE DiffToFile
    BY <1>13, LeavesSides, LeavesMore DEF DiffToFile, Done
  <1> QED BY <1>1, <1>2, <1>3, <1>4, <1>5, <1>6, <1>7, <1>8, <1>9, <1>10, <1>11, <1>12, <1>13

\* db reset and db push leave a database behind, and no pull.
LEMMA ResetLeavesPull ==
  ASSUME PullInv, UNCHANGED migrations, NEW n, NEW b, ResetTo(n, b)
  PROVE  PullInv'
  <1>1. DOMAIN database' = {"schema", "applied"} /\ Done
    BY DEF ResetTo
  <1> QED BY <1>1, LeavesPull DEF Done, Pulling, PullInv, Listed

LEMMA DatabaseSteps ==
  ASSUME PullInv, Reset \/ ResetAfterSync \/ PushMigrations
  PROVE  PullInv'
  <1>1. CASE Reset
    BY <1>1, ResetLeavesPull DEF Reset
  <1>2. CASE ResetAfterSync
    BY <1>2, ResetLeavesPull DEF ResetAfterSync
  <1>3. CASE PushMigrations
    <2>1. DOMAIN database' = {"schema", "applied"} /\ Done /\ UNCHANGED migrations
      BY <1>3 DEF PushMigrations
    <2> QED BY <2>1, LeavesPull DEF Done, Pulling, PullInv, Listed
  <1> QED BY <1>1, <1>2, <1>3

\* Edits make a pull one that promises nothing.
LEMMA EditsPull ==
  ASSUME Shapes, PullInv, EditMigrations \/ EditDeclared \/ AlterDatabase
  PROVE  PullInv'
  <1>1. ~pulled' /\ ~job'.quiet
    BY DEF EditMigrations, EditDeclared, AlterDatabase, Disturbs, Shapes, Fields
  <1>2. DOMAIN database' = {"schema", "applied"}
    BY DEF EditMigrations, EditDeclared, AlterDatabase, PullInv
  <1>3. Listed'
    <2>1. CASE UNCHANGED migrations
      BY <2>1 DEF PullInv, Listed
    <2>2. CASE EditMigrations
      <3>1. PICK S : migrations \in Seq(S)
        BY DEF PullInv, Listed
      <3>2. PICK n \in {Len(migrations), Len(migrations) + 1} \ {0} :
              \E c : migrations' = Append(SubSeq(migrations, 1, n - 1), c)
        BY <2>2 DEF EditMigrations
      <3>3. Len(migrations) \in Nat
        BY <3>1, LenProperties
      <3>4. \A i \in 1 .. n - 1 : i \in 1 .. Len(migrations)
        BY <3>2, <3>3
      <3>5. \A i \in 1 .. n - 1 : migrations[i] \in S
        BY <3>1, <3>4, ElementOfSeq
      <3>6. SubSeq(migrations, 1, n - 1) \in Seq(S)
        BY <3>2, <3>3, <3>5, SubSeqProperties
      <3>7. \A c : Append(SubSeq(migrations, 1, n - 1), c) \in Seq(S \cup {c})
        BY <3>6, SeqMonotonic, AppendProperties
      <3> QED BY <3>2, <3>7 DEF Listed
    <2> QED BY <2>1, <2>2 DEF EditDeclared, AlterDatabase
  <1> QED BY <1>1, <1>2, <1>3 DEF PullInv, PullSettles
\* The check of the history is what the pull relies on.
LEMMA AssertStep == PullInv /\ AssertRemoteInSync => PullInv'
  <1> SUFFICES ASSUME PullInv, AssertRemoteInSync PROVE PullInv'
    OBVIOUS
  <1>1. /\ place = "assert" /\ database.applied = 1 .. Len(migrations)
        /\ place' = IF migrations = <<>> THEN "dump" ELSE "fetch"
        /\ UNCHANGED <<pulled, job, migrations, database, isLocal, declared>>
    BY DEF AssertRemoteInSync, GoOn, Goto, sides, bounds
  <1>2. ~pulled /\ ~pulled'
    BY <1>1 DEF PullInv
  <1>3. migrations = <<>> => database.applied = {}
    BY <1>1
  <1>4. PullSoFar'
    BY <1>1, <1>3 DEF PullSoFar
  <1> QED BY <1>1, <1>2, <1>4 DEF PullInv, PullSettles, Listed

\* The first migration of all has what was dumped.
LEMMA DumpStep == Shapes /\ PullInv /\ DumpRemoteSchema => PullInv'
  <1> SUFFICES ASSUME Shapes, PullInv, DumpRemoteSchema PROVE PullInv'
    OBVIOUS
  <1> DEFINE c == Between({}, database.schema \ Managed)
  <1>1. CASE migrations' = Append(migrations, Unchanged) /\ Done
    <2>1. place # "idle" /\ UNCHANGED database /\ place' \notin Pulling
      BY <1>1 DEF DumpRemoteSchema, Done, Pulling
    <2> QED BY <1>1, <2>1, LeavesMore
  <1>2. CASE NewMigration(c) /\ Goto("second")
    <2>1. /\ place = "dump" /\ place' = "second" /\ UNCHANGED <<pulled, database>>
          /\ migrations' = Append(migrations, c)
          /\ job' = [job EXCEPT !.file = Len(migrations) + 1]
      BY <1>2 DEF DumpRemoteSchema, NewMigration, Goto
    <2>2. ~pulled /\ ~pulled'
      BY <2>1 DEF PullInv
    <2>3. job'.file = Len(migrations) + 1 /\ job'.quiet = job.quiet
      BY <2>1 DEF Shapes, Fields
    <2>4. ASSUME job.quiet PROVE PullSoFar'
      <3>1. migrations = <<>> /\ database.applied = {}
        BY <2>1, <2>4 DEF PullInv, PullSoFar
      <3>2. migrations' = <<c>> /\ job'.file = 1
        BY <2>1, <2>3, <3>1
      <3> QED BY <2>1, <3>1, <3>2 DEF PullSoFar
    <2>5. Listed'
      BY <2>1, OneMoreMigration DEF PullInv, Listed
    <2>6. DOMAIN database' = {"schema", "applied"}
      BY <2>1 DEF PullInv
    <2> QED BY <2>1, <2>2, <2>3, <2>4, <2>5, <2>6 DEF PullInv, PullSettles
  <1> QED BY <1>1, <1>2 DEF DumpRemoteSchema

\* What the dump has left out is added to it; nothing is dropped.
LEMMA SecondPassStep == Shapes /\ PullInv /\ SecondPass => PullInv'
  <1> SUFFICES ASSUME Shapes, PullInv, SecondPass PROVE PullInv'
    OBVIOUS
  <1> DEFINE file == Joined(migrations[job.file], Drift)
  <1>1. /\ place = "second" /\ place' = "history"
        /\ UNCHANGED <<pulled, job, database, isLocal, declared>>
        /\ migrations' = [migrations EXCEPT ![job.file] = file]
    BY DEF SecondPass, GoOn, Goto, bounds
  <1>2. ~pulled /\ ~pulled'
    BY <1>1 DEF PullInv
  <1>3. Listed'
    <2>1. PICK S : migrations \in Seq(S)
      BY DEF PullInv, Listed
    <2>2. migrations \in Seq(S \cup {file}) /\ DOMAIN migrations = 1 .. Len(migrations)
      BY <2>1, SeqMonotonic, LenProperties
    <2>3. CASE job.file \in 1 .. Len(migrations)
      <3> HIDE DEF file
      <3>1. migrations' \in Seq(S \cup {file})
        BY <1>1, <2>2, <2>3, ExceptSeq
      <3> QED BY <3>1 DEF Listed
    <2>4. CASE job.file \notin 1 .. Len(migrations)
      <3>1. migrations' = migrations
        BY <1>1, <2>1, <2>2, <2>4
      <3> QED BY <2>1, <3>1 DEF Listed
    <2> QED BY <2>3, <2>4
  <1>4. ASSUME job.quiet PROVE PullSoFar'
    <2> DEFINE s == database.schema
    <2>1. /\ migrations = <<Between({}, s \ Managed)>> /\ job.file = 1
          /\ database.applied = {}
      BY <1>1, <1>4 DEF PullInv, PullSoFar
    <2>2. migrations' = <<file>>
      BY <1>1, <2>1
    <2>3. Len(migrations') = 1 /\ 1 .. 1 - 1 = {}
      BY <2>2
    <2>4. ASSUME Itself PROVE Made(migrations') = s
      <3>1. Drift = Between(s \ Managed, s)
        BY <2>1, <2>4, MadeOfOne DEF Drift, Reached, Itself
      <3>2. migrations[job.file] = Between({}, s \ Managed)
        BY <2>1
      <3>3. file = Between({}, s)
        BY <3>1, <3>2 DEF Joined, Between
      <3> QED BY <2>2, <3>3, MadeOfOne
    <2>5. Itself' <=> Itself
      BY <1>1 DEF Itself
    <2>6. Made(migrations)' = Made(migrations')
      BY DEF Made, AlterAll
    <2> QED BY <1>1, <2>1, <2>3, <2>4, <2>5, <2>6 DEF PullSoFar
  <1> QED BY <1>1, <1>2, <1>3, <1>4 DEF PullInv, PullSettles

\* Later migrations have the difference to the database.
LEMMA DiffRemoteStep == Shapes /\ PullInv /\ DiffRemoteSchema => PullInv'
  <1> SUFFICES ASSUME Shapes, PullInv, DiffRemoteSchema PROVE PullInv'
    OBVIOUS
  <1>1. /\ place = "fetch" /\ place' = "history"
        /\ UNCHANGED <<pulled, database, isLocal, declared>>
        /\ migrations' = Append(migrations, Drift)
        /\ job' = [job EXCEPT !.file = Len(migrations) + 1]
    BY DEF DiffRemoteSchema, NewMigration, Goto, bounds
  <1>2. ~pulled /\ ~pulled'
    BY <1>1 DEF PullInv
  <1>3. job'.file = Len(migrations) + 1 /\ job'.quiet = job.quiet
    BY <1>1 DEF Shapes, Fields
  <1>4. /\ Listed' /\ Len(migrations) \in Nat /\ Len(migrations') = Len(migrations) + 1
        /\ AlterAll({}, migrations') = Alter(AlterAll({}, migrations), Drift)
    BY <1>1, OneMoreMigration DEF PullInv, Listed
  <1>5. ASSUME job.quiet PROVE PullSoFar'
    <2>1. database.applied = 1 .. Len(migrations)
      BY <1>1, <1>5 DEF PullInv, PullSoFar
    <2>2. ASSUME Itself PROVE Made(migrations)' = database.schema
      <3>1. Drift = Between(Made(migrations), database.schema)
        BY <2>2 DEF Drift, Reached, Itself
      <3> QED BY <1>4, <3>1, BetweenIsExact DEF Made
    <2>3. Itself' <=> Itself
      BY <1>1 DEF Itself
    <2>4. /\ job'.file = Len(migrations') /\ job'.file \in Nat \ {0}
          /\ 1 .. job'.file - 1 = 1 .. Len(migrations)
      BY <1>3, <1>4
    <2> QED BY <1>1, <2>1, <2>2, <2>3, <2>4 DEF PullSoFar
  <1>6. DOMAIN database' = {"schema", "applied"}
    BY <1>1 DEF PullInv
  <1> QED BY <1>1, <1>2, <1>3, <1>4, <1>5, <1>6 DEF PullInv, PullSettles

\* Now the history has this migration as well.
LEMMA HistoryStep == PullInv /\ UpdateHistory => PullInv'
  <1> SUFFICES ASSUME PullInv, UpdateHistory PROVE PullInv'
    OBVIOUS
  <1>1. CASE UNCHANGED database /\ Done
    BY <1>1, LeavesSides DEF UpdateHistory, Done, Pulling
  <1>2. CASE /\ database' = [database EXCEPT !.applied = @ \cup {job.file}]
             /\ place' = "idle" /\ pulled' = job.quiet
    <2>1. /\ place = "history"
          /\ UNCHANGED <<migrations, declared, isLocal>>
      BY DEF UpdateHistory, bounds
    <2>2. /\ DOMAIN database' = {"schema", "applied"}
          /\ database'.schema = database.schema
          /\ database'.applied = database.applied \cup {job.file}
      BY <1>2 DEF PullInv
    <2>3. ASSUME job.quiet PROVE PullSettles'
      <3>1. /\ job.file = Len(migrations) /\ job.file \in Nat \ {0}
            /\ database.applied = 1 .. job.file - 1
            /\ Itself => Made(migrations) = database.schema
        BY <2>1, <2>3 DEF PullInv, PullSoFar
      <3>2. database'.applied = 1 .. Len(migrations)
        BY <2>2, <3>1
      <3>3. (isLocal => declared = {})' => Itself
        BY <2>1 DEF Itself
      <3>4. Made(migrations)' = Made(migrations)
        BY <2>1 DEF Made, AlterAll
      <3> QED BY <2>1, <2>2, <3>1, <3>2, <3>3, <3>4 DEF PullSettles
    <2>4. PullSettles'
      BY <1>2, <2>3 DEF PullSettles
    <2>5. PullSoFar'
      BY <1>2 DEF PullSoFar
    <2>6. Listed'
      BY <2>1 DEF PullInv, Listed
    <2> QED BY <1>2, <2>2, <2>4, <2>5, <2>6 DEF PullInv
  <1> QED BY <1>1, <1>2 DEF UpdateHistory

\* Every step keeps the invariant.
LEMMA PullStep == Shapes /\ PullInv /\ [SchemaNext]_schemaVars => PullInv'
  <1> SUFFICES ASSUME Shapes, PullInv, [SchemaNext]_schemaVars PROVE PullInv'
    OBVIOUS
  <1>1. CASE UNCHANGED schemaVars
    <2>1. /\ UNCHANGED <<migrations, declared, database, isLocal, place, job, pulled>>
      BY <1>1 DEF schemaVars, sides, bounds
    <2> QED BY <2>1 DEF PullInv, Listed, PullSoFar, PullSettles, Itself, Made, AlterAll
  <1> QED BY <1>1, OtherSteps, DatabaseSteps, EditsPull, AssertStep, DumpStep,
             SecondPassStep, DiffRemoteStep, HistoryStep
          DEF SchemaNext

(***************************************************************************)
(* For any things, migrations and edits: once a db pull has recorded its   *)
(* migration, and until somebody edits a file or the database, the         *)
(* migrations make the schema of the database and its history has them all.*)
(***************************************************************************)
THEOREM PullAlwaysSettles == SchemaSpec => []PullSettles
  <1>1. PullInv => PullSettles
    BY DEF PullInv
  <1>2. SyncInv => Shapes
    BY DEF SyncInv
  <1>3. SyncInv /\ PullInv /\ [SchemaNext]_schemaVars => SyncInv' /\ PullInv'
    BY <1>2, SyncStep, PullStep
  <1> QED BY <1>1, <1>3, InitSync, InitPull, PTL DEF SchemaSpec
=============================================================================
