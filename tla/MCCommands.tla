----------------------------- MODULE MCCommands -----------------------------
(***************************************************************************)
(* Commands that run on their own, for TLC: what db push computes (the     *)
(* pending migrations, the statements of a migration file), config push,   *)
(* storage rm and mv, and the commands on schemas and their catalogs.      *)
(* They share nothing here: one is given all its inputs while the others   *)
(* have none.                                                              *)
(***************************************************************************)
EXTENDS MCPendingMigrations, ConfigSync, SqlSplitter, StorageObjects, SchemaSync

MCValues == {0, 1, 2}

\* Each setting on its own, and with one that it could disturb.
MCVariable ==
  {{k} : k \in Settings} \cup
  {{"schemas", "max_rows"}, {"schemas", "search_path"}, {"smtp", "email_rate"},
   {"hook", "web3"}, {"sms", "test_otp"}, {"sessions", "plain"},
   {"buckets", "transformation"}, {}}

\* A bucket, two directories in it, and one in the first.
MCGiven == {<<>>, <<1>>, <<2>>, <<1, 1>>}

NoMigrations == entries = <<>> /\ remote = <<>> /\ includeAll = FALSE
NoSettings == varied = {} /\ enabled = {}
NoObjects ==
  first = {} /\ command = [op |-> "rm", from |-> <<>>, to |-> <<>>, recursive |-> FALSE]
NoSchemas ==
  /\ declared = {} /\ isLocal = TRUE /\ database = [schema |-> {}, applied |-> {}]
  /\ snapshots = [migrations |-> {}, declared |-> {}]

\* A database begins with nothing or with everything, and is altered later.
FullOrEmpty == database.schema \in {{}, Things}

CommandInit ==
  \/ /\ NoSettings /\ NoObjects /\ NoSchemas
     /\ ConfigInit /\ StorageInit /\ SchemaInit /\ SplitInit /\ Init
  \/ /\ NoMigrations /\ NoObjects /\ NoSchemas
     /\ Init /\ StorageInit /\ SchemaInit /\ SplitInit /\ ConfigInit
  \/ /\ NoMigrations /\ NoSettings /\ NoSchemas
     /\ Init /\ ConfigInit /\ SchemaInit /\ SplitInit /\ StorageInit
  \/ /\ NoMigrations /\ NoSettings /\ NoObjects
     /\ Init /\ ConfigInit /\ StorageInit /\ SplitInit /\ SchemaInit /\ FullOrEmpty

\* Each runs while the others are where they began.
NoneListed == NoMigrations /\ pc = "list"
NonePushed == NoSettings /\ step = "idle" /\ ended = "none"
NoneTried == NoObjects /\ phase = "try"
NoneRead == glue = "none"
NoneSynced == NoSchemas /\ place = "idle" /\ turns = 0 /\ edits = 0

CommandNext ==
  \/ /\ NonePushed /\ NoneTried /\ NoneRead /\ NoneSynced
     /\ Next /\ UNCHANGED <<configVars, splitterVars, storageVars, schemaVars>>
  \/ /\ NoneListed /\ NoneTried /\ NoneRead /\ NoneSynced
     /\ ConfigNext /\ UNCHANGED <<vars, splitterVars, storageVars, schemaVars>>
  \/ /\ NoneListed /\ NonePushed /\ NoneRead /\ NoneSynced
     /\ StorageNext /\ UNCHANGED <<vars, configVars, splitterVars, schemaVars>>
  \/ /\ NoneListed /\ NonePushed /\ NoneTried /\ NoneSynced
     /\ SplitNext /\ UNCHANGED <<vars, configVars, storageVars, schemaVars>>
  \/ /\ NoneListed /\ NonePushed /\ NoneTried /\ NoneRead
     /\ SchemaNext /\ UNCHANGED <<vars, configVars, splitterVars, storageVars>>

CommandSpec ==
  /\ CommandInit
  /\ [][CommandNext]_<<vars, configVars, splitterVars, storageVars, schemaVars>>
=============================================================================
