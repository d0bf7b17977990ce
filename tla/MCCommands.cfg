CONSTANTS
  Widths = {1, 2}
  Versions <- Strings
  Other <- MCOther
  Deprecated <- MCDeprecated
  Precedes <- MCPrecedes
  DirOrder <- MCDirOrder
  MaxFiles = 3
  Values <- MCValues
  Secrets = {h1}
  NoSecret = none
  Variable <- MCVariable
  MaxWrites = 1
  MaxNesting = 4
  NumNames = 2
  MaxDepth = 3
  Given <- MCGiven
  PAGE_LIMIT = 1
  MaxObjects = 2
  MaxUploads = 1
  Things = {a, b}
  Managed = {b}
  SeedThings = {b}
  catalogRetentionCount = 2
  MaxMigrations = 2
  MaxTurns = 2
  MaxEdits = 1
CHECK_DEADLOCK FALSE
SPECIFICATION CommandSpec
INVARIANTS
  PendingIsDifference
  SlicesInBounds
  RefusalIsExact
  OldestFirst
  PushSettles
  SplitsAtStatements
  RemovesAll
  MovesAll
  SyncIsExact
  RefsReadable
  PullSettles
PROPERTIES
  OnlyShownChanges
  UndeclaredKept
  CostConfirmed
