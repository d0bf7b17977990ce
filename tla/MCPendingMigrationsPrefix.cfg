CONSTANTS
  Widths = {1, 2}
  Versions <- Strings
  Other <- MCOther
  Deprecated <- MCDeprecated
  Precedes <- MCPrecedes
  DirOrder <- MCDirOrder
  MaxFiles = 2
CHECK_DEADLOCK FALSE
SPECIFICATION Spec
INVARIANTS
  UpToDate
