CONSTANTS
  Dirs = {functions, shared}
  MaxEdits = 3
  MaxFaults = 1
CHECK_DEADLOCK FALSE
SPECIFICATION Spec
INVARIANTS
  NoChangeMissed
  RestartsAreCaused
  SurvivesRestarts
PROPERTIES
  ServesLatest
  LogsFollowed
