CONSTANTS
  NumJobs = 1
  Cap = 0
SPECIFICATION FairSpec
PROPERTIES
  CallerReturns
CHECK_DEADLOCK FALSE
