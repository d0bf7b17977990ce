CONSTANTS
  NumJobs = 4
  Cap = 2
SPECIFICATION BulkFairSpec
INVARIANTS
  BoundedConcurrency
  SendNeverBlocks
  NoErrorLost
  ReportedOnce
  AllOrNothing
PROPERTIES
  CallerReturns
  PoolSpec
