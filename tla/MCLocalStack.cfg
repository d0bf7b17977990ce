CONSTANTS
  Switches <- MCSwitches
  Exclusions <- MCExclusions
  Majors = {14, 15}
  Hosts = {"unix", "npipe"}
  MaxFaults = 1
  MaxCommands = 3
CHECK_DEADLOCK FALSE
SPECIFICATION Spec
INVARIANTS
  VolumeMeansSetUp
  SuccessMeansUp
  FailsForAReason
PROPERTIES
  KeepsData
  CommandEnds
