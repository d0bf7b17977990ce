CONSTANTS
  c1 = c1
  c2 = c2
  f1 = f1
  f2 = f2
  Absent = Absent
  Clients = {c1, c2}
  Functions = {f1, f2}
  WithPrune = TRUE
  MaxDeploys = 1
  MaxFaults = 0
CHECK_DEADLOCK FALSE
SPECIFICATION Spec
PROPERTIES
  PruneKeepsLocal
