CONSTANTS
  c1 = c1
  c2 = c2
  h1 = h1
  None = None
  Clients = {c1, c2}
  Versions = {1, 2}
  Newest = 3
  Hashes = {h1}
  Commands = {"push"}
  Exclusive = FALSE
  MaxRuns = 2
  MaxFaults = 0
  MaxEdits = 0
  MaxAdmin = 0
CHECK_DEADLOCK FALSE
SPECIFICATION Spec
PROPERTIES
  ChronologicalOrder
