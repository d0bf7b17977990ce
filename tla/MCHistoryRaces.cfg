CONSTANTS
  c1 = c1
  c2 = c2
  h1 = h1
  None = None
  Clients = {c1, c2}
  Versions = {1, 2}
  Newest = 3
  Hashes = {h1}
  Commands = {"push", "all", "reset", "repair", "fetch"}
  Exclusive = FALSE
  MaxRuns = 2
  MaxFaults = 1
  MaxEdits = 1
  MaxAdmin = 1
CHECK_DEADLOCK FALSE
SPECIFICATION Spec
SYMMETRY Symmetry
INVARIANTS
  TypeOK
  HistoryHonest

