CONSTANTS
  c1 = c1
  c2 = c2
  h1 = h1
  h2 = h2
  None = None
  Clients = {c1, c2}
  Versions = {1, 2, 3}
  Newest = 4
  Hashes = {h1, h2}
  Commands = {"push", "all", "reset", "repair", "fetch"}
  Exclusive = TRUE
  MaxRuns = 2
  MaxFaults = 1
  MaxEdits = 1
  MaxAdmin = 1
CHECK_DEADLOCK FALSE
SPECIFICATION Spec
SYMMETRY Symmetry
INVARIANTS
  SeedOnce
  SeedHonest
PROPERTIES
  ChronologicalOrder
  EndsComplete
