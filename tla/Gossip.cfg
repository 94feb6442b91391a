CONSTANTS
  Unknown = Unknown
  n1 = n1
  n2 = n2
  Seed = n1
  Nodes = {n1, n2}
  Cutoff = {n2}
  MaxRestamps = 0
  Lossy = TRUE
SPECIFICATION FairSpec
INVARIANTS
  CountsMatch
  NothingInvented
PROPERTIES
  Converges
