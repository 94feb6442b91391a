CONSTANTS
  None = None
  n1 = n1
  n2 = n2
  n3 = n3
  Seed = n1
  Ids = {n1, n2, n3}
  TotalSlots = 4
  Eokr <- Quarters
  SeedEokrs <- AllRight
  Cutoff = {}
  Replicas = 1
  MaxLate = 0
SPECIFICATION Spec
CHECK_DEADLOCK FALSE
INVARIANTS
  SourceIsOwner
