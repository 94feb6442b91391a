CONSTANTS
  None = None
  n1 = n1
  n2 = n2
  n3 = n3
  Seed = n1
  Ids = {n1, n2, n3}
  TotalSlots = 4
  Eokr <- Quarters
  SeedEokrs <- Readings
  Cutoff = {n2}
  Replicas = 1
  MaxLate = 1
SPECIFICATION FairSpec
CHECK_DEADLOCK FALSE
INVARIANTS
  ServedByOwner
  AlwaysOwned
  HopsBounded
  SourceFound
  ReplicasFollowOwner
PROPERTIES
  HopsDescend
  RequestEnds
