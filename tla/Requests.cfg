CONSTANTS
  None = None
  NoVersion = NoVersion
  n1 = n1
  n2 = n2
  n3 = n3
  r1 = r1
  Ids = {n1, n2, n3}
  TotalSlots = 4
  Eokr <- Eokrs
  Token = 0
  Clusters <- Various
  Replicas = 2
  Writes = {1, 2}
  Reads = {r1}
  ReadQuorums <- AnyRead
  WriteQuorums <- AnyWrite
SPECIFICATION Spec
CHECK_DEADLOCK FALSE
INVARIANTS
  CountedCopies
  WrittenOnce
  OwnerReadFresh
  QuorumReadFresh
  VersionsDiffer
