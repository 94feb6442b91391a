CONSTANTS
  w1 = w1
  w2 = w2
  w3 = w3
  Work = {w1, w2, w3}
  Quorums = {0, 1, 2, 3}
SPECIFICATION FairSpec
CHECK_DEADLOCK FALSE
INVARIANTS
  QuorumInOutput
  CountHonest
PROPERTIES
  CallerReturns
  CountsTruly
