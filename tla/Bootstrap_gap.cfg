CONSTANTS
  NoVersion = NoVersion
  NoStream = NoStream
  k1 = k1
  k2 = k2
  j1 = j1
  j2 = j2
  w1 = w1
  w2 = w2
  Keys = {k1}
  Joiners = {j1}
  Covers <- All
  Streams <- One
  Writers = {w1}
  Limits <- Least
SPECIFICATION Spec
CHECK_DEADLOCK FALSE
INVARIANTS
  ReplicationIsComplete
