CONSTANTS
  NoVersion = NoVersion
  NoStream = NoStream
  k1 = k1
  k2 = k2
  j1 = j1
  j2 = j2
  w1 = w1
  w2 = w2
  Keys = {k1, k2}
  Joiners = {j1, j2}
  Covers <- Nested
  Streams <- Three
  Writers = {w1, w2}
  Limits <- Mixed
SPECIFICATION Spec
SYMMETRY Sym
CHECK_DEADLOCK FALSE
INVARIANTS
  WriteAccounted
  AvailableHasSnapshot
  RestampsAtMostFirst
  StreamInOrder
  NoHookAfterStop
  ResetAssigned
