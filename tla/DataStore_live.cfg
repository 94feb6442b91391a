CONSTANTS
  NoVersion = NoVersion
  NoHook = NoHook
  NoThread = NoThread
  Nil = Nil
  k1 = k1
  k2 = k2
  t1 = t1
  t2 = t2
  t3 = t3
  h1 = h1
  h2 = h2
  Keys = {k1}
  Threads = {t1, t2, t3}
  Hooks = {h1}
  Ops = {"put", "get", "snapshot"}
  RawVersions = {}
  Filters <- OneKey
  MaxWrites = 2
SPECIFICATION FairSpec
CHECK_DEADLOCK FALSE
INVARIANTS
  VersionsCount
PROPERTIES
  EveryCallTakesEffect
