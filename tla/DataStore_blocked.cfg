CONSTANTS
  NoVersion = NoVersion
  NoHook = NoHook
  NoThread = NoThread
  Nil = Nil
  k1 = k1
  k2 = k2
  t1 = t1
  t2 = t2
  t3 = t3
  h1 = h1
  h2 = h2
  Keys = {k1}
  Threads = {t1, t2}
  Hooks = {h1}
  Ops = {"getver", "snapshot"}
  RawVersions = {}
  Filters <- OneKey
  MaxWrites = 0
SPECIFICATION Spec
CHECK_DEADLOCK FALSE
INVARIANTS
  NoWaitCycle
