CONSTANTS
  NoVersion = NoVersion
  NoHook = NoHook
  NoThread = NoThread
  Nil = Nil
  k1 = k1
  k2 = k2
  t1 = t1
  t2 = t2
  t3 = t3
  h1 = h1
  h2 = h2
  Keys = {k1, k2}
  Threads = {t1, t2}
  Hooks = {h1, h2}
  Ops = {"put", "getver", "snapshot", "reset"}
  RawVersions = {1}
  Filters <- AllKeys
  MaxWrites = 3
SPECIFICATION Spec
SYMMETRY Sym
CHECK_DEADLOCK FALSE
INVARIANTS
  LoadFresh
  NewestLast
  PointInTime
  SnapshotNoGap
PROPERTIES
  LatestNeverRegresses
  NothingForgotten
  Linearizable
