CONSTANTS
  c1 = c1
  c2 = c2
  Clients = {c1, c2}
  Nodes <- Named3
  NoHost = ""
  Top = 3
  TopReads = {2, 3}
  MaxRequests = 4
SPECIFICATION Spec
SYMMETRY Sym
CHECK_DEADLOCK FALSE
INVARIANTS
  AscendingToTop
  ListAsRequested
  BroadcastInforms
