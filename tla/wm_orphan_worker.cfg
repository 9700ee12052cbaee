CONSTANTS
  t1 = t1
  t2 = t2
  p1 = p1
  p2 = p2
  Evictor = Evictor
  None = None
  Stray = Stray
  Plugins = {p1}
  Threads = {t1}
  MaxProcs = 3
  MaxRequests <- One
  MaxFaults = 2
  Ops <- OnlyCalls
  Noisy = {}
  Unspawnable = {}
  Outcomes = {"ok"}
  EvictionActive = FALSE
SPECIFICATION Spec
CHECK_DEADLOCK FALSE
INVARIANTS
  AtMostOneLiveWorker
