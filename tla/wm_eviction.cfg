CONSTANTS
  t1 = t1
  t2 = t2
  p1 = p1
  p2 = p2
  Evictor = Evictor
  None = None
  Stray = Stray
  Plugins = {p1}
  Threads = {t1}
  MaxProcs = 2
  MaxRequests <- Two
  MaxFaults = 0
  Ops <- AllOps
  Noisy = {}
  Unspawnable = {}
  Outcomes = {"ok"}
  EvictionActive = TRUE
SPECIFICATION FairSpec
CHECK_DEADLOCK FALSE
PROPERTIES
  StoppedWorkerDies
  IdleWorkerEvicted
