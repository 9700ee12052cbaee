CONSTANTS
  t1 = t1
  t2 = t2
  p1 = p1
  p2 = p2
  Evictor = Evictor
  None = None
  Stray = Stray
  Plugins = {p1, p2}
  Threads = {t1, t2}
  MaxProcs = 2
  MaxRequests <- TwoAndOne
  MaxFaults = 0
  Ops <- CallsAndOneStops
  Noisy = {p2}
  Unspawnable = {}
  Outcomes = {"ok"}
  EvictionActive = FALSE
SPECIFICATION Spec
CHECK_DEADLOCK FALSE
INVARIANTS
  PluginIsolation
  MappedWorkerUsable
  StrayOnlyOnDropped
  NoReplyTwice
PROPERTIES
  LiveWorkerNotReplaced
