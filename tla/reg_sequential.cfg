CONSTANTS
  t1 = t1
  t2 = t2
  p1 = p1
  Evictor = Evictor
  None = None
  Stray = Stray
  Plugins = {p1}
  Threads = {t1}
  MaxProcs = 2
  MaxRequests <- Six
  MaxFaults = 1
  Ops <- ManagerOps
  Noisy = {}
  Unspawnable = {}
  Outcomes = {"ok"}
  EvictionActive = FALSE
  Routes <- AllRoutes
  MaxRouted <- Two
  MaxInstalls = 1
  InstallOutcomes = {"ok"}
  Archives <- Shipped
SPECIFICATION RegistryFairSpec
CHECK_DEADLOCK FALSE
INVARIANTS
  DisabledHasNoWorker
  AnswerAgrees
PROPERTIES
  RequestsAnswered
