CONSTANTS
  v1 = v1
  v2 = v2
  None = None
  Versions = {v1, v2}
  Requirements = {v2}
  ShipsVenv = {v2}
  ShippedStatus <- OkInV2
  Entries = {"plugin", "zip"}
  FileLocks = TRUE
  UvStarts = {TRUE, FALSE}
  StatusOpens = {TRUE, FALSE}
  MaxInstalls = 4
  MaxCrashes = 2
SPECIFICATION Spec
CHECK_DEADLOCK FALSE
INVARIANTS
  ReadyMeansComplete
  WorkerRunsInstalled
PROPERTIES
  SlotImplemented
