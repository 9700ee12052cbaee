CONSTANTS
  v1 = v1
  v2 = v2
  None = None
  Versions = {v1, v2}
  Requirements = {v2}
  ShipsVenv = {v2}
  ShippedStatus <- OkInV2
  Entries = {"plugin"}
  FileLocks = FALSE
  UvStarts = {TRUE}
  StatusOpens = {TRUE}
  MaxInstalls = 4
  MaxCrashes = 0
SPECIFICATION FairSpec
CHECK_DEADLOCK FALSE
INVARIANTS
  NothingLeftBehind
PROPERTIES
  InstallFinishes
