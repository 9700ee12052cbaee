CONSTANTS
  MaxSessions = 3
  MaxRetries = 3
SPECIFICATION Spec
CHECK_DEADLOCK FALSE
INVARIANTS
  RequestsAccepted
PROPERTIES
  HealthConverges
  DeathNoticed
  BootstrapSettles
