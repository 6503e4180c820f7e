CONSTANTS
  p1 = p1
  p2 = p2
  Procs = {p1, p2}
  Written = {1, 2}
  Reversible = {1}
  MaxMigration = 3
  Provider = "sqlite"
  Connected = TRUE
  Callers = {g1, g2}
  PoolSize = 1
  BatchSize = 2
  MaxCalls = 2
  MaxPools = 2
  Chains <- MCChains
  MaxRetries = 1
  MaxGoroutines = 3
SPECIFICATION V3Spec
INVARIANTS
  V3TypeOK
  AppliedIsExecuted
  AllOrNothing
  EnteredOnce
PROPERTIES
  InOrder
  CommandsEnd
  ConnectionsReturn
  GoroutinesEnd
CHECK_DEADLOCK FALSE
