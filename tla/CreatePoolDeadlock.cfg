\* As many connections as goroutines.
CONSTANTS
  c1 = c1
  c2 = c2
  Clients = {c1, c2}
  Providers = {"postgresql"}
  NestedCalls = {TRUE}
  MaxRecords = 2
  PoolSize = 2
SPECIFICATION Spec
PROPERTY WritesReturn
CHECK_DEADLOCK FALSE
