\* One process at a time on a database with transactional DDL.
CONSTANTS
  p1 = p1
  p2 = p2
  N = 2
  Procs = {p1}
  Provider = "sqlite"
  DataOnly = {}
  RollbackKinds = {"sql", "missing"}
  MaxRuns = 5
SPECIFICATION Spec
PROPERTY ImplementsLedger
CHECK_DEADLOCK FALSE
