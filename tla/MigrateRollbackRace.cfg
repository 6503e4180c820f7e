CONSTANTS
  p1 = p1
  p2 = p2
  N = 1
  Procs = {p1, p2}
  Provider = "sqlite"
  DataOnly = {}
  RollbackKinds = {"sql"}
  MaxRuns = 3
SPECIFICATION Spec
SYMMETRY Symmetry
INVARIANT RolledBackMeansUndone
CHECK_DEADLOCK FALSE
