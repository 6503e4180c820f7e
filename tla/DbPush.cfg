\* Two processes, three commands, each of the three databases.
CONSTANTS
  p1 = p1
  p2 = p2
  Procs = {p1, p2}
  Lower <- MCLower
  Providers = {"postgresql", "mysql", "sqlite"}
  Schemas <- MCSchemas
  FirstCatalogs <- MCFirstCatalogs
  MaxCommands = 3
SYMMETRY Symmetry
SPECIFICATION Spec
INVARIANTS
  TypeOK
  PushedIsTarget
  RollbackRestores
  NextPushRuns
PROPERTIES
  KeepsItsData
CHECK_DEADLOCK FALSE
