\* Two processes on MySQL, where migration 1 changes data only and migration 2 is DDL.
CONSTANTS
  p1 = p1
  p2 = p2
  N = 2
  Procs = {p1, p2}
  Provider = "mysql"
  DataOnly = {1}
  RollbackKinds = {"sql"}
  MaxRuns = 3
SPECIFICATION FairSpec
INVARIANTS
  TypeOK
  HistoryIsTruthful
  OpenTransactionsHold
PROPERTIES
  SummaryIsHonest
  RecordedAfterExecuted
  CommandsFinish
CHECK_DEADLOCK FALSE
