\* Two goroutines and one connection more; three levels of nesting, on a database that
\* fails statements (PostgreSQL) and on one that replaces savepoints and picks deadlock
\* victims (MySQL).  Schemas of two models and up to three features in all.
CONSTANTS
  c1 = c1
  c2 = c2
  Clients = {c1, c2}
  Providers = {"postgresql", "mysql"}
  NestedCalls = {TRUE, FALSE}
  MaxRecords = 2
  PoolSize = 3
  w1 = w1
  w2 = w2
  Works = {w1, w2}
  MaxDepth = 3
  MaxSavepoints = 5
  Lines <- MCLines
  Databases = {"postgresql", "mysql", "sqlite"}
  MaxFeatures = 3
SPECIFICATION WritesSpec
INVARIANTS
  WritesTypeOK
  StoredAsReturned
  SavepointsNest
  ServedClientsWork
  RecordsAreTheirOwn
PROPERTIES
  WritesReturn
  ImplementsNesting
