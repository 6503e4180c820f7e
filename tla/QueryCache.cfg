\* Two goroutines and two tables; a cache of two places that overflows.
CONSTANTS
  c1 = c1
  c2 = c2
  Clients = {c1, c2}
  Tables <- TwoTables
  Queries <- AlikeAndJoin
  MaxWrites = 1
  Shown = 2
  None = None
  CacheKeys = {k1, k2, k3}
  Vals = {v1, v2}
  Ttls = {"later"}
  MaxSize = 2
  MaxNodes = 4
SPECIFICATION ReadsSpec
SYMMETRY AllSymmetry
INVARIANTS
  TypeOK
  AnswersOwnQuery
  AnswersConsistent
PROPERTY NeverStale
