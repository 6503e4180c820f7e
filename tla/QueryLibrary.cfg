\* Two calls that nest builders, and any that add conditions; a query of v3 with two options.
CONSTANTS
  MaxBuilders = 3
  MaxConditions = 3
  Mixes <- MCMixes
  Queries <- MCQueries
  MaxCalls = 2
  Operators <- MCOperators
  Requests <- MCRequests
  MaxOptions = 2
SPECIFICATION LibrarySpec
INVARIANTS
  StatementsBind
  TouchesWhatWasAsked
  CompiledAsAsked
CHECK_DEADLOCK FALSE
