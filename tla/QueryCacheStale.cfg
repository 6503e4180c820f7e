CONSTANTS
  c1 = c1
  c2 = c2
  Clients = {c1, c2}
  Tables <- OneTable
  Queries <- OneQuery
  MaxWrites = 1
  Shown = 2
  None = None
SPECIFICATION Spec
SYMMETRY Symmetry
INVARIANT ReadsFollowWrites
