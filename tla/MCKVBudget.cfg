SPECIFICATION Spec
CONSTANTS
  Capacity = 40
  StageIds = {1, 2}
  Clients = {c1, c2}
  Budgets = {3, 19}
  Grants <- MCGrants
SYMMETRY ClientSymmetry
INVARIANTS UsedExact InflightExact OverCommitIsForced
PROPERTY CapacityMoves
