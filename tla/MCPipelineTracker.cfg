SPECIFICATION Spec
CONSTANTS
  Capacity = 4
  StageIds = {1, 2, 3}
  FirstStage = 1
  LastStage = 3
  Plan <- TwoJoinsPlan
  Segments <- TwoJoins
  Inputs = 1
  MaxFanout = 2
  Budgets = {1}
INVARIANT RemainingChildren
