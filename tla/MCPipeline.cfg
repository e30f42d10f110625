SPECIFICATION FairSpec
CONSTANTS
  Capacity = 3
  StageIds = {1, 2}
  FirstStage = 1
  LastStage = 2
  Plan <- TwoStagesPlan
  Segments <- TwoStages
  Inputs = 2
  MaxFanout = 2
  Budgets = {1, 2}
INVARIANTS Ledger PinCovered CleanReturn
PROPERTIES ImplementsDataflow Termination
