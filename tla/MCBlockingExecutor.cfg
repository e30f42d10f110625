SPECIFICATION FairSpec
CONSTANTS
  Executors = {e1, e2}
  Capacity = 3
  Budgets = {1, 2, 4}
  Seeds = 4
  Concurrency = 2
  MaxRaises = 2
INVARIANTS GlobalUsedExact ResultsComplete
PROPERTIES EndsStarvesOrDeserted EveryCallEnds
CHECK_DEADLOCK FALSE
