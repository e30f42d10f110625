SPECIFICATION Spec
CONSTANTS
  Capacity = 6
  Estimates = {0, 2, 4}
  VirtualPinning = TRUE
  MaxOps = 5
INVARIANTS OnlyJoinBeforeJoinLost EarlyStagesFanOut EveryPinGivenBack GrantsUsable LaterIsMoreUrgent
