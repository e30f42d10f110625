SPECIFICATION Spec
CONSTANTS
  Engines = {0, 1}
  Clients = {"c1"}
  Requests = {"r1"}
  Owner <- OwnerOf
  Needs <- NeedsOf
  SyncSteps = 2
  Abortable = {"r1"}
  MaxNews = 1
INVARIANT NobodyLeftBehind
CHECK_DEADLOCK FALSE
