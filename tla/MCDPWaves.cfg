SPECIFICATION FairSpec
CONSTANTS
  Engines = {0, 1}
  Clients = {"c1", "c2"}
  Requests = {"r1", "r2"}
  Owner <- OwnerOf
  Needs <- NeedsOf
  SyncSteps = 2
  Abortable = {"r1"}
  MaxNews = 1
INVARIANTS WavesAgree LeftBehindOnlyThen
PROPERTY WavesEnd
CHECK_DEADLOCK FALSE
