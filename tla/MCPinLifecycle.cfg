SPECIFICATION Spec
CONSTANTS
  q1 = q1
  Queries = {q1, q2}
  Tuples = {t1, t2}
  QueryOf <- OneQuery
  Requests = {r1, r2}
  Monitor = Monitor
  Endpoint = Endpoint
  Nobody = Nobody
  None = None
  STUCK_CONFIRMATION_COUNT = 1
  MaxGiveUps = 1
SYMMETRY Symmetry
INVARIANTS KeptIsKnown PinHeld CleanupLeavesNothing
CHECK_DEADLOCK FALSE
