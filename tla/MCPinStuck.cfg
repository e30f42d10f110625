SPECIFICATION FairSpec
CONSTANTS
  q1 = q1
  Queries = {q1}
  Tuples = {t1}
  QueryOf <- OneQuery
  Requests = {r1, r2}
  Monitor = Monitor
  Endpoint = Endpoint
  Nobody = Nobody
  None = None
  STUCK_CONFIRMATION_COUNT = 2
  MaxGiveUps = 1
PROPERTY StuckIsRelieved
CHECK_DEADLOCK FALSE
