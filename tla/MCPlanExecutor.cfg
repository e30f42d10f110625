SPECIFICATION FairSpec
CONSTANTS
  Queries <- SomeQueries
  Ks = {1, 3, 4}
  MERGE_RANK_THRESHOLD = 3
  TokenLens = {1, 2, 6}
  max_tokens = 6
  instruction_overhead = 1
  per_doc_overhead = 1
  concurrency = 2
  Capacity = 24
  MaxFanout = 2
  Tables <- SomeTables
  Score <- Scores
  Matches <- Accepted
  Operators <- SomeOperators
  MaxRaises = 2
  MaxTrouble = 2
INVARIANTS ChunksFit EveryDocumentOnce EnoughAndOnce BestInOrder OneTable GivesUpOnlyThen JoinAnswer
PROPERTY Termination
CHECK_DEADLOCK FALSE
