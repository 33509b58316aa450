CONSTANTS
  r1 = r1
  r2 = r2
  r3 = r3
  Drives <- OneChunk
  Parallelism = 2
  Producers = {1, 2, 3}
  Sessions = {r1}
  HubReader = HubReader
  Indexer = Indexer
  NoChunk = NoChunk
  MaxBudget = 1
  MaxErrors = 0
  MaxTimeouts = 0
  UserCancels = TRUE
  Prompt = TRUE
  FeedsFirst = TRUE
SPECIFICATION FairSpec
PROPERTIES
  JobEnds
  CancelReturns
CHECK_DEADLOCK FALSE
