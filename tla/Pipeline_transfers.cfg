CONSTANTS
  r1 = r1
  r2 = r2
  r3 = r3
  Drives <- OneDrive
  Parallelism = 1
  Producers = {1}
  Sessions = {r1, r2}
  HubReader = HubReader
  Indexer = Indexer
  NoChunk = NoChunk
  MaxBudget = 1
  MaxErrors = 1
  MaxTimeouts = 1
  UserCancels = FALSE
  Prompt = TRUE
  FeedsFirst = TRUE
SPECIFICATION Spec
INVARIANTS
  TypeOK
  FeedNotForgotten
PROPERTIES
  ImplementsBackupJob
CHECK_DEADLOCK FALSE
