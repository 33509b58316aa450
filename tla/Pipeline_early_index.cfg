CONSTANTS
  r1 = r1
  r2 = r2
  r3 = r3
  Drives <- OneDrive
  Parallelism = 1
  Producers = {1}
  Sessions = {r1}
  HubReader = HubReader
  Indexer = Indexer
  NoChunk = NoChunk
  MaxBudget = 1
  MaxErrors = 0
  MaxTimeouts = 0
  UserCancels = FALSE
  Prompt = TRUE
  FeedsFirst = FALSE
SPECIFICATION Spec
INVARIANTS
  IndexAfterLastChunk

CHECK_DEADLOCK FALSE
