CONSTANTS
  r1 = r1
  r2 = r2
  r3 = r3
  Drives <- TwoDrives
  Parallelism = 1
  Producers = {1, 2}
  Sessions = {r1, r2}
  HubReader = HubReader
  Indexer = Indexer
  NoChunk = NoChunk
  MaxBudget = 1
  MaxErrors = 1
  MaxTimeouts = 0
  UserCancels = FALSE
  Prompt = FALSE
  FeedsFirst = FALSE
SPECIFICATION Spec
INVARIANTS
  ChunkNotForgotten
  IndexedOnce

CHECK_DEADLOCK FALSE
