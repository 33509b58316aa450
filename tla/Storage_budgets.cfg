CONSTANTS
  c1 = c1
  c2 = c2
  n1 = n1
  n2 = n2
  n3 = n3
  Clients = {c1}
  Stores = {n1, n2, n3}
  Priority <- FirstPreferred
  Setups <- Varied
  FirstBudget = 3
  Renewal = 2
  MaxIds = 3
  Prompt = TRUE
SPECIFICATION FairSpec
INVARIANTS
  TypeOK
  ToldWhenReady
  BudgetCovered
  RoomForEveryBudget
  SpaceHeld
PROPERTIES
  BackupEnds
CHECK_DEADLOCK FALSE
