CONSTANTS
  c1 = c1
  c2 = c2
  n1 = n1
  n2 = n2
  n3 = n3
  Clients = {c1, c2}
  Stores = {n1}
  Priority <- FirstPreferred
  Setups <- Shared
  FirstBudget = 2
  Renewal = 2
  MaxIds = 3
  Prompt = FALSE
SPECIFICATION Spec
INVARIANTS
  LoadIsSessions
CHECK_DEADLOCK FALSE
