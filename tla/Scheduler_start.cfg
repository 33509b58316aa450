CONSTANTS
  s1 = s1
  s2 = s2
  n1 = n1
  u1 = u1
  BackupSets = {s1}
  Nodes = {n1}
  HandlingNode <- OneNode
  Users = {u1}
  Scheduler = Scheduler
  NoSet = NoSet
  UserRequests = {"Start"}
  MaxTasks = 2
  MaxRetries = 0
  MaxRequests = 1
  MaxCrashes = 1
  MaxWire = 1
SPECIFICATION Spec
INVARIANTS
  TypeOK
  PassKeepsItsPlace
  NoTaskForgotten
