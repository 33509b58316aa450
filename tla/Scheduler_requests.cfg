CONSTANTS
  s1 = s1
  s2 = s2
  n1 = n1
  u1 = u1
  BackupSets = {s1}
  Nodes = {n1}
  HandlingNode <- OneNode
  Users = {u1}
  Scheduler = Scheduler
  NoSet = NoSet
  UserRequests = {"Start", "Cancel", "Pause"}
  MaxTasks = 1
  MaxRetries = 1
  MaxRequests = 2
  MaxCrashes = 0
  MaxWire = 1
SPECIFICATION FairSpec
PROPERTIES
  PendingResolves
  EndedLeavesQueue
