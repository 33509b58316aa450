CONSTANTS
  s1 = s1
  n1 = n1
  u1 = u1
  BackupSets = {s1}
  Nodes = {n1}
  HandlingNode <- OneNode
  Users = {u1}
  Scheduler = Scheduler
  NoSet = NoSet
  UserRequests = {}
  MaxTasks = 2
  MaxRetries = 0
  MaxRequests = 0
  MaxCrashes = 0
  MaxWire = 1
  MaxReports = 2
SPECIFICATION FairJobsSpec
INVARIANTS
  JobsTypeOK
  OneJobPerSet
  ErrorRecorded
  DoneMeansOver
PROPERTIES
  ReceivedEnds
