CONSTANTS
  j1 = j1
  j2 = j2
  u1 = u1
  u2 = u2
  Jobs = {j1}
  Workers = {w1, w2}
  Users = {u1}
  UserOf <- SameUser
  Texts = {}
  MaxActions = 1
  MaxLag = 0
  MaxFaults = 1
  MaxCrashes = 1
  MaxExpiries = 1
  NoUuid = NoUuid
  Null = Null
  NoJob = NoJob
SPECIFICATION FairSpec
INVARIANTS
  AcceptedJobIsSafe
  RunsHaveCauses
PROPERTIES
  LifecycleSpec
  JobsSettle
CHECK_DEADLOCK FALSE
