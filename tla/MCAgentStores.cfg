CONSTANTS
  j1 = j1
  j2 = j2
  u1 = u1
  u2 = u2
  Jobs = {j1, j2}
  Workers = {w1, w2}
  Users = {u1}
  UserOf <- SameUser
  Texts = {t1}
  MaxActions = 1
  MaxLag = 1
  MaxFaults = 1
  MaxCrashes = 0
  MaxExpiries = 0
  NoUuid = NoUuid
  Null = Null
  NoJob = NoJob
SYMMETRY WorkerSymmetry
SPECIFICATION Spec
INVARIANTS
  TypeOK
  FailedRunLeftNoTrace
PROPERTY CoreLossExplained
CHECK_DEADLOCK FALSE
