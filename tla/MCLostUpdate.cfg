CONSTANTS
  j1 = j1
  j2 = j2
  j3 = j3
  u1 = u1
  t1 = t1
  t2 = t2
  t3 = t3
  home = home
  work = work
  Jobs = {j1, j2}
  Workers = {w1, w2}
  Users = {u1}
  UserOf <- OneUser
  Texts = {t1, t2, t3}
  Says <- OtherFacts
  Topic <- TopicOf
  MaxActions = 0
  MaxLag = 0
  MaxFaults = 0
  MaxCrashes = 0
  MaxExpiries = 0
  NoUuid = NoUuid
  Null = Null
  NoJob = NoJob
SYMMETRY WorkerSymmetry
SPECIFICATION IdealSpec
PROPERTY CoreProfilePersistent
CHECK_DEADLOCK FALSE
