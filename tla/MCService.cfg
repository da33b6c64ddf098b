CONSTANTS
  j1 = j1
  j2 = j2
  u1 = u1
  u2 = u2
  r1 = r1
  r2 = r2
  t1 = t1
  Jobs = {j1}
  Workers = {w1}
  Users = {u1}
  UserOf <- OneUser
  Texts = {t1}
  Requests = {r1, r2}
  Kind <- AllAndDelete
  Client <- OneClient
  Matches <- MatchOne
  PageSize = 2
  MaxActions = 1
  MaxLag = 1
  MaxFaults = 1
  MaxCrashes = 0
  MaxExpiries = 1
  NoUuid = NoUuid
  Null = Null
  NoJob = NoJob
SPECIFICATION ServiceSpec
 
PROPERTY DeletionSticks
CHECK_DEADLOCK FALSE
