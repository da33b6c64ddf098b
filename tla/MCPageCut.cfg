CONSTANTS
  j1 = j1
  j2 = j2
  u1 = u1
  u2 = u2
  r1 = r1
  r2 = r2
  t1 = t1
  Jobs = {j1}
  Workers = {w1}
  Users = {u1}
  UserOf <- OneUser
  Texts = {t1, t2}
  Requests = {r1}
  Kind <- AllAndDelete
  Client <- OneClient
  Matches <- MatchOne
  PageSize = 1
  MaxActions = 2
  MaxLag = 0
  MaxFaults = 0
  MaxCrashes = 0
  MaxExpiries = 0
  NoUuid = NoUuid
  Null = Null
  NoJob = NoJob
SPECIFICATION ServiceSpec
INVARIANT AllMemoriesListed
CHECK_DEADLOCK FALSE
