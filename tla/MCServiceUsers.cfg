CONSTANTS
  j1 = j1
  j2 = j2
  u1 = u1
  u2 = u2
  r1 = r1
  r2 = r2
  t1 = t1
  Jobs = {j1, j2}
  Workers = {w1}
  Users = {u1, u2}
  UserOf <- OwnUser
  Texts = {t1}
  Requests = {r1}
  Kind <- Searches
  Client <- OneClient
  Matches <- MatchOne
  PageSize = 2
  MaxActions = 1
  MaxLag = 0
  MaxFaults = 0
  MaxCrashes = 1
  MaxExpiries = 0
  NoUuid = NoUuid
  Null = Null
  NoJob = NoJob
SPECIFICATION ServiceSpec
INVARIANTS
  ServiceTypeOK
  AnswersOwn
  
CHECK_DEADLOCK FALSE
