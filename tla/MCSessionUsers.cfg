SPECIFICATION FairSpec
CONSTANTS
  u1 = u1
  u2 = u2
  r1 = r1
  r2 = r2
  None = None
  Users <- MCUsers
  Requests <- MCRequests
  Handlers = {"scrape", "download", "logout"}
  HasIndexer = TRUE
  GeiFaults = FALSE
  LoginFaults = FALSE
  ScrapeFaults = TRUE
  MaxKills = 1
  MaxHangups = 1
  MaxCrashes = 0
INVARIANTS
  TypeOK
  FailureContained
PROPERTIES
  RefinesTokenManager
  AnsweredUnlessHeld
CHECK_DEADLOCK FALSE
