SPECIFICATION Spec
CONSTANTS
  u1 = u1
  r1 = r1
  r2 = r2
  r3 = r3
  None = None
  Users <- MCUsers
  Requests <- MCRequests
  Handlers = {"scrape"}
  HasIndexer = TRUE
  GeiFaults = FALSE
  LoginFaults = FALSE
  ScrapeFaults = FALSE
  MaxKills = 2
  MaxHangups = 0
  MaxCrashes = 0
PROPERTIES
  ForcesFreshLogin
CHECK_DEADLOCK FALSE
