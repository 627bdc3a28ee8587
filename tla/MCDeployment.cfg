SPECIFICATION FairSpec
CONSTANTS
  s1 = s1
  s2 = s2
  staff = staff
  r1 = r1
  r2 = r2
  None = None
  Students = {s1, s2}
  Others = {staff}
  Requests = {r1, r2}
  Year <- MCYear
  Digits <- MCDigits
  UserNames <- MCUserNames
  OldRows <- MCOldRows
  HasDatabase = TRUE
  DbFaults = TRUE
  MaxStarts = 2
  MaxRuns = 2
INVARIANTS
  TypeOK
  SummaryCountsHeads
  CompletedIsComplete
PROPERTIES
  KeepsTheLedger
  ShutdownEnds
  CutOnlyWhenLate
  CountedUnlessEnded
CHECK_DEADLOCK FALSE
