SPECIFICATION Spec
CONSTANTS
  r1 = r1
  r2 = r2
  Requests <- MCRequests
  HasIndexer = TRUE
  GeiFaults = TRUE
  FirstTerm = 3
  MaxSession = 2
  MaxVersion = 2
SYMMETRY RequestSymmetry
INVARIANTS
  TypeOK
  NoPoison
  AnswersTheList
  LatestIsFresh
  ForcedIsFresh
CHECK_DEADLOCK FALSE
