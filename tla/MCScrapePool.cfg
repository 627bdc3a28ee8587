SPECIFICATION FairSpec
CONSTANTS
  w1 = w1
  w2 = w2
  N = 3
  Workers <- MCWorkers
  Faults = TRUE
  Panics = TRUE
INVARIANTS
  TypeOK
  EachSessionOnce
  RoomForReplies
  OkIsComplete
PROPERTIES
  ReturnsUnlessPanic
  WorkersExit
CHECK_DEADLOCK FALSE
