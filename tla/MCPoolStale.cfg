SPECIFICATION Spec
CONSTANTS
  w1 = w1
  w2 = w2
  N = 3
  Workers <- MCWorkers
  Faults = FALSE
  Panics = FALSE
INVARIANTS
  StaleIsRecovered
CHECK_DEADLOCK FALSE
