SPECIFICATION Spec
CONSTANTS
  MaxRows = 5
  MaxFirstRows = 2
INVARIANTS
  CarryMarksGrouped
  StarpointsGrouped
  ListingsComplete
CHECK_DEADLOCK FALSE
