SPECIFICATION Spec
CONSTANTS
  Recorded = {2, 10}
  MaxRows = 4
  CutAfter = {0, 1, 9, 12}
  Steps = {1, 3}
INVARIANTS ReadLineReturnsRow
CHECK_DEADLOCK FALSE
