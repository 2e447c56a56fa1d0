SPECIFICATION Spec
CONSTANTS
  Recorded = {2, 6, 10, 102, 103, 110}
  MaxRows = 4
  CutAfter = {0, 9}
  Steps = {1, 3}
INVARIANTS TypeOK NextYieldsRows ReadLineIsExact DecodedIsRecorded GettersReadOwn
CHECK_DEADLOCK FALSE
