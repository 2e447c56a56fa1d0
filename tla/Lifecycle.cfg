SPECIFICATION FairSpec
CONSTANTS
  Transports = {"net", "serial"}
  Blank = FALSE
  Reopens = FALSE
  MaxFd = 6
  MaxStarts = 2
  MaxFiles = 1
INVARIANTS TypeOK StartedIsConnected FailedStartHoldsNothing ClosedownReleasesSockets
PROPERTIES ClosesOnlyItsOwn SerialReconnects NetworkTasksEnd
CHECK_DEADLOCK FALSE
