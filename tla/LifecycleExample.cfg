SPECIFICATION Spec
CONSTANTS
  Transports = {"net"}
  Blank = TRUE
  Reopens = FALSE
  MaxFd = 6
  MaxStarts = 1
  MaxFiles = 1
INVARIANTS ExampleIsConnected
CHECK_DEADLOCK FALSE
