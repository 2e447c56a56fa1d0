SPECIFICATION FairSpec
CONSTANTS
  Transports = {"serial"}
  Blank = FALSE
  Reopens = FALSE
  MaxFd = 6
  MaxStarts = 1
  MaxFiles = 0
PROPERTIES ClosedownReleasesTask
CHECK_DEADLOCK FALSE
