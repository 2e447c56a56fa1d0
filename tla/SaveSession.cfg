SPECIFICATION MCSpec
CONSTANTS
  Devices = {d1, d2}
  Savers = {s1}
  Null = Null
  Calls = {"init", "begin", "end", "destroy"}
  QueueLength = 2
  MaxPackets = 3
  MaxSessions = 2
  FollowMixed = FALSE
INVARIANTS TypeOK RowsInOrderOnce NothingLostWhileSaving NoFileLeaked
PROPERTIES ThreadsEnd TakenIsWritten
CHECK_DEADLOCK FALSE
