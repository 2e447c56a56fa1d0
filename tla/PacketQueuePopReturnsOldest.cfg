SPECIFICATION Spec
CONSTANTS
  QueueLength = 2
  MaxPackets = 5
INVARIANT PopReturnsOldest
