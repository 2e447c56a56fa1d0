SPECIFICATION MCSpec
CONSTANTS
  QueueLength = 3
  MaxPackets = 5
  Devices = {serial1, serial2, wifi}
  Serial = {serial1, serial2}
  MaxFrames = 2
  Addresses = {a1, a2, a3}
  NoAddress = NoAddress
  MaxDevices = 2
  MaxBuffered = 1
  MaxDrained = 3
  MaxAssigned = 4
INVARIANTS TypeOK CountInRange OnlyReceivedPackets PopsInOrder NothingLost QueueHoldsNewest
INVARIANTS OwnPackets DiscoveryTypeOK ListIsWhatWasHeard NewestHaveOwnPorts
PROPERTIES PeekExact ImplementsDropOldest
SYMMETRY Symmetry
CHECK_DEADLOCK FALSE
