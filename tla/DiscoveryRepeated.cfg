SPECIFICATION RepeatedSpec
CONSTANTS
  Addresses = {a1, a2, a3}
  NoAddress = NoAddress
  MaxDevices = 2
  MaxBuffered = 1
  MaxDrained = 3
  MaxAssigned = 4
INVARIANT CallsAccumulate
CHECK_DEADLOCK FALSE
