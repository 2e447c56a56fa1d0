SPECIFICATION DecodeSpec
CONSTANTS
  Devices = {serial1, serial2}
  Serial = {serial1, serial2}
  MaxFrames = 1
INVARIANT LastIsFromDevice
CHECK_DEADLOCK FALSE
