SPECIFICATION Spec
CONSTANTS
  CommandQueueLength = 4
  CommandLength = 20
  FieldLength = 6
  Attributes = {"I", "b"}
  Numbers = {"b"}
  BaudRate = "b"
  Digits = {"5"}
  Buffers = {}
  DataLength = 10
  DecodeLength = 3
  ZeroByte = "0"
  TypeBytes <- MCTypeBytes
  NotBase64 <- MCNotBase64
  Streams <- MCStreams
  Kinds = {"base64", "pair", "name", "baud", "line"}
  MaxFrames = 3
  Noise = {"@", "!", "=", "a5"}
  MaxLoss = 1
INVARIANTS TypeOK EveryFrameArrives OnlySentPacketsInOrder RepliesUnderstood LostReplyByteCostsNoFrame
PROPERTIES TurnsShrinkData
CHECK_DEADLOCK FALSE
