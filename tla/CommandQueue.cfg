SPECIFICATION CommandSpec
CONSTANTS
  CommandQueueLength = 2
  CommandLength = 3
  FieldLength = 3
  Attributes = {"I", "b"}
  Numbers = {"b"}
  BaudRate = "b"
  Digits = {"5"}
  Letters = {"I", "b", "5"}
  MaxBuffer = 4
  Buffers <- MCBuffers
INVARIANTS CommandTypeOK CleanBufferMeetsReference NoSplicedCommand FullQueueHearsNothing
