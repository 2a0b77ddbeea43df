CONSTANTS
  RADIX = 256
  BLOCK_MAX = 254
  Scripts <- MCScripts
  FAULT_LENGTH = 12
  Samples <- MCSamples
  DECODED_FRAME_CAPACITY = 264
  RX_FRAME_CAPACITY = 264
  TX_FIFO_CAPACITY = 267
  ARG_HISTORY_LEN = 2
  CALL_HISTORY_LEN = 3
  PRINT_MAX_LEN = 6
  STDOUT_CAPACITY = 4
SPECIFICATION Spec
INVARIANTS AcceptedIsProgrammable AnswersAreExact NothingIsOverrun MiddlewareIsSound
PROPERTIES RequestsComeThrough DamageIsNoticed
CHECK_DEADLOCK FALSE
