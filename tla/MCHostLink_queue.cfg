SPECIFICATION Spec
CONSTANTS
  diag = diag
  start = start
  DELIMITER = DELIMITER
  JUNK = JUNK
  FLAWED = FLAWED
  NONE = NONE
  Request = {diag, start}
  FrameLength <- MCFrameLength
  Answered = {diag}
  ResponseLength = 2
  RX_FIFO_CAPACITY = 8
  TX_FIFO_CAPACITY = 2
  RX_FRAME_CAPACITY = 3
  QUEUE_CAPACITY = 4
  Conditions <- OnlyPipelined
  MAX_FRAMES = 5
  MAX_FAULTS = 0
  MAX_REPORTS = 0
INVARIANT QueueSuffices
CHECK_DEADLOCK FALSE
