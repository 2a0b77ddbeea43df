SPECIFICATION FairSpec
CONSTANTS
  diag = diag
  start = start
  DELIMITER = DELIMITER
  JUNK = JUNK
  FLAWED = FLAWED
  NONE = NONE
  Request = {diag, start}
  FrameLength <- MCFrameLength
  Answered = {diag}
  ResponseLength = 2
  RX_FIFO_CAPACITY = 3
  TX_FIFO_CAPACITY = 2
  RX_FRAME_CAPACITY = 3
  QUEUE_CAPACITY = 4
  Conditions <- HastyOrWaiting
  MAX_FRAMES = 3
  MAX_FAULTS = 1
  MAX_REPORTS = 1
INVARIANTS
  FramingIsExact
  NothingIsStranded
  NothingOverflows
PROPERTY LinkDrains
CHECK_DEADLOCK FALSE
