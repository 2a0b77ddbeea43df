SPECIFICATION Spec
CONSTANTS
  b1 = b1
  b2 = b2
  s1 = s1
  isr = isr
  NONE = NONE
  Object <- MCObject
  Outsider = {isr}
  PREEMPTS = TRUE
  Block = {b1, b2}
  Static = {s1}
  QUEUE_LENGTH = 1
  MAX_ACTIVE_OBJECT = 2
SYMMETRY MCSymmetry
INVARIANTS
  CountsAreExact
  BlocksAreAccounted
CHECK_DEADLOCK FALSE
