SPECIFICATION TimerSpec
CONSTANTS
  t1 = t1
  TimeEvent = {t1}
  Start = {1, 2, 3}
  Period = {0, 1, 2, 3}
  Time = {0, 3, 6}
  TICK_NS = 2
  MAX_TIME = 8
  MAX_TICKS = 4
  ARMED_HEAD = ARMED_HEAD
  NEW_HEAD = NEW_HEAD
  NULL = NULL
INVARIANT TicksKeepTime
CHECK_DEADLOCK FALSE
