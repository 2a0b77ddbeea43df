SPECIFICATION EitherSpec
CONSTANTS
  t1 = t1
  t2 = t2
  t3 = t3
  TimeEvent = {t1, t2, t3}
  Start = {2}
  Period = {0, 2}
  Time = {0, 3}
  TICK_NS = 2
  MAX_TIME = 1
  MAX_TICKS = 0
  ARMED_HEAD = ARMED_HEAD
  NEW_HEAD = NEW_HEAD
  NULL = NULL
INVARIANTS TypeOK ListsAreSound ArmedIsLinked
PROPERTIES CountsOncePerLinking TimeGoesOn
