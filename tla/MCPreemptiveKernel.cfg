SPECIFICATION ExampleSpec
CONSTANTS
  MAX_ACTIVE_OBJECT = 10
  Object <- MCObject
  pthre <- MCGroups
  MAX_POSTS = 5
  Workers = {2, 3}
  BUDGET = 2
  MAX_TICKS = 3
  MAX_RUNS = 3
INVARIANTS
  NothingIsMissed
  PreemptionIsOrdered
  ExecutionIsCharged
PROPERTIES HighestIsChosen EverythingIsDispatched
CHECK_DEADLOCK FALSE
