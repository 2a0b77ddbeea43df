SPECIFICATION Spec
CONSTANTS
  Configurations <- EndingConfigurations
  Receptions <- GoodReceptions
INVARIANTS
  CompletionIsDue
CHECK_DEADLOCK FALSE
