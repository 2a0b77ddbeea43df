SPECIFICATION FairSpec
CONSTANTS
  Configurations <- EndingConfigurations
  Receptions <- AllReceptions
PROPERTIES
  RejectionIsOvercome
CHECK_DEADLOCK FALSE
