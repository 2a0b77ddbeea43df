CONSTANTS
  Configurations <- MCConfigurations
  Lengths = {3}
  MAX_REQUESTS = 3
  MAX_INDICATIONS = 2
SPECIFICATION FairSpec
INVARIANTS TransactionsAreSound RadioIsProgrammed
PROPERTY TransactionsEnd
CHECK_DEADLOCK FALSE
