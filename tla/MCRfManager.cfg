SPECIFICATION FairSpec
CONSTANTS
  Configurations <- AllConfigurations
  Receptions <- AllReceptions
INVARIANTS
  TypeOK
  CurrentIndications
  CancelledStaysCancelled
  SwitchFollowsRadio
  ModeAgreesWithRadio
  NeverFails
PROPERTY EndedOperationIsHandled
CHECK_DEADLOCK FALSE
