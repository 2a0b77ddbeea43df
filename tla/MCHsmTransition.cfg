SPECIFICATION ExampleSpec
CONSTANTS
  State <- MCState
  TOP = "top"
  Parent <- MCParent
  InitialOf <- MCInitialOf
  Starts = {"S1", "operational"}
  Arcs <- AllArcs
  MAX_DEPTH = 6
  Setups <- MCSetups
  Steps <- MCSteps
  MAX_SUMMED = 3
  MAX_COLLECTED = 258
INVARIANTS
  ConfigurationIsExact
  RuntimeIsAccounted
CHECK_DEADLOCK FALSE
