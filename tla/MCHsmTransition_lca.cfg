SPECIFICATION ExampleSpec
CONSTANTS
  State <- MCState
  TOP = "top"
  Parent <- MCParent
  InitialOf <- MCInitialOf
  Starts = {"S1", "operational"}
  Arcs <- TestArcs
  MAX_DEPTH = 6
  Setups <- MCSetups
  Steps <- MCSteps
  MAX_SUMMED = 3
  MAX_COLLECTED = 3
INVARIANTS
  ExitsStayBelowLCA
