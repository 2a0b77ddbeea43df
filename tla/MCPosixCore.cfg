CONSTANTS
  Signal = {"SIGSEGV", "SIGTERM"}
  PROFILED = TRUE
  PORTS = {"preemptive", "cooperative", "fuzz"}
  Object = {1, 9}
  EDF_MAX_ACTIVE_OBJECT = 16
  QUEUE_LEN = 2
  CPUS = 2
  FuzzTable <- MCFuzzTable
  SELECTOR = 2
  FUZZ_LENGTHS = {1, 4}
  MAX_STIMULI = 3
SPECIFICATION FairSpec
INVARIANTS NoWakeupIsLost InputIsExact FlushIsExclusive
PROPERTY EventsAreHandled
CHECK_DEADLOCK FALSE
