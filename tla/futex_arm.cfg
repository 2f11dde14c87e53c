CONSTANTS
  NWorkers = 2
  LastGen = 2
  MaxCrashes = 1
SPECIFICATION Spec

PROPERTIES EveryWaitReturns
CHECK_DEADLOCK FALSE
