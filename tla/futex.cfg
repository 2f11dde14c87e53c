CONSTANTS
  NWorkers = 2
  LastGen = 2
  MaxCrashes = 1
SPECIFICATION Spec
INVARIANTS NoLostWakeup FutexInv
PROPERTIES ImplementsAwait
CHECK_DEADLOCK FALSE
