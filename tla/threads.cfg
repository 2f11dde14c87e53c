CONSTANTS
  NWorkers = 2
  NChunks = 2
  NSlots = 2
  TotalInputs = 6
  ThreadMode = TRUE
  MayCrash <- CrashSome
  MayFailLoad = {}
SPECIFICATION FairSpec
INVARIANTS CompleteOutput
PROPERTIES EndsOrKilled
CHECK_DEADLOCK FALSE
