CONSTANTS
  NWorkers = 2
  NChunks = 2
  NSlots = 1
  TotalInputs = 4
  ThreadMode = FALSE
  MayCrash <- CrashOften
  MayFailLoad = {}
  BufParts = 6
SPECIFICATION StreamSpec
INVARIANTS RepeatsBounded
CHECK_DEADLOCK FALSE
