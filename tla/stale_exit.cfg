CONSTANTS
  NWorkers = 2
  NChunks = 2
  NSlots = 1
  TotalInputs = 3
  ThreadMode = FALSE
  MayCrash <- CrashNowhere
  MayFailLoad = {}
SPECIFICATION Spec
INVARIANTS ExitsOnLastChunk
CHECK_DEADLOCK FALSE
