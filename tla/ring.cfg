CONSTANTS
  NWorkers = 2
  NChunks = 2
  NSlots = 2
  TotalInputs = 7
  ThreadMode = FALSE
  MayCrash <- CrashSome
  MayFailLoad = {1}
SPECIFICATION FairSpec
INVARIANTS RemainingWorkersExact ChunkExclusive CrashPositionExact CohortsInOrder VerdictsMatchInput CompleteOutput RingInv
PROPERTIES NoUnreportedOverwrite ChunksOneByOne ImplementsCampaign TerminatesUnlessStaleExit CrashedResumes
CHECK_DEADLOCK FALSE
