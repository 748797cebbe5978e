SPECIFICATION FairSpec
CONSTANTS
  MaxRecords = 2
  MaxFrames = 1
  MaxRequests = 1
INVARIANTS
  IInv
  WindowNotStarved
  QueueAppliedBeforeExit
  NoThreadlessPost
PROPERTIES
  TeardownAfterRecords
  EveryFrameAnswered
  LoopComesToRest
  FenceReported
  StopEnds
CHECK_DEADLOCK FALSE
