SPECIFICATION FairSpec
CONSTANTS
  Objects = 3
  EventSlots = 1
  Window = 2
  StoreCap = 4
  MaxRecords = 3
  MaxFrames = 2
INVARIANTS NothingIsFatal EventsPrecedeWatermark SettledLatchIsTrue
CHECK_DEADLOCK FALSE
PROPERTY EveryCallReturns
