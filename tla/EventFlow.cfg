SPECIFICATION FairSpec
CONSTANTS
  CmdSlots = 2
  EventSlots = 1
  Waits = {"applied", "space", "stage", "window", "credit", "control", "callback"}
  Credit = 1
  MaxRecords = 3
  MaxEvents = 3
INVARIANTS
  IInv
  BarrierSeesItsEvents
  CreditPaces
PROPERTIES
  BarrierEnds
  EveryWaitEnds
CHECK_DEADLOCK FALSE
