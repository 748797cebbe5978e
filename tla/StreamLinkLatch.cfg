SPECIFICATION Spec
CONSTANTS
  Objects = 1
  EventSlots = 1
  Window = 2
  StoreCap = 4
  MaxRecords = 3
  MaxFrames = 2
INVARIANT NoSilentStall
CHECK_DEADLOCK FALSE
