SPECIFICATION FairSpec
CONSTANTS
  Narrowed = {applied, presented}
  Backlog = {backlog}
  Published = {head}
  Always = {control}
  Bells = {"condvar", "socket"}
  SocketRoom = 1
  MaxProgress = 1
INVARIANTS
  IInv
  NoLostWakeup
PROPERTIES
  ReadyEndsWait
  DeathEndsWait
CHECK_DEADLOCK FALSE
