SPECIFICATION Spec
CONSTANTS
  Threads = {t1, t2, t3}
  Events = {e1}
  Null = Null
  Priorities <- OnePriority
  EventQWidth = 1
  MaxNest = 3
  MaxTimeout = 1
  MaxSig = 0
  MaxSuspend = 2
  PrioChanges = FALSE
  IsrWakesPended = FALSE
  MaxCounter = 1
  MaxRelease = 2
  Options <- FifoOnly
SYMMETRY ThreadSymmetry
INVARIANTS
  TypeOK
  QueueConsistent
  NoTokenWithWaiters
  FreeHasNoWaiter
  ReadyRingOnce
  HonestPend
