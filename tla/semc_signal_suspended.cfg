SPECIFICATION Spec
CONSTANTS
  Threads = {t1, t2}
  Events = {e1}
  Null = Null
  Priorities <- OnePriority
  EventQWidth = 1
  MaxNest = 1
  MaxTimeout = 1
  MaxSig = 1
  MaxSuspend = 1
  PrioChanges = FALSE
  IsrWakesPended = FALSE
  MaxCounter = 1
  MaxRelease = 1
  Options <- FifoOnly
SYMMETRY ThreadSymmetry
INVARIANTS
  HonestPend
