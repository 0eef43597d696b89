SPECIFICATION Spec
CONSTANTS
  Threads = {t1, t2}
  Events = {e1}
  Null = Null
  Priorities <- OnePriority
  EventQWidth = 1
  MaxNest = 2
  MaxTimeout = 1
  MaxSig = 0
  MaxSuspend = 0
  PrioChanges = FALSE
  IsrWakesPended = TRUE
  MaxCounter = 1
  MaxRelease = 1
  Options <- FifoOnly
SYMMETRY ThreadSymmetry
INVARIANTS
  QueueConsistent
