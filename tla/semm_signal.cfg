SPECIFICATION Spec
CONSTANTS
  Threads = {t1, t2}
  Events = {e1}
  Null = Null
  Priorities <- OnePriority
  EventQWidth = 1
  MaxNest = 2
  MaxTimeout = 1
  MaxSig = 1
  MaxSuspend = 0
  PrioChanges = FALSE
  IsrWakesPended = FALSE
  MaxRecursion = 1
  Ceilings <- Top
  Lowest = 255
  Options <- Restartable
SYMMETRY ThreadSymmetry
INVARIANTS
  OneHolder
