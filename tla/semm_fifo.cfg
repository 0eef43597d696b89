SPECIFICATION Spec
CONSTANTS
  Threads = {t1, t2, t3}
  Events = {e1}
  Null = Null
  Priorities <- TwoPriorities
  EventQWidth = 1
  MaxNest = 2
  MaxTimeout = 1
  MaxSig = 0
  MaxSuspend = 0
  PrioChanges = FALSE
  IsrWakesPended = FALSE
  MaxRecursion = 1
  Ceilings <- Top
  Lowest = 255
  Options <- FifoChecked
SYMMETRY ThreadSymmetry
INVARIANTS
  InheritBound
