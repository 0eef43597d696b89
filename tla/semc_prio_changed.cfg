SPECIFICATION Spec
CONSTANTS
  Threads = {t1, t2}
  Events = {e1}
  Null = Null
  Priorities <- TwoPriorities
  EventQWidth = 2
  MaxNest = 1
  MaxTimeout = 1
  MaxSig = 0
  MaxSuspend = 0
  PrioChanges = TRUE
  IsrWakesPended = FALSE
  MaxCounter = 1
  MaxRelease = 1
  Options <- PrioOnly
SYMMETRY ThreadSymmetry
INVARIANTS
  HighestFirst
