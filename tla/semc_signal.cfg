SPECIFICATION Spec
CONSTANTS
  Threads = {t1, t2}
  Events = {e1}
  Null = Null
  Priorities <- TwoPriorities
  EventQWidth = 2
  MaxNest = 1
  MaxTimeout = 1
  MaxSig = 1
  MaxSuspend = 0
  PrioChanges = FALSE
  IsrWakesPended = FALSE
  MaxCounter = 1
  MaxRelease = 1
  Options <- PrioInter
SYMMETRY ThreadSymmetry
INVARIANTS
  HonestPend
  HighestFirst
