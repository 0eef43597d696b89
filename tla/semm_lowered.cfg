SPECIFICATION Spec
CONSTANTS
  Threads = {t1, t2}
  Events = {e1}
  Null = Null
  Priorities <- TwoPriorities
  EventQWidth = 2
  MaxNest = 2
  MaxTimeout = 1
  MaxSig = 0
  MaxSuspend = 0
  PrioChanges = TRUE
  IsrWakesPended = FALSE
  MaxRecursion = 1
  Ceilings <- Top
  Lowest = 255
  Options <- PrioInherit
SYMMETRY ThreadSymmetry
INVARIANTS
  NeverLowered
