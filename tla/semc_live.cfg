SPECIFICATION LiveSpec
CONSTANTS
  Threads = {t1, t2}
  Events = {e1}
  Null = Null
  Priorities <- TwoPriorities
  EventQWidth = 1
  MaxNest = 2
  MaxTimeout = 1
  MaxSig = 0
  MaxSuspend = 0
  PrioChanges = TRUE
  IsrWakesPended = FALSE
  MaxCounter = 1
  MaxRelease = 1
  Options <- PrioOnly
PROPERTIES
  TimedCallReturns
  DeletedWaiterLeaves
INVARIANT QueueConsistent
