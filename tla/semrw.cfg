SPECIFICATION Spec
CONSTANTS
  Threads = {t1, t2, t3}
  Events = {Q_R, Q_W}
  Q_R = Q_R
  Q_W = Q_W
  Null = Null
  Priorities <- OnePriority
  EventQWidth = 1
  MaxNest = 2
  MaxTimeout = 1
  MaxSig = 0
  MaxSuspend = 0
  PrioChanges = FALSE
  IsrWakesPended = FALSE
  MaxHolds = 2
  Options <- BothPreferences
SYMMETRY ThreadSymmetry
INVARIANTS
  TypeOK
  WriterAlone
  CounterCounts
  FreeHasNoWaiterPreferred
PROPERTY
  IsReadWriteLock
