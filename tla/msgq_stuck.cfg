SPECIFICATION Spec
CONSTANTS
  Threads = {t1, t2, t3}
  Events = {Q_R, Q_S}
  Q_R = Q_R
  Q_S = Q_S
  Null = Null
  Priorities <- OnePriority
  EventQWidth = 1
  MaxNest = 1
  MaxTimeout = 0
  MaxSig = 0
  MaxSuspend = 0
  PrioChanges = FALSE
  IsrWakesPended = FALSE
  Messages = {1}
  Bytes <- OneByte
  Prio <- PlainPrio
  PrioLow = 0
  Capacities = {1}
  BufferSizes = {1}
  Options <- FifoOption
INVARIANT NobodyStuck
