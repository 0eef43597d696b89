SPECIFICATION Spec
CONSTANTS
  Threads = {t1, t2}
  Events = {Q_R, Q_S}
  Q_R = Q_R
  Q_S = Q_S
  Null = Null
  Priorities <- OnePriority
  EventQWidth = 1
  MaxNest = 2
  MaxTimeout = 1
  MaxSig = 0
  MaxSuspend = 0
  PrioChanges = FALSE
  IsrWakesPended = FALSE
  Messages = {1, 2, 3}
  Bytes <- ThreeBytes
  Prio <- ThreePrios
  PrioLow = 1
  Capacities = {1, 2}
  BufferSizes = {1}
  Options <- FifoOption
INVARIANTS
  TypeOK
  BufferConsistent
  NoMessageWithReceiver
  HonestReceive
PROPERTY IsChannel
