SPECIFICATION Spec
CONSTANTS
  Threads = {t1, t2, t3}
  Null = Null
  Gone = Gone
  Exc = Exc
  MaxSafe = 1
  MaxEnds = 2
  Creates <- AnyKind
  AutoRec = {TRUE, FALSE}
  ForcesAwaited = FALSE
SYMMETRY ThreadSymmetry
CHECK_DEADLOCK FALSE
INVARIANTS
  TypeOK
  ReadyRingOnce
  JoinConsistent
  DeleterAwaited
  DeletionGoesOn
  OnePlace
