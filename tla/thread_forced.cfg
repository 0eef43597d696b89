SPECIFICATION Spec
CONSTANTS
  Threads = {t1, t2, t3}
  Null = Null
  Gone = Gone
  Exc = Exc
  MaxSafe = 1
  MaxEnds = 2
  Creates <- AnyKind
  AutoRec = {TRUE, FALSE}
  ForcesAwaited = TRUE
SYMMETRY ThreadSymmetry
CHECK_DEADLOCK FALSE
INVARIANTS
  DeleterAwaited
