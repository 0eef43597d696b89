SPECIFICATION Spec
CONSTANTS
  Timers = {m1, m2}
  Nodes = {m1, m2}
  Null = Null
  Kinds = {"H", "I"}
  Starts <- OnceAndAgain
  MaxCount = 2
  IdleTicks = 1
  MaxElapsed = 2
INVARIANTS
  TypeOK
  LineConsistent
PROPERTIES
  HTimersCountDown
