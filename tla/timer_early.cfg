SPECIFICATION DueSpec
CONSTANTS
  Timers = {m1, m2}
  Nodes = {m1, m2}
  Null = Null
  Kinds = {"I"}
  Starts <- AllStarts
  MaxCount = 3
  IdleTicks = 1
  MaxElapsed = 3
PROPERTY NeverEarly
