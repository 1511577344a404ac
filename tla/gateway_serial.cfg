SPECIFICATION Spec
CONSTANTS
  o1 = o1
  o2 = o2
  o3 = o3
  t1 = t1
  t2 = t2
  NoOrder = NoOrder
  Orders <- ThreeOrders
  Tasks <- OneTask
  Recovered <- NoOrders
  Oversized <- JustO3
  MaxOpenOrders = 2
  MaxOrdersPerSecond = 1
  Second = 2
  RequiresSymbol = TRUE
  Faults <- NoFaults
  MaxTime = 3
  MaxDeletes = 2
INVARIANTS
  TerminalNotLive
  ReplacementNeverDoubles
