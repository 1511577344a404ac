SPECIFICATION Spec
CONSTANTS
  o1 = o1
  o2 = o2
  o3 = o3
  t1 = t1
  t2 = t2
  NoOrder = NoOrder
  Orders <- TwoOrders
  Tasks <- TwoTasks
  Recovered <- NoOrders
  Oversized <- NoOrders
  MaxOpenOrders = 2
  MaxOrdersPerSecond = 2
  Second = 1
  RequiresSymbol = TRUE
  Faults <- NoFaults
  MaxTime = 1
  MaxDeletes = 2
PROPERTY CancelNeverRaises
