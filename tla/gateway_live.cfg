SPECIFICATION FairSpec
CONSTANTS
  o1 = o1
  o2 = o2
  o3 = o3
  t1 = t1
  t2 = t2
  NoOrder = NoOrder
  Orders <- TwoOrders
  Tasks <- TwoTasks
  Recovered <- JustO1
  Oversized <- NoOrders
  MaxOpenOrders = 2
  MaxOrdersPerSecond = 1
  Second = 1
  RequiresSymbol = TRUE
  Faults <- NoFaults
  MaxTime = 1
  MaxDeletes = 3
PROPERTIES
  LiveIsEventuallyTracked
  CancelTakesEffect
