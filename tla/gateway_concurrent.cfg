SPECIFICATION Spec
CONSTANTS
  o1 = o1
  o2 = o2
  o3 = o3
  t1 = t1
  t2 = t2
  NoOrder = NoOrder
  Orders <- ThreeOrders
  Tasks <- TwoTasks
  Recovered <- NoOrders
  Oversized <- NoOrders
  MaxOpenOrders = 2
  MaxOrdersPerSecond = 1
  Second = 1
  RequiresSymbol = TRUE
  Faults <- AllFaults
  MaxTime = 1
  MaxDeletes = 2
SYMMETRY OrderTaskSymmetry
INVARIANTS
  OpenOrdersBounded
  SubmittedOnce
  RateOvershootBounded
PROPERTIES
  KillFreezesAdmission
  ImplementsLifecycle
