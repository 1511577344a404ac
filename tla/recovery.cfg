SPECIFICATION EngineFairSpec
CONSTANTS
  o1 = o1
  o2 = o2
  t1 = t1
  none = none
  noSnapshot = noSnapshot
  Orders <- TwoOrders
  Tasks <- OneTask
  NoOrder = none
  Recovered <- NoOrders
  Oversized <- JustO2
  MaxOpenOrders = 1
  MaxOrdersPerSecond = 3
  Second = 1
  RequiresSymbol = TRUE
  Faults <- NoFaults
  MaxTime = 0
  MaxDeletes = 1
  NoSnapshot = noSnapshot
  StoreFaults <- SaveFault
  StrategiesWait = TRUE
  MaxStarts = 3
  MaxWriting = 2
INVARIANTS
  IdsAreReal
PROPERTIES
  NeverForgotten
  ImplementsCustody
  SnapshotKeepsUp
CHECK_DEADLOCK FALSE
