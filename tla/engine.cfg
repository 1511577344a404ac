SPECIFICATION EngineFairSpec
CONSTANTS
  s1 = s1
  s2 = s2
  s3 = s3
  srcA = srcA
  srcB = srcB
  NoSig = NoSig
  id1 = id1
  id2 = id2
  id3 = id3
  Signals <- ThreeSignals
  Sources <- TwoSources
  SourceOf <- Origins
  PriorityOf <- Priorities
  ClientIdOf <- CollidingIds
  NoSignal = NoSig
  MaxQueue = 2
  MaxStarts = 2
  CanRaise = TRUE
  StrategiesWait = TRUE
  StrategyFaults <- BothHooks
INVARIANTS
  AtMostOneLossPerStart
  OrdersNotShared
  SavedBeforeNext
  StopIsComplete
PROPERTIES
  ImplementsBus
  RouterKeepsTaking
  LiveLoopSaves
CHECK_DEADLOCK FALSE
