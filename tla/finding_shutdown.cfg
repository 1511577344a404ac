SPECIFICATION EngineSpec
CONSTANTS
  s1 = s1
  s2 = s2
  s3 = s3
  srcA = srcA
  srcB = srcB
  NoSig = NoSig
  id1 = id1
  id2 = id2
  id3 = id3
  Signals <- ThreeSignals
  Sources <- TwoSources
  SourceOf <- Origins
  PriorityOf <- Priorities
  ClientIdOf <- DistinctIds
  NoSignal = NoSig
  MaxQueue = 2
  MaxStarts = 1
  CanRaise = TRUE
  StrategiesWait = FALSE
  StrategyFaults <- NoHooks
INVARIANTS
  ShutdownIsSaved
CHECK_DEADLOCK FALSE
