SPECIFICATION FairSpec
CONSTANTS
  c1 = c1
  c2 = c2
  c3 = c3
  Callers <- ThreeCallers
  Buckets <- RestAndFix
  PerCall <- NoBucket
  Rate <- TwoRates
  Burst = 6
  Cost = 3
  ZeroRatePoll = 1
  Saturation = 3
  MaxWindow = 4
INVARIANTS
  GrantsWithinRate
  SleepIsExact
PROPERTIES
  SleepersAreServed
