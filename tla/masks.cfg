SPECIFICATION Spec
CONSTANTS
  Bits = 5
  BlockBits = 2
  TickBits = 2
  Weight <- ByteValues
  FeatureScores <- Scores
  Population = 1
  Generations = 2
  Flips = 1
  Corruption = 2
  Trials = 2
  Builds <- BothBuilds
  Example <- Shipped
  MaxRuns = 1
INVARIANTS
  OnlyVerifiedMasks
  BestMatchIsBest
  FastBuildMissesNothing
