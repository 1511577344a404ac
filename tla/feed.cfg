SPECIFICATION FairSpec
CONSTANTS
  c1 = c1
  c2 = c2
  redis = redis
  Clients <- TwoClients
  Publisher = redis
  FeedQueue = 2
  ClientQueue = 2
  StrategySuspends = TRUE
  MaxTick = 3
INVARIANTS
  TicksInOrder
  NewestReachesClients
  ConsumerIsReleased
PROPERTIES
  ClientsAreServed
CHECK_DEADLOCK FALSE
