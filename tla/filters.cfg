SPECIFICATION FairSpec
CONSTANTS
  c1 = c1
  c2 = c2
  c3 = c3
  none = none
  btc = btc
  Calls <- ThreeCalls
  NoCall = none
  Symbols <- OneSymbol
  Ttl = 1
  FetchTimeout = 1
  Cancellable <- Router
  MaxSetBack = 1
  MaxTime = 4
INVARIANTS
  OneFetchServesAll
  AnswersAreFresh
  UnknownDoesNotTrade
PROPERTIES
  CallsEnd
CHECK_DEADLOCK FALSE
