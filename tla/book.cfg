SPECIFICATION Spec
CONSTANTS
  o1 = o1
  o2 = o2
  o3 = o3
  btc = btc
  Orders <- ThreeOrders
  Symbols <- OneSymbol
  SymbolOf <- AllBtc
  Quantities <- OneTwo
  Prices <- OneThree
  MaxOrderNotional = 6
  MaxPositionNotional = 2
  MaxOpenOrders = 2
INVARIANTS
  TypeOK
  FillsMatchStatus
  PositionsMatchFills
  AverageWithinEntries
  ExposureBounded
PROPERTIES
  TerminalTradesNoMore
CHECK_DEADLOCK FALSE
