SPECIFICATION Spec
CONSTANTS
  Views <- MCViews
  Symbols <- MCSymbols
  SymbolOf <- MCSymbolOf
  WithRows <- MCWithRows
  FirstView <- MCFirstView
  Requests = {1, 2}
  TTL = 1
  MaxClock = 3
  MaxWrites = 1
  MaxTroubles = 1
INVARIANTS AnswerIsRecent AnswerCoversBars ChartFollowsSelection
CHECK_DEADLOCK FALSE
