\* One daemon, one fault: the trade rows implement the ladder until the fault,
\* and an open position is closed in the end.
SPECIFICATION FairSpec
CONSTANTS
  Runners = {d}
  Daemons = {d}
  Bars <- Bars4
  RiskAmount = 20
  RiskCapital = 100
  DailyLossLimit = 15
  WeeklyLossLimit = 30
  LossStreakLimit = 2
  PauseTicks = 2
  TicksPerDay = 2
  TicksPerWeek = 4
  MaxHoldBars = 3
  MaxTrades = 2
  MaxFaults = 1
PROPERTIES
  ImplementsLadder
  PositionCloses
