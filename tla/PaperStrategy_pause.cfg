\* Three losses: the pause is renewed by every run.
SPECIFICATION FairSpec
CONSTANTS
  Runners = {d}
  Daemons = {d}
  Bars <- Bars4
  RiskAmount = 20
  RiskCapital = 100
  DailyLossLimit = 200
  WeeklyLossLimit = 200
  LossStreakLimit = 3
  PauseTicks = 2
  TicksPerDay = 2
  TicksPerWeek = 4
  MaxHoldBars = 3
  MaxTrades = 3
  MaxFaults = 0
PROPERTIES
  PauseLifts
