\* A failed Save between the sell row and the Redis state.
SPECIFICATION Spec
CONSTANTS
  Runners = {d}
  Daemons = {d}
  Bars <- Bars4
  RiskAmount = 20
  RiskCapital = 100
  DailyLossLimit = 15
  WeeklyLossLimit = 30
  LossStreakLimit = 2
  PauseTicks = 2
  TicksPerDay = 2
  TicksPerWeek = 4
  MaxHoldBars = 3
  MaxTrades = 2
  MaxFaults = 2
INVARIANTS
  TakeProfitOnce
