\* One daemon, two faults of any kind, three trades.
SPECIFICATION Spec
CONSTANTS
  Runners = {d}
  Daemons = {d}
  Bars <- Bars4
  RiskAmount = 20
  RiskCapital = 100
  DailyLossLimit = 15
  WeeklyLossLimit = 30
  LossStreakLimit = 2
  PauseTicks = 2
  TicksPerDay = 2
  TicksPerWeek = 4
  MaxHoldBars = 3
  MaxTrades = 3
  MaxFaults = 2
INVARIANTS
  AtMostOneOpen
  ExitBookedOnce
  StoresAgree
  ManagedByItsOwnState
PROPERTIES
  GatedEntry
  PauseLasts
  StopNeverLoosens
