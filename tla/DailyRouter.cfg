\* v10, v11 and v13 over days of one bar, with short runs and short weeks.
SPECIFICATION Spec
CONSTANTS
  DaysPerWeek = 2
  DayWindow = 3
  DayNeeded = 2
  ShortRun = 2
  WeakRun = 3
  WeakConfidence = 75
  Profiles = {"v10", "v11", "v13"}
  Bars <- FiveBars
  PriorDays = 4
  Priors <- TwoPriors
  WarmupDays = 6
  BarsPerDay = 1
  Capital = 100
  BullAllocMin = 40
  BullAllocMax = 90
  RangeAlloc = 20
  RangeBoost = 20
  BearLeverage = 1
  BullFloor = 50
  AddOnFloor = 80
  CoreExitFloor = 42
  BearFloor = 80
  Hysteresis = 50
  MinConfirm = 2
  MinStay = 2
  CooldownBars = 1
  MaxEntriesPerWeek = 1
  CostPct = 2
  FundingPct = 1
  LastCloses = {4, 11}
  MaxBars = 6
INVARIANTS
  EveryTradeCounted
  RuleOfTheScores
PROPERTIES
  CashConserved
  SwitchConfirmed
  PastIsKept
CHECK_DEADLOCK FALSE
