\* The older loop and the four routers over days of one bar and weeks of two, after two
\* earlier points; v7 votes on the day bars, which calibrateRegime may select.
SPECIFICATION ReplaySpec
CONSTANTS
  Profiles = {"v6", "v7", "v8", "v9"}
  OlderProfiles = {"v3", "v4"}
  TrendOn <- TwoOn
  CorePercent = 60
  Bars <- FiveBars
  RiskAmount = 20
  RiskCapital = 100
  BearLeverage = 1
  MaxHoldBars = 0
  RangeHoldBars = 3
  DailyLossLimit = 15
  WeeklyLossLimit = 40
  LossRun = 2
  PauseBars = 2
  CooldownBars = 2
  MaxEntriesPerWeek = 1
  CalibConfirm = 2
  MinConfirm = 2
  MinStay = 2
  DayOf <- OneBarDays
  WeekOf <- TwoBarWeeks
  V7Frame = "1d"
  WarmupPoints = 2
  MaxBars = 7
  Windows <- MCWindows
  DayViews <- MCDayViews
  EMAPullback = 2
  EMAFilterPeriod = 3
  ATRPeriod = 2
  RSIPeriod = 3
  BandPeriod = 6
  VolumeSMAPeriod = 2
  VolumeMinRatio = 95
  LongBars = 4
  ShortBars = 3
  EMA200MinSlope = 10
  PullbackTol = 4
  BreakoutBuffer = 1
  BreakoutLookback = 2
  SwingBars = 3
  ATRMin = 5
  ATRMax = 50
  VolConverge = 20
  TrailATR = 11
  RangeEntryBuffer = 60
  RangeBreakout = 45
  RangeMinWidth = 240
  RangeFloor = 62
INVARIANTS
  EveryTradeCounted
  RangeHeldByItsOwn
  GateSeesEverything
  FollowsTheVotes
  EntryStands
  VerdictsAgree
PROPERTIES
  LegsAddUp
  LossesPause
  TrailNeverLoosens
CHECK_DEADLOCK FALSE
