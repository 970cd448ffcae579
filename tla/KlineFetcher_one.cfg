\* One process whose rounds could overlap; the exchange never answers for "1h".
SPECIFICATION FairSpec
CONSTANTS
  j1 = j1
  j2 = j2
  p1 = p1
  Procs = {p1}
  Jobs = {j1, j2}
  ProcOf <- SameProc
  Order <- HourlyDaily
  Down <- Hourly
  Lookback <- OneBack
  Limit = 2
  MaxBar = 3
  MaxFaults = 2
INVARIANTS
  OnlyNewestLive
  NoHole
PROPERTIES
  RoundRefreshes
  MetaMatches
  BarsArrive
