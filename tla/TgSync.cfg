\* Pages of two; processes with and without a limit, and two troubles.
SPECIFICATION Spec
CONSTANTS
  PageSize = 2
  Limits = {0, 2}
  AuthTries = 2
  ResolveTries = 2
  HistoryTries = 2
  FirstMessages = 3
  MaxMessages = 4
  LaterKinds = {"text"}
  MaxTroubles = 2
INVARIANTS
  OffsetSkipsNothing
  PageIsTheHistory
PROPERTIES
  SyncEnds
