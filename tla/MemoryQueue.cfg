SPECIFICATION Spec
CONSTANTS
  a = a
  b = b
  blank = blank
  Items <- TwoItems
  Empty = blank
  DefaultSize = 1
  Capacities <- Few
  MaxInt = 7
INVARIANT TypeOK
PROPERTY ImplementsFifo
CHECK_DEADLOCK TRUE
