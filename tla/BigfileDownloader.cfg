\* Two workers, three chunks, one change of the resource and any three troubles.
SPECIFICATION Spec
CONSTANTS
  SizeOf <- TwoVersions
  ChunkSize = 2
  SmallFile = 6
  MinFile = 2
  ErrorSizes = {3, 7}
  Workers = {w1, w2}
  MaxRetries = 1
  MaxAttempts = 2
  MaxTrouble = 3
  NoFile = NoFile
INVARIANTS
  FinalIsWhole
  PartsAreSlices
PROPERTIES
  CompletePartsStay
  CallReturns
