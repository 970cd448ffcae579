\* DownloadWithRetry after a copy that broke.
SPECIFICATION Spec
CONSTANTS
  SizeOf <- OneVersion
  ChunkSize = 2
  SmallFile = 6
  MinFile = 2
  ErrorSizes = {3}
  Workers = {w1}
  MaxRetries = 1
  MaxAttempts = 2
  MaxTrouble = 1
  NoFile = NoFile
INVARIANT ResumeCompletes
