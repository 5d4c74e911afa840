SPECIFICATION FairSpec
CONSTANTS
  f1 = f1
  f2 = f2
  Files = {f1}
  MaxLines = 2
  MaxEpochs = 1
  Tearing = TRUE
  BatchSize = 2
  MaxRetries = 2
  DiskFails = TRUE
  WatchFails = TRUE
  MaxFaults = 1
PROPERTIES EventuallySettled
