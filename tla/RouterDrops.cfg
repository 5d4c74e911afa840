SPECIFICATION Spec
CONSTANTS
  f1 = f1
  f2 = f2
  Files = {f1}
  MaxLines = 1
  MaxEpochs = 1
  Tearing = FALSE
  BatchSize = 1
  MaxRetries = 1
  DiskFails = FALSE
  WatchFails = FALSE
  MaxFaults = 0
PROPERTIES RunningNeverDrops
