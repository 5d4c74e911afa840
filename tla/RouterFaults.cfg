SPECIFICATION Spec
CONSTANTS
  f1 = f1
  f2 = f2
  Files = {f1, f2}
  MaxLines = 2
  MaxEpochs = 2
  Tearing = FALSE
  BatchSize = 2
  MaxRetries = 2
  DiskFails = TRUE
  WatchFails = FALSE
  MaxFaults = 1
SYMMETRY FileSymmetry
CONSTRAINT NotAllRewritten
INVARIANTS TypeOK BytesAccounted DuplicatesAreFaults
PROPERTIES ChannelKept SavedNeverRetreats
