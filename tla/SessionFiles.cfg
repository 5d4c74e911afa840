SPECIFICATION FilesSpec
CONSTANTS
  f1 = f1
  f2 = f2
  f3 = f3
  u1 = u1
  u2 = u2
  p1 = p1
  p2 = p2
  NoId = NoId
  Files = {f1, f2, f3}
  Passes = {p1, p2}
  Uuids = {u1, u2}
  Harness <- HarnessOf
  Contents <- SessionLines
  Tearing = TRUE
  MaxLines = 3
  BatchSize = 2
  MaxCopies = 2
  MaxAborts = 1
  Pool <- SomeRows
  PrefixLength <- PrefixOf
  ScratchRoots <- Tmp
  WorkerDir = "workers"
  MaxRows = 3
  MaxDirs = 2
  sessionFile = sessionFile
  LiveFiles = {sessionFile}
  FeedLines = 4
  ContextBytes = 3
  ContextLines = 1
  MaxStalls = 1
SYMMETRY PassSymmetry
INVARIANTS TypeOK FilesTypeOK OffsetCoversHandled AppliedInOrder ClosedAtFirstEnd UsageBookedOnce NothingSkipped ActivityIsKept
