SPECIFICATION Spec
CONSTANTS
  f1 = f1
  f2 = f2
  u1 = u1
  u2 = u2
  p1 = p1
  p2 = p2
  NoId = NoId
  Files = {f1}
  Passes = {p1}
  Uuids = {u1, u2}
  Harness <- AllNative
  Contents <- MessageLines
  Tearing = TRUE
  MaxLines = 1
  BatchSize = 1
  MaxCopies = 2
  MaxAborts = 0
INVARIANTS NoWrittenLineIsLost
