SPECIFICATION PassesSpec
CONSTANTS
  f1 = f1
  f2 = f2
  u1 = u1
  u2 = u2
  p1 = p1
  p2 = p2
  NoId = NoId
  Files = {f1}
  Passes = {p1, p2}
  Uuids = {u1, u2}
  Harness <- AllNative
  Contents <- MessageLines
  Tearing = TRUE
  MaxLines = 2
  BatchSize = 1
  MaxCopies = 2
  MaxAborts = 1
  a = a
  b = b
  slot = slot
  root = root
  url = url
  Resolvers = {p1, p2}
  Names = {a, b}
  Slot <- OneSlot
  GitSays <- MaySee
  NoGit = NoGit
  NoOrigin = NoOrigin
  Minutes = {1}
  MaxId = 3
  MaxLookups = 3
  MaxBooked = 0
  MaxRequested = 1
  MaxLost = 1
PROPERTIES EventuallyHandled EventuallyOneRow
CHECK_DEADLOCK FALSE
