SPECIFICATION Spec
CONSTANTS
  oracle = oracle
  m1 = m1
  m2 = m2
  x1 = x1
  x2 = x2
  target = target
  h1 = h1
  h2 = h2
  s1 = s1
  s2 = s2
  rule = rule
  c1 = c1
  c2 = c2
  Sources <- OneOracle
  Models = {m1, m2}
  Prices = {1, 2}
  Syncs = {x1, x2}
  FirstFeeds <- BothListed
  MinInterval = 1
  MaxAge = 0
  MaxClock = 2
  MaxRuns = 3
  MaxShifts = 1
  Targets = {target}
  HourLength = 2
  Keep = 2
  MaxInstant = 4
  Hosts = {h1, h2}
  Values = {1, 3}
  BucketLength = 2
  HotRetention = 1
  MaxPerCall = 2
  MaxTime = 7
  MaxSamples = 3
  Sessions = {s1, s2}
  Texts <- ErrorTexts
  Records <- SelfReported
  Batch = 1
  MaxRescans = 1
  MaxDeaths = 1
  MaxRereads = 1
  MaxBackfills = 1
  Rules = {rule}
  Window <- OneMinute
  Levels = {1, 3}
  Amounts = {2}
  Checkers = {c1, c2}
  MaxMinute = 2
  MaxAlerts = 2
  MaxRequests = 2
  spillFile = spillFile
  Spills = {spillFile}
  Archivers = {c1, c2}
  MaxBytes = 2
  MaxSize = 2
  MaxAttached = 2
  MaxCrashes = 1
SYMMETRY Symmetry
INVARIANTS TypeOK Timeline BooksBalance RollupsFaithful OneEventEach AlertsMatchRules PayloadsKept
PROPERTIES PastStands StaleBeatsZero
