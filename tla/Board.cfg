SPECIFICATION BoardSpec
CONSTANTS
  s1 = s1
  s2 = s2
  A = A
  B = B
  Sessions = {s1, s2}
  NoSession = NoSession
  Texts = {A, B}
  NoText = NoText
  Transcripts <- MixedTranscripts
  Posts <- TwoPosts
  Injections <- OneInjection
  MaxBoard = 2
  MaxDeaths = 1
  MaxEvents = 3
  MaxRebuilds = 1
  r1 = r1
  r2 = r2
  q1 = q1
  q2 = q2
  t1 = t1
  Callers = {r1, r2}
  Repos = {q1, q2}
  Stem <- OneStem
  Tasks = {t1}
  TaskRepo <- OfFirst
  Prompts = {"work"}
  MaxAgents = 2
  DaySeconds = 2
  MaxOutside = 1
  MaxCalls = 2
  MaxFaults = 1
  a = a
  b = b
  slot = slot
  root = root
  url = url
  Resolvers = {r1, r2}
  Names = {a, b}
  Slot <- OneSlot
  GitSays <- MaySee
  NoGit = NoGit
  NoOrigin = NoOrigin
  Minutes = {1}
  MaxId = 3
  MaxLookups = 3
  MaxBooked = 2
  MaxRequested = 1
  MaxLost = 1
SYMMETRY CallerSymmetry
INVARIANTS BoardTypeOK NumberNamesItsTask MirrorsTranscript TrailFollows DecisionsOutliveDatabase NoStrays OneHome
PROPERTIES SnapshotsNeverReopen SparesLiving AccountsKept
CHECK_DEADLOCK FALSE
