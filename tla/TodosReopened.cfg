SPECIFICATION Spec
CONSTANTS
  s1 = s1
  s2 = s2
  A = A
  B = B
  Sessions = {s1, s2}
  NoSession = NoSession
  Texts = {A, B}
  NoText = NoText
  Transcripts <- LaterUpdate
  Posts <- TwoPosts
  Injections <- NoInjections
  MaxBoard = 1
  MaxDeaths = 0
  MaxEvents = 1
  MaxRebuilds = 0
PROPERTIES TerminalIsSticky
