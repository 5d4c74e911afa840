SPECIFICATION DeploySpec
CONSTANTS
  r1 = r1
  r2 = r2
  q1 = q1
  q2 = q2
  t1 = t1
  Callers = {r1}
  Repos = {q1}
  Stem <- OneStem
  Tasks = {t1}
  TaskRepo <- OfFirst
  Prompts = {"work"}
  MaxAgents = 1
  DaySeconds = 2
  MaxOutside = 1
  MaxCalls = 2
  MaxFaults = 0
INVARIANTS CulledAreKilled
CHECK_DEADLOCK FALSE
