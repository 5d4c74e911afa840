SPECIFICATION StatusSpec
CONSTANTS
  Targets = {target}
  HourLength = 2
  Keep = 2
  MaxInstant = 4
INVARIANTS WorstLight
