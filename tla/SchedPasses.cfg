SPECIFICATION FairSpec
CONSTANTS
  r1 = r1
  r2 = r2
  r3 = r3
  Slots = {r1, r2}
  NoPid = NoPid
  BadPid = BadPid
  Stall = 1
  Hang = 2
  StartupHangs = FALSE
  MaxWrites = 1
  MaxHangs = 1
  MaxTroubles = 1
INVARIANTS TypeOK StackBound WatcherFlagHonest FlagHasOwner
PROPERTIES EventuallyIngested
