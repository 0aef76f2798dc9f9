SPECIFICATION FairSpec
CONSTANTS
  Items = {i1, i2}
  MaxCreates = 2
  MaxRuns = 3
  MaxBreaks = 2
  MaxRefusals = 1
  MaxEvents = 3
INVARIANTS OnDisk StartedIsKept
PROPERTIES JamSettles
CHECK_DEADLOCK FALSE
