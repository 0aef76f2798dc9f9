SPECIFICATION Spec
CONSTANTS
  Items = {i1, i2}
  MaxCreates = 1
  MaxRuns = 1
  MaxBreaks = 1
  MaxRefusals = 0
  MaxEvents = 3
INVARIANT JustStartedIsKept
CHECK_DEADLOCK FALSE
