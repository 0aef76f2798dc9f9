SPECIFICATION Spec
CONSTANTS
  MaxStream = 2
  MaxGen = 2
  MaxFrames = 2
  Targets = {1}
  BlockFrames = 2
  Capacity = 2
  EndWait = 1
  Undecodable = {}
  Faults <- EarlyFault
PROPERTIES KeepsContract Gapless
CHECK_DEADLOCK FALSE
