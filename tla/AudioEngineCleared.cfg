SPECIFICATION Spec
CONSTANTS
  MaxStream = 2
  MaxGen = 2
  MaxFrames = 1
  Targets = {0,1}
  BlockFrames = 1
  Capacity = 2
  EndWait = 1
  Undecodable = {}
  Faults <- NoFaults
PROPERTIES ClearedIsNotEntered
CHECK_DEADLOCK FALSE
