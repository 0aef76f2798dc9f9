SPECIFICATION FairSpec
CONSTANTS
  MaxStream = 2
  MaxGen = 2
  MaxFrames = 1
  Targets = {0}
  BlockFrames = 1
  Capacity = 2
  EndWait = 1
  Undecodable = {}
  Faults <- HeadFault
INVARIANTS TypeOK UiConsistent GenerationsInOrder
PROPERTIES FinishedWasPlayedOut AdvanceKnowsFormat PositionMovesForward EndsAreReported
CHECK_DEADLOCK FALSE
