SPECIFICATION Spec
CONSTANTS
  Tracks = {"a", "b", "c", "j", "n", "x"}
  Items = {"i1", "i2"}
  Unavailable = {"x"}
  NoItem = NoItem
  FollowsSeeds = TRUE
  Settings <- ModesAndLayer
INVARIANTS NavigatorAgrees WaitingTogether RemainingAgreesWithNext
PROPERTIES AdvanceConsumesOne NextReturnsAfterStepBack StartTrackComesFirst EditsKeepCurrent LayerItemsMatch
CHECK_DEADLOCK FALSE
