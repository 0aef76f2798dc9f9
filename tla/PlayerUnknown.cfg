SPECIFICATION Spec
CONSTANTS
  Tracks = {"a", "b", "c", "j", "n", "x"}
  Items = {"i1", "i2"}
  Unavailable = {"x"}
  NoItem = NoItem
  FollowsSeeds = TRUE
  NoTrack = NoTrack
  Damaged = {1, 2, 3, 4, 5}
  Luck <- AnyLuck
  Settings <- CannotTell
INVARIANT WaitCanEnd
CHECK_DEADLOCK FALSE
