SPECIFICATION Spec
CONSTANTS
  Tracks = {"a", "b", "c", "j", "n", "x"}
  Items = {"i1", "i2"}
  Unavailable = {"x"}
  NoItem = NoItem
  FollowsSeeds = TRUE
  Settings <- LateAdds
PROPERTIES LayerItemsMatch
CHECK_DEADLOCK FALSE
