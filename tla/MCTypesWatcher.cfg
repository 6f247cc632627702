SPECIFICATION WatcherFairSpec
CONSTANTS
  Configs = {"v1", "v2", "v3"}
  Broken = "broken"
  Missing = "missing"
  NoTypes = "none"
  Hazards = {"gap", "broken"}
  MaxUpdates = 4
INVARIANTS WatcherTypeOK WatchedUpdatesNotLost
PROPERTIES EventuallyCurrent ImplementsEventTypes
CHECK_DEADLOCK FALSE
