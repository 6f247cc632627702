SPECIFICATION WatcherFairSpec
CONSTANTS
  Configs = {"v1", "v2", "v3"}
  Broken = "broken"
  Missing = "missing"
  NoTypes = "none"
  Hazards = {"early"}
  MaxUpdates = 2
PROPERTIES EventuallyCurrent
CHECK_DEADLOCK FALSE
