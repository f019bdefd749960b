CONSTANTS
  MapOf <- Rotation
  Spectates = FALSE
  Others = 0
  MaxPerIP = 2
  Kinds = {"lost", "twice", "overtaken", "late"}
  MaxConnects = 1
  MaxFaults = 2
  MaxSent = 24
SPECIFICATION FairSpec
INVARIANTS LoadedBeforeShown
PROPERTIES Settles FollowsLevel
CHECK_DEADLOCK FALSE
