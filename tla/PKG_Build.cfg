SPECIFICATION FairSpec
CONSTANTS
  MaxVersions = 4
  MaxClicks = 1
  MaxRetries = 1
  MaxFailures = 2
  MaxCrashes = 1
  Blocked <- ThirdBlocked
INVARIANTS
  TypeOK
  AnnouncedOnce
  ReadyInOrder
  CumulativeComplete
PROPERTIES
  SeenVersionsPackaged
  AnnouncedUnlessFailed
CHECK_DEADLOCK FALSE
