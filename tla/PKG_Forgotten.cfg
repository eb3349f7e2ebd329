SPECIFICATION FairSpec
CONSTANTS
  MaxVersions = 2
  MaxClicks = 0
  MaxRetries = 0
  MaxFailures = 0
  MaxCrashes = 0
  Blocked <- NoneBlocked
PROPERTIES
  EveryVersionPackaged
CHECK_DEADLOCK FALSE
