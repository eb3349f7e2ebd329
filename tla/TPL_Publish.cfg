SPECIFICATION FairSpec
CONSTANTS
  MaxVersions = 3
  MaxDay = 2
  MaxFailures = 1
INVARIANTS
  TypeOK
  OnePublished
  CacheKnowsPublished
PROPERTIES
  NothingOlderLeft
  
  
CHECK_DEADLOCK FALSE
