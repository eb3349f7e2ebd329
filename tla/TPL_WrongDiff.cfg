SPECIFICATION Spec
CONSTANTS
  MaxVersions = 2
  MaxDay = 2
  MaxFailures = 0
PROPERTIES
  DiffAgainstPublished
CHECK_DEADLOCK FALSE
