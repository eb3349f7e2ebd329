SPECIFICATION Spec
CONSTANTS
  a1 = a1
  a2 = a2
  Applications <- TwoApplications
  MaxInFlight = 2
  MaxRequests = 3
  MaxOthers = 1
INVARIANTS
  TypeOK
  
PROPERTIES
  SpinnerEnds
CHECK_DEADLOCK FALSE
