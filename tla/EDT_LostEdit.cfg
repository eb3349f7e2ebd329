SPECIFICATION Spec
CONSTANTS
  author = author
  helper = helper
  b1 = b1
  b2 = b2
  Authors <- OneAuthor
  Helpers <- OneHelper
  Blocks <- TwoBlocks
  Assigned <- SecondOnly
  Controls <- Divided
  MaxRequests = 2
  MaxEdits = 2
  MaxFailures = 0
INVARIANTS
  NothingLost
CHECK_DEADLOCK FALSE
