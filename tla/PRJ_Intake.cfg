SPECIFICATION FairSpec
CONSTANTS
  a1 = a1
  a2 = a2
  m1 = m1
  Applications <- TwoApplications
  Movers <- OneMover
  MayCrash = FALSE
INVARIANTS
  TypeOK
  ClockRuns
  IntakeQueued
PROPERTIES
  SubmissionLeavesDraft
