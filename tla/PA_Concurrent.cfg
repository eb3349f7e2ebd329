SPECIFICATION Spec
CONSTANTS
  r1 = r1
  r2 = r2
  Requests <- TwoRequests
  Handlers <- StatusHandlers
  MaxVersions = 2
SYMMETRY RequestSymmetry
INVARIANTS
  TypeOK
  VersionsMatchStatus
  CourtClockRuns
  AnswerPublishedWithVersion
PROPERTIES
  AnswersOnce
