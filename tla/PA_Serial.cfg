SPECIFICATION Spec
CONSTANTS
  r1 = r1
  r2 = r2
  Requests <- OneRequest
  Handlers <- PortalHandlers
  MaxVersions = 3
INVARIANTS
  PackageNotEmpty
  AnswersComplete
  MessageDelivered
  DraftMessageHidden
PROPERTIES
  AnsweredPackageFrozen
  RefinesLifecycle
