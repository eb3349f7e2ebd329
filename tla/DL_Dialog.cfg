SPECIFICATION Spec
CONSTANTS
  file = file
  form = form
  Files <- OneFile
  Reports <- OneReport
  MaxOpens = 2
  MaxClicks = 2
INVARIANTS
  TypeOK
  
PROPERTIES
  ForgottenWhenClosed
  SpinnerEnds
  ClickEnds
CHECK_DEADLOCK FALSE
