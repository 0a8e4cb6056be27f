SPECIFICATION FairSpec
CONSTANTS
  c1 = c1
  c2 = c2
  c3 = c3
  NULL = NULL
  Callers = {c1, c2, c3}
  MaxConcurrent = 1
  MinInterval = 2
  Statuses <- MCStatuses
INVARIANTS
  CTypeOK
  SlotsInStep
  UploadedIsFiled
PROPERTIES
  StartsAreSpaced
  StoppedCallsReturn
  TurnsCome
CHECK_DEADLOCK FALSE
