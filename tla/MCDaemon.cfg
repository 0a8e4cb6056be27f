SPECIFICATION DSpec
CONSTANTS
  MaxConsents = 2
  MaxFaults = 1
  i1 = i1
  Items = {i1}
  StallBudget = 2
INVARIANTS
  DTypeOK
  ApprovalsAreSeen
  NoticesMatchMarkers
  LabelIsKnown
  CredentialsAgree
PROPERTY
  NewestConsentWins
CHECK_DEADLOCK FALSE
