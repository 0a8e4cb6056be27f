SPECIFICATION BoundedISpec
CONSTANTS
  m1 = m1
  m2 = m2
  s1 = s1
  s2 = s2
  NULL = NULL
  Msgs = {m1, m2}
  Shas = {s1, s2}
  Keys = {}
  Vendors = {}
  VendorOf <- MCVendorOf
  TaughtOf <- MCVendorOf
  Candidates <- MCCandidates
  DocsOf <- MCDocsOf
  Refused <- RefusedCopy
  MaxItems = 6
  FailureBudget = 2
  ParkRetryAttempts = 1
  MaxReviewed = 1
  MaxAsks = 1
  MaxFaults = 1
INVARIANTS
  ITypeOK
  CursorPassesNothing
  RetriesAreBounded
  SpoolHoldsNewBytes
PROPERTIES
  ParkedUntilResolved
  PollMovesOn
CHECK_DEADLOCK FALSE
