SPECIFICATION BoundedUSpec
CONSTANTS
  m1 = m1
  m2 = m2
  s1 = s1
  s2 = s2
  u1 = u1
  u2 = u2
  NULL = NULL
  Msgs = {m1, m2}
  Shas = {s1, s2}
  Keys = {}
  Vendors = {}
  VendorOf <- MCVendorOf
  TaughtOf <- MCVendorOf
  Candidates <- MCCandidates
  MaxItems = 2
  Procs = {u1, u2}
  StaleAge = 2
  BackoffBase = 1
  BackoffCap = 2
  GiveUpAfter = 3
  MaxFaults = 2
  CopyCap = 2
INVARIANTS
  UTypeOK
  NoDuplicateWithoutDoubt
  PortalMatchesQueue
  BackoffIsServed
  HeldIsClaimed
PROPERTIES
  ApprovalIsDurable
  LabelsCatchUp
  LabelsAreTrue
CHECK_DEADLOCK FALSE
