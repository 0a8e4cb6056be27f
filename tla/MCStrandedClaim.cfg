SPECIFICATION FairUSpec
CONSTANTS
  m1 = m1
  m2 = m2
  s1 = s1
  s2 = s2
  u1 = u1
  u2 = u2
  NULL = NULL
  Msgs = {m1, m2}
  Shas = {s1}
  Keys = {}
  Vendors = {}
  VendorOf <- MCVendorOf
  TaughtOf <- MCVendorOf
  Candidates <- OneDocument
  MaxItems = 1
  Procs = {u1}
  StaleAge = 2
  BackoffBase = 1
  BackoffCap = 2
  GiveUpAfter = 3
  MaxFaults = 1
  CopyCap = 2
PROPERTY
  ClaimsAreNotStranded
CHECK_DEADLOCK FALSE
