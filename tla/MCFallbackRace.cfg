SPECIFICATION ISpec
CONSTANTS
  m1 = m1
  m2 = m2
  s1 = s1
  s2 = s2
  NULL = NULL
  Msgs = {m1, m2}
  Shas = {s1, s2}
  Keys = {}
  Vendors = {}
  VendorOf <- MCVendorOf
  TaughtOf <- MCVendorOf
  Candidates <- MCCandidates
  DocsOf <- MCDocsOf
  Refused = {}
  MaxItems = 6
  FailureBudget = 2
  ParkRetryAttempts = 1
  MaxReviewed = 0
  MaxAsks = 1
  MaxFaults = 0
INVARIANT
  NoInvoiceSlips
CHECK_DEADLOCK FALSE
