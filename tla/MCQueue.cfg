SPECIFICATION Spec
CONSTANTS
  m1 = m1
  m2 = m2
  m3 = m3
  m4 = m4
  s1 = s1
  s2 = s2
  v1 = v1
  NULL = NULL
  Msgs = {m1, m2, m3, m4}
  Shas = {s1, s2}
  Keys <- MCKeys
  Vendors <- MCVendors
  VendorOf <- MCVendorOf
  TaughtOf <- MCTaughtOf
  Candidates <- MCCandidates
  MaxItems = 4
  Invoices <- MCInvoices
  InvoiceOf <- MCInvoiceOf
  Writings <- MCWritings
  LowWritings <- MCLowWritings
INVARIANTS
  TypeOK
  OneActivePerSha
  NothingPassesUnreviewed
  LogTellsTheStory
  LinksPointBack
  RejectionIsRemembered
  TeachingIsEarned
  OneKeyPerInvoice
PROPERTY
  ImplementsLedger
CHECK_DEADLOCK FALSE
