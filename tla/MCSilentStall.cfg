SPECIFICATION DSpec
CONSTANTS
  MaxConsents = 0
  MaxFaults = 2
  i1 = i1
  Items = {i1}
  StallBudget = 2
INVARIANT
  StallIsAnnounced
CHECK_DEADLOCK FALSE
