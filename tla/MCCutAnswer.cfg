SPECIFICATION Spec
CONSTANTS
  c1 = c1
  c2 = c2
  c3 = c3
  NULL = NULL
  Callers = {c1}
  MaxConcurrent = 1
  MinInterval = 1
  Statuses <- MCStatuses
INVARIANT NetworkErrorsAreRetried
CHECK_DEADLOCK FALSE
