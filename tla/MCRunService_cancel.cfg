SPECIFICATION Spec
CONSTANTS
  r1 = r1
  k1 = k1
  k2 = k2
  c1 = c1
  Runs <- OneRun
  Cancellers <- OneCall
  Subscribers <- NoSubs
  NSteps = 1
  BufCap = 1
  StoreFails = TRUE
  MaxLogs = 0
INVARIANTS
  CancelledStaysCancelled
