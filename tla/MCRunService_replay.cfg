SPECIFICATION FairSpec
CONSTANTS
  r1 = r1
  k1 = k1
  k2 = k2
  c1 = c1
  Runs <- OneRun
  Cancellers <- NoCalls
  Subscribers <- OneSub
  NSteps = 1
  BufCap = 3
  StoreFails = TRUE
  MaxLogs = 1
CHECK_DEADLOCK FALSE
PROPERTIES
  SubscribeReturns
