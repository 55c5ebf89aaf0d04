SPECIFICATION FairWorkerSpec
CONSTANTS
  r1 = r1
  k1 = k1
  c1 = c1
  Runs <- OneRun
  Cancellers <- OneCall
  Subscribers <- OneSub
  NSteps = 1
  BufCap = 3
  StoreFails = FALSE
  MaxLogs = 0
INVARIANTS
  NeverTwice
  NoGap
  PublisherOrder
  CleanExitCutsNobody
  ServedResultsAreStored
PROPERTIES
  ImplementsEventFeed
  StopEnds
