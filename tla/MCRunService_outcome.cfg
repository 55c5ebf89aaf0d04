SPECIFICATION FairSpec
CONSTANTS
  r1 = r1
  k1 = k1
  k2 = k2
  c1 = c1
  Runs <- OneRun
  Cancellers <- TwoCalls
  Subscribers <- NoSubs
  NSteps = 2
  BufCap = 1
  StoreFails = TRUE
  MaxLogs = 1
INVARIANTS
  StepTableMatchesFeed
  DoneEndsFeed
  OutcomeMatchesSteps
  CancelReachable
  StoredAgrees
PROPERTIES
  FinishedIsFrozen
  StepsOnlyAdvance
  ImplementsProtocol
  CancelEndsRun
