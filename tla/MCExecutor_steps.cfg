SPECIFICATION FairSpec
CONSTANTS
  NSteps = 3
  Operations <- StepTwo
  Timed <- StepOne
  HasHandler = TRUE
INVARIANTS
  NothingOutlivesItsStep
  CancelNeedsCause
PROPERTIES
  ImplementsProtocol
  CancelReturns
  TimeoutSettles
