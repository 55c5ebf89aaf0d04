CONSTANTS
    NSteps = 2
    HasHandler = FALSE
    Operations <- NoSteps
    Timed <- StepOne
    Missing = Missing
    Broken = Broken
    Surroundings <- MCSurroundings
    RunSurroundings <- MCRunSurroundings
SPECIFICATION FairCommandSpec
INVARIANTS
    OneAccount
    Precedence
PROPERTIES
    InterruptEndsCommand
