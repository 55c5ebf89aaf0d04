CONSTANTS
    Runs = {r1, r2, r3}
    NFiles = 2
    Sources = {{1, 2}, {2}}
    MaxSaves = 3
    MaxRestores = 1
SYMMETRY Symmetry
SPECIFICATION Spec
INVARIANTS
    QuietRestoreIsExact
    FailureNeedsOverlap
CHECK_DEADLOCK FALSE
