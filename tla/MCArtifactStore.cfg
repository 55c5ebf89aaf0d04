CONSTANTS
    Readers = {d1, d2}
    MaxSaves = 3
SYMMETRY Symmetry
SPECIFICATION Spec
INVARIANTS
    RowMatchesArchive
    SavedIsCurrent
    RestoreIsHonest
    RestoreFailureHasCause
CHECK_DEADLOCK FALSE
