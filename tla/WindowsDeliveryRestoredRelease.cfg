SPECIFICATION Spec
CONSTANTS
    Releases <- MCTwoReleases
    None = None
    Procs = {p, q}
    MaxGeneration = 2
    MaxFaults = 1
SYMMETRY Symmetry
CHECK_DEADLOCK FALSE
INVARIANTS
    RestoredReleaseOpens
