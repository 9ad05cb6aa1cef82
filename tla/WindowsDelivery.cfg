SPECIFICATION FairSpec
CONSTANTS
    Releases <- MCTwoReleases
    None = None
    Procs = {p,q}
    MaxGeneration = 2
    MaxFaults = 2
CHECK_DEADLOCK FALSE
INVARIANTS
    OneJournal
    HealthProven
    AttemptNotSuperseded
PROPERTIES
    TransferSettles
