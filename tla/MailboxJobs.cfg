SPECIFICATION Spec
CONSTANTS
    Jobs = {j1}
    Actors = {a,b}
    Workers = {w1,w2}
    MaxAttempts = 2
    Lease = 1
    RetryBase = 1
    RetryMax = 1
    QueueRetries = 2
    MaxClock = 1
    MaxFaults = 1
    MaxTransfers = 1
SYMMETRY Symmetry
CHECK_DEADLOCK FALSE
INVARIANTS
    OneResultPerVersion
    LeaseExcludes
    CompletedHasResult
