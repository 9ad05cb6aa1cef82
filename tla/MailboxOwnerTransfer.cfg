SPECIFICATION FairSpec
CONSTANTS
    Jobs = {j1}
    Actors = {a, b}
    Workers = {w1}
    MaxAttempts = 1
    Lease = 1
    RetryBase = 1
    RetryMax = 1
    QueueRetries = 3
    MaxClock = 1
    MaxFaults = 0
    MaxTransfers = 1
PROPERTIES EveryJobSettles
CHECK_DEADLOCK FALSE
