SPECIFICATION FairSpec
CONSTANTS
    Jobs = {j1}
    Actors = {a}
    Workers = {w1}
    MaxAttempts = 2
    Lease = 2
    RetryBase = 1
    RetryMax = 2
    QueueRetries = 3
    MaxClock = 3
    MaxFaults = 1
    MaxTransfers = 0
PROPERTIES EveryJobSettles
CHECK_DEADLOCK FALSE
