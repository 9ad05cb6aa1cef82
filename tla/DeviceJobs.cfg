\* Two requests in progress on a job of up to two attempts.
CONSTANTS
    Requests = {r1, r2}
    AttemptLimit = 2
    LeaseMs = 2
    RetryLimitMs = 1
    MaxMillis = 5
    MaxVersion = 6
SYMMETRY Symmetry
SPECIFICATION Spec
CHECK_DEADLOCK FALSE
INVARIANTS
    AttemptsEndOnce
    SuccessIsFinal
    CommittedStateExact
