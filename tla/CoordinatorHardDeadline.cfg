\* What the coordinator contract says of the hard deadline.
SPECIFICATION Spec
CHECK_DEADLOCK FALSE
CONSTANTS
    IdleTimeoutMs = 2
    HardTimeoutMs = 3
    DrainTimeoutMs = 2
    MaxMillis = 8
    MaxVersion = 10
    ReceiptLimit = 1
    Actors = {a1}
    Devices = {d1, d2}
    Intents = {i1}
    Sessions = {s1}
    Fences = {f1}
    Keys = {k1, k2}
INVARIANTS
    HardDeadlineNotExtended
