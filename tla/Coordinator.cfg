\* Two devices and a window of two receipts over three keys, so that receipts are
\* evicted and their keys come back; a drain takes two ticks.
SPECIFICATION Spec
CHECK_DEADLOCK FALSE
CONSTANTS
    IdleTimeoutMs = 2
    HardTimeoutMs = 3
    DrainTimeoutMs = 2
    MaxMillis = 5
    MaxVersion = 7
    ReceiptLimit = 2
    Actors = {a1}
    Devices = {d1, d2}
    Intents = {i1}
    Sessions = {s1}
    Fences = {f1}
    Keys = {k1, k2, k3}
INVARIANTS
    CheckpointRestorable
    RetiredWritersFenced
    ReceiptWindow
PROPERTIES
    ExpiredLeaseEndsUncertain
