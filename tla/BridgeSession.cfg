\* Two devices, two sessions; a heartbeat may be lost and sent again.
SPECIFICATION SessionSpec
CHECK_DEADLOCK FALSE
CONSTANTS
    IdleTimeoutMs = 2
    HardTimeoutMs = 3
    DrainTimeoutMs = 2
    MaxMillis = 6
    MaxVersion = 6
    ReceiptLimit = 1
    Actors = {a1}
    Devices = {d1, d2}
    Intents = {i1}
    Sessions = {1, 2}
    Fences = {1, 2}
    Keys = {k1}
    Bridges = {d1, d2}
    IntentTtl = 1
    RetryMs = 1
    ReserveMs = 0
    MaxHumanVersion = 5
    MaxInFlight = 2
    MaxClock = 3
SYMMETRY Symmetry
INVARIANTS
    ConfirmedWindowIsExclusive
    UnsavedNeverIdle
