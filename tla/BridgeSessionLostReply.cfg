\* One device whose heartbeat reply is lost.
SPECIFICATION SessionSpec
CHECK_DEADLOCK FALSE
CONSTANTS
    IdleTimeoutMs = 4
    HardTimeoutMs = 6
    DrainTimeoutMs = 4
    MaxMillis = 12
    MaxVersion = 6
    ReceiptLimit = 1
    Actors = {a1}
    Devices = {d1}
    Intents = {i1}
    Sessions = {1}
    Fences = {1}
    Keys = {k1}
    Bridges = {d1}
    IntentTtl = 1
    RetryMs = 1
    ReserveMs = 0
    MaxHumanVersion = 5
    MaxInFlight = 2
    MaxClock = 6
PROPERTIES
    LostReplyRecovered
