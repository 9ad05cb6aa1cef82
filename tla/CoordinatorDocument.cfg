\* Two actors on one device; a window of one receipt, and a compaction
\* whenever the journal has grown from one entry to three.
SPECIFICATION DocumentSpec
CHECK_DEADLOCK FALSE
CONSTANTS
    IdleTimeoutMs = 1
    HardTimeoutMs = 2
    DrainTimeoutMs = 1
    MaxMillis = 3
    MaxVersion = 7
    ReceiptLimit = 1
    CompactAt = 3
    RetainRecent = 1
    Actors = {a1, a2}
    Devices = {d1}
    Intents = {i1}
    Sessions = {s1}
    Fences = {f1}
    Keys = {k1, k2}
INVARIANTS
    DocumentReadable
    ClaimProvenance
PROPERTIES
    UncertainReservedForClaimant
    DocumentImplementsCoordinator
