\* Two devices, interrupted anywhere, the first snapshot too large to seal.
SPECIFICATION Spec
CHECK_DEADLOCK FALSE
CONSTANTS
    Devices = {d1, d2}
    NoDevice = NoDevice
    MaxEpoch = 4
    MaxEdits = 3
    LargeEdits = {1}
INVARIANTS
    SavedInHead
    ClosedIsTracked
    OneSuccessor
    EvidenceIsTakenUp
PROPERTIES
    LaunchSeesClosed
