\* A committed save that another device builds on before it is completed.
SPECIFICATION Spec
CHECK_DEADLOCK FALSE
CONSTANTS
    Devices = {d1, d2}
    NoDevice = NoDevice
    MaxEpoch = 3
    MaxEdits = 2
    LargeEdits = {}
INVARIANTS
    NextOpenCompletes
