\* Two saves and a command at a time, over a lease and its end.
SPECIFICATION Spec
CHECK_DEADLOCK FALSE
CONSTANTS
    IdleTimeoutMs = 1
    HardTimeoutMs = 1
    DrainTimeoutMs = 1
    MaxMillis = 1
    MaxVersion = 7
    ReceiptLimit = 1
    Actors = {a1}
    Devices = {d1}
    Intents = {i1}
    Sessions = {s1}
    Fences = {f1}
    Keys = {k1}
    Workers = {w1, w2}
    Commanders = {c1}
    Generations = {g1, g2}
    FirstGeneration = g0
    IntentTtl = 1
    GateRetryMs = 1
    ClientKinds = {"IssueLaunchIntent", "RecoverAndIssueLaunchIntent", "Claim", "Heartbeat", "RenewLease",
                   "Release", "BeginDrain", "MarkRecovered"}
    ClientVersions = 4
    MaxUnprojected = 1
SYMMETRY Symmetry
INVARIANTS
    ConfirmedSavesKept
    AlarmArmed
PROPERTIES
    CommitUnderLiveLease
