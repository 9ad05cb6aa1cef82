\* One save at a time: when does an expired lease end?
SPECIFICATION FairSpec
CHECK_DEADLOCK FALSE
CONSTANTS
    IdleTimeoutMs = 1
    HardTimeoutMs = 2
    DrainTimeoutMs = 1
    MaxMillis = 3
    MaxVersion = 7
    ReceiptLimit = 1
    Actors = {a1}
    Devices = {d1}
    Intents = {i1}
    Sessions = {s1}
    Fences = {f1}
    Keys = {k1}
    Workers = {w1}
    Commanders = {c1}
    Generations = {g1, g2}
    FirstGeneration = g0
    IntentTtl = 1
    GateRetryMs = 1
    ClientKinds = {"IssueLaunchIntent", "RecoverAndIssueLaunchIntent", "Claim", "Heartbeat", "RenewLease",
                   "Release", "BeginDrain", "MarkRecovered"}
    ClientVersions = 4
    MaxUnprojected = 1
PROPERTIES
    LeaseEndsUnlessGated
