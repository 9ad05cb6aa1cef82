\* A command that waits for its body while a save stores its gate, and two
\* requests for a save across a turnover of the lease. TLC stops at the first
\* property, without it at the second.
SPECIFICATION Spec
CHECK_DEADLOCK FALSE
CONSTANTS
    IdleTimeoutMs = 1
    HardTimeoutMs = 2
    DrainTimeoutMs = 1
    MaxMillis = 3
    MaxVersion = 7
    ReceiptLimit = 1
    Actors = {a1}
    Devices = {d1}
    Intents = {i1}
    Sessions = {s1}
    Fences = {f1}
    Keys = {k1}
    Workers = {w1, w2}
    Commanders = {c1}
    Generations = {g1, g2}
    FirstGeneration = g0
    IntentTtl = 1
    GateRetryMs = 1
    ClientKinds = {"IssueLaunchIntent", "RecoverAndIssueLaunchIntent", "Claim", "Heartbeat", "RenewLease",
                   "Release", "BeginDrain", "MarkRecovered"}
    ClientVersions = 5
    MaxUnprojected = 1
PROPERTIES
    EveryCommitUnderLiveLease
    PriorWritersNeverCommit
