\* Two copies of one message race through three attempts, a replay and
\* compaction, on a queue that gives up before the attempts end, with one
\* failure anywhere; an event of another type may head the outbox.
CONSTANTS
    Events = {1, 2}
    Foreign = {2}
    Replays = {11}
    Dispatchers = {d1}
    AttemptLimit = 3
    BatchLimit = 1
    RetentionTtl = 1
    QueueRetries = 1
    MaxClock = 1
    MaxCopies = 2
    MaxFaults = 1
SPECIFICATION Spec
INVARIANTS
    NothingStranded
PROPERTIES
    DeliveredIsFinal
    EveryEventSettles
