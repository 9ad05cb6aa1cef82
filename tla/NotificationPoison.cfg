\* An event of another type heads the outbox, and the queue gives a message up
\* before the consumer's attempts end. TLC stops at the first property, without
\* it at the second.
CONSTANTS
    Events = {1, 2}
    Foreign = {2}
    Replays = {}
    Dispatchers = {d1}
    AttemptLimit = 3
    BatchLimit = 1
    RetentionTtl = 1
    QueueRetries = 1
    MaxClock = 2
    MaxCopies = 1
    MaxFaults = 0
SPECIFICATION Spec
INVARIANTS
    OpenIsCarried
PROPERTIES
    EveryEventReallySettles
