\* Two jobs, three workers of one process, one heartbeat that comes too late.
SPECIFICATION FairSpec
CONSTANTS
    j1 = j1
    j2 = j2
    w1 = w1
    w2 = w2
    w3 = w3
    Jobs = {j1, j2}
    Workers = {w1, w2, w3}
    NoJob = NoJob
    MaxAttempts = 2
    MaxLapses = 1
INVARIANTS
    EnvelopeWhileQueued
    OnePlaceUntilFinished
    HealthyQueueIsExact
    NoWakeUpLost
PROPERTIES
    KeepsPromise
    EventuallyFinished
