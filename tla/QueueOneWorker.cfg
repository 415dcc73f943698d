\* One worker, which may crash or lose its lease, and two jobs.
SPECIFICATION FairSpec
CONSTANTS
    j1 = j1
    j2 = j2
    w1 = w1
    Jobs = {j1, j2}
    Workers = {w1}
    NoJob = NoJob
    MaxAttempts = 2
    MaxClaims = 3
    MaxLapses = 2
    MaxFaults = 2
PROPERTIES
    EventuallyFinished
