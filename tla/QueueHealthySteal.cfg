\* Two workers, no lapse and no fault.
SPECIFICATION Spec
CONSTANTS
    j1 = j1
    w1 = w1
    w2 = w2
    Jobs = {j1}
    Workers = {w1, w2}
    NoJob = NoJob
    MaxAttempts = 2
    MaxClaims = 3
    MaxLapses = 0
    MaxFaults = 0
INVARIANTS
    HealthyClaimIsExclusive
