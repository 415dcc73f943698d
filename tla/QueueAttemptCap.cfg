\* Two workers without any failure: one recovers what the other has popped and
\* not leased yet, and both claim it with the same attempt.
SPECIFICATION Spec
CONSTANTS
    j1 = j1
    w1 = w1
    w2 = w2
    Jobs = {j1}
    Workers = {w1, w2}
    NoJob = NoJob
    MaxAttempts = 2
    MaxClaims = 3
    MaxLapses = 0
    MaxFaults = 0
INVARIANTS
    AttemptCap
