\* Two workers and a bystander contend for one job; one lapse, one fault.
SPECIFICATION Spec
CONSTANTS
    j1 = j1
    w1 = w1
    w2 = w2
    w3 = w3
    Jobs = {j1}
    Workers = {w1, w2, w3}
    NoJob = NoJob
    MaxAttempts = 2
    MaxClaims = 3
    MaxLapses = 1
    MaxFaults = 1
SYMMETRY Symmetry
INVARIANTS
    OneToken
    NothingLost
    MissingMeansFinished
    NoEarlyDeadLetter
PROPERTIES
    KeepsPromise
