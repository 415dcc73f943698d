\* Fair processes: a replica and two workers on two jobs; a worker may crash and a call fail.
SPECIFICATION FairSpec
CONSTANTS
    j1 = j1
    j2 = j2
    r1 = r1
    w1 = w1
    w2 = w2
    Jobs = {j1, j2}
    Replicas = {r1}
    Workers = {w1, w2}
    NoJob = NoJob
    MaxAttempts = 2
    MaxSlots = 1
    RequireApproval = FALSE
    MaxReplicaCrashes = 0
    MaxReplicaErrors = 0
    MaxWorkerCrashes = 1
    MaxWorkerErrors = 1
    MaxLapses = 0
INVARIANTS
    TenantLimit
    DoneIsSettled
PROPERTIES
    NeverReopened
    AcceptedRuns
    NeverLockedOut
