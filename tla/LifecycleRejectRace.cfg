\* Two replicas decide about one report.
SPECIFICATION Spec
CONSTANTS
    j1 = j1
    r1 = r1
    r2 = r2
    w1 = w1
    Jobs = {j1}
    Replicas = {r1, r2}
    Workers = {w1}
    NoJob = NoJob
    MaxAttempts = 1
    MaxSlots = 1
    RequireApproval = TRUE
    MaxReplicaCrashes = 0
    MaxReplicaErrors = 0
    MaxWorkerCrashes = 0
    MaxWorkerErrors = 0
    MaxLapses = 0
INVARIANTS
    RejectedStaysHidden
