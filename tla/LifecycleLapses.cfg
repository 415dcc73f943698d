\* Crashes and store errors of replicas and workers; two workers may process one job.
SPECIFICATION Spec
CONSTANTS
    j1 = j1
    r1 = r1
    r2 = r2
    w1 = w1
    w2 = w2
    Jobs = {j1}
    Replicas = {r1, r2}
    Workers = {w1, w2}
    NoJob = NoJob
    MaxAttempts = 2
    MaxSlots = 2
    RequireApproval = TRUE
    MaxReplicaCrashes = 1
    MaxReplicaErrors = 1
    MaxWorkerCrashes = 1
    MaxWorkerErrors = 1
    MaxLapses = 1
SYMMETRY Symmetry
INVARIANTS
    SlotsExact
    WithheldUntilApproved
    ApprovableHasResult
PROPERTIES
    UsesPromise
