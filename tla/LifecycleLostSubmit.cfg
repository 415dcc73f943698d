\* A submission whose enqueue fails, retried by the client.
SPECIFICATION FairSpec
CONSTANTS
    j1 = j1
    r1 = r1
    w1 = w1
    Jobs = {j1}
    Replicas = {r1}
    Workers = {w1}
    NoJob = NoJob
    MaxAttempts = 1
    MaxSlots = 1
    RequireApproval = TRUE
    MaxReplicaCrashes = 0
    MaxReplicaErrors = 1
    MaxWorkerCrashes = 0
    MaxWorkerErrors = 0
    MaxLapses = 0
PROPERTIES
    AcceptedRuns
