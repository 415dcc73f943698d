\* Two attempts of one job.
SPECIFICATION Spec
CONSTANTS
    Providers = 1
    MaxIterations = 2
    ModelBudget = 3
    ToolBudget = 3
    MaxAttempts = 2
    MaxBatch = 1
\* A job that has succeeded or failed is over.
CHECK_DEADLOCK FALSE
INVARIANTS
    JobCeilingHolds
