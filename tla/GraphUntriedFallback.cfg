\* The primary fails on the last call of the budget.
SPECIFICATION Spec
CONSTANTS
    Providers = 2
    MaxIterations = 3
    ModelBudget = 3
    ToolBudget = 3
    MaxAttempts = 1
    MaxBatch = 1
\* A job that has succeeded or failed is over.
CHECK_DEADLOCK FALSE
INVARIANTS
    FallbackAttempted
