\* A model answer asks for more calls than the budget has left.
SPECIFICATION Spec
CONSTANTS
    Providers = 1
    MaxIterations = 3
    ModelBudget = 4
    ToolBudget = 2
    MaxAttempts = 1
    MaxBatch = 2
\* A job that has succeeded or failed is over.
CHECK_DEADLOCK FALSE
INVARIANTS
    EveryCallLogged
