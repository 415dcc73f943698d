\* Two models, three rounds: budgets that may end within a round, or last for the analyst.
SPECIFICATION FairSpec
CONSTANTS
    Providers = 2
    MaxIterations = 3
    ModelBudget = 5
    ToolBudget = 3
    MaxAttempts = 2
    MaxBatch = 2
\* A job that has succeeded or failed is over.
CHECK_DEADLOCK FALSE
INVARIANTS
    CeilingsHold
    ReportOrError
    AnalystHasEvidence
    CitesWhatWasFetched
    ResearchPaysPerRound
PROPERTIES
    Ends
