\* Every tool, setting and outcome of the requests.
SPECIFICATION Spec
CHECK_DEADLOCK FALSE
INVARIANTS
    MockOnlyIfAllowed
    DataNeedsProvider
    FitsGraph
