\* A tool of several requests, the last of which fails.
SPECIFICATION Spec
CHECK_DEADLOCK FALSE
INVARIANTS
    KeepsWhatItGot
