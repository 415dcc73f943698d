\* A body without the expected fields.
SPECIFICATION Spec
CHECK_DEADLOCK FALSE
INVARIANTS
    NoDefaultsAsData
