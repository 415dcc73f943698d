\* The memory backend after its dictionary was pruned.
SPECIFICATION FairSpec
CONSTANTS
    p1 = p1
    p2 = p2
    Principals = {p1, p2}
    RateLimit = 2
    MinuteTicks = 2
    MaxEntries = 5
    MaxLost = 1
PROPERTIES
    StaysInService
