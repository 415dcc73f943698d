\* Both backends: two principals, a dictionary that fills up in two minutes.
SPECIFICATION Spec
CONSTANTS
    p1 = p1
    p2 = p2
    Principals = {p1, p2}
    RateLimit = 2
    MinuteTicks = 2
    MaxEntries = 5
    MaxLost = 1
INVARIANTS
    AtMostTwiceTheLimit
    DictionaryBounded
    DeniedAMinuteAtMost
