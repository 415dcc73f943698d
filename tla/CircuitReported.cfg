\* A provider fails every call, and the tool reports it.
SPECIFICATION Spec
CONSTANTS
    c1 = c1
    market = market
    h1 = h1
    Callers = {c1}
    Tools = {market}
    Threads = {h1}
    NoCaller = NoCaller
    NoTool = NoTool
    Threshold = 3
    Hanging = {}
    Faulty = {market}
    MaxTasks = 6
SYMMETRY Symmetry
INVARIANTS
    RepeatedFailuresOpen
