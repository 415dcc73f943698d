\* Two callers of one tool: a slow success ends after the circuit opened.
SPECIFICATION Spec
CONSTANTS
    c1 = c1
    c2 = c2
    market = market
    h1 = h1
    h2 = h2
    Callers = {c1, c2}
    Tools = {market}
    Threads = {h1, h2}
    NoCaller = NoCaller
    NoTool = NoTool
    Threshold = 1
    Hanging = {}
    Faulty = {market}
    MaxTasks = 3
SYMMETRY Symmetry
PROPERTIES
    OpenUntilCooled
