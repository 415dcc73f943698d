\* The default threshold and pool: one tool hangs for good.
SPECIFICATION Spec
CONSTANTS
    c1 = c1
    market = market
    news = news
    h1 = h1
    h2 = h2
    h3 = h3
    h4 = h4
    Callers = {c1}
    Tools = {market, news}
    Threads = {h1, h2, h3, h4}
    NoCaller = NoCaller
    NoTool = NoTool
    Threshold = 3
    Hanging = {market}
    Faulty = {}
    MaxTasks = 6
SYMMETRY Symmetry
INVARIANTS
    HealthyStaysClosed
