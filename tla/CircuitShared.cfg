\* Two callers share two tools and three threads: one tool hangs, both may fail.
SPECIFICATION FairSpec
CONSTANTS
    c1 = c1
    c2 = c2
    market = market
    news = news
    h1 = h1
    h2 = h2
    h3 = h3
    Callers = {c1, c2}
    Tools = {market, news}
    Threads = {h1, h2, h3}
    NoCaller = NoCaller
    NoTool = NoTool
    Threshold = 2
    Hanging = {market}
    Faulty = {market}
    MaxTasks = 3
INVARIANTS
    OpenAtThreshold
    OvershootBounded
    OwnsOneCall
    IsolatedUntilCrowded
PROPERTIES
    OnlyOvertakenClose
    AlwaysAnswered
