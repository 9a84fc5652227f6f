CONSTANTS
    c1 = c1
    c2 = c2
    o1 = o1
    q1 = q1
    Checks = {c1, o1}
    OneTime = {o1}
    Intervals = {q1}
    Interval <- AllInQ1
    Buckets <- TwoBuckets
    Workers = {w1, w2}
    InitialWorkers = {w1}
    StaticNumWorkers = TRUE
    MaxJobs = 2
    Callers = {ad}
    Autodiscovery = ad
    NoCheck = NoCheck
    NoOne = NoOne
SPECIFICATION FairSpec
CHECK_DEADLOCK FALSE
INVARIANTS
    NoSendOnClosed
    RunsOnce
    NoStaleStats
PROPERTY
    EventuallyRun
