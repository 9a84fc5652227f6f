CONSTANTS
    c1 = c1
    c2 = c2
    o1 = o1
    q1 = q1
    Checks = {c1}
    OneTime = {}
    Intervals = {q1}
    Interval <- AllInQ1
    Buckets <- TwoBuckets
    Workers = {w1, w2}
    InitialWorkers = {w1}
    StaticNumWorkers = FALSE
    MaxJobs = 2
    Callers = {ad, gui}
    Autodiscovery = ad
    NoCheck = NoCheck
    NoOne = NoOne
    NsClients = {k1, k2}
    MaxBytes = 4
    Modulus = 16
INIT MeasurementsInit
NEXT MeasurementsNext
CONSTRAINT Timely
CHECK_DEADLOCK FALSE
INVARIANTS
    ScheduledHasJob
    
    
