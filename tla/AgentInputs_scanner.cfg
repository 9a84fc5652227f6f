CONSTANTS
    t1 = t1
    s1 = s1
    Templates = {t1}
    Services = {s1}
    MaxTags = 1
    MaxDisturbances = 1
    MaxLines = 2
    Excluded = {}
    MaxTailers = 2
    ChanSize = 1
    MaxBatchSize = 2
    Configurations <- BothStrategies
SPECIFICATION LogsOnlySpec
CHECK_DEADLOCK FALSE
INVARIANT
    StopWaitsForTailers
