CONSTANTS
    t1 = t1
    s1 = s1
    Templates = {t1}
    Services = {s1}
    MaxTags = 1
    MaxDisturbances = 0
    MaxLines = 3
    Excluded = {2}
    MaxTailers = 2
    ChanSize = 1
    MaxBatchSize = 2
    Configurations <- BothStrategies
SPECIFICATION Spec
CHECK_DEADLOCK FALSE

    
PROPERTIES
    
    EventuallyLeaves
    
