CONSTANTS
    MaxBuckets = 64
    MaxRounds = 2
    MaxSeconds = 16
    MaxFactor = 4
    MaxInterval = 3
    MaxNbError = 8
    NbNodes = 3
    RbChecks = {"a", "b", "c"}
    RbWeights = {0, 4, 10}
SPECIFICATION AlgorithmsSpec
CHECK_DEADLOCK FALSE
INVARIANTS
    Balanced
    MaxErrorsReachesMax
    
PROPERTY
    RebalanceEnds
