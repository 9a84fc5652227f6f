CONSTANTS
    t1 = t1
    t2 = t2
    e1 = e1
    e2 = e2
    Txs = {t1, t2}
    NoTx = NoTx
    Endpoints = {e1, e2}
    Target <- TwoTargets
    TxPriority <- Priorities
    NumberOfWorkers = 2
    ChanBufferSize = 1
    PurgeHighPrio = TRUE
    BackoffFactor = 2
    BackoffBase = 1
    BackoffMax = 2
    RecInterval = 1
    RecoveryReset = FALSE
SPECIFICATION Spec
CHECK_DEADLOCK FALSE
INVARIANTS
    InOnePlace
    StoppedIsQuiet
PROPERTIES
    
    StopEnds
