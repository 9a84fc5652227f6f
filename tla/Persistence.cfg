CONSTANTS
    t1 = t1
    t2 = t2
    t3 = t3
    t4 = t4
    Transactions = {t1, t2, t3, t4}
    NoTransaction = NoTransaction
    PayloadSize <- Sizes
    Priority <- Priorities
    CreatedAt <- Times
    StorableOnDisk = {t1, t3, t4}
    MaxMemSize = 3
    FlushSize = 2
    Storages = {"none", "open", "nilPointer"}
    MaxDiskSize = 4
    FileOverhead = 1
    MaxRemoveErrors = 2
    MaxCrashes = 1
    MaxDisturbances = 1
    MaxLines = 2
    Excluded = {}
    MaxTailers = 2
    ChanSize = 1
    MaxBatchSize = 2
    Configurations <- Batching
INIT PersistenceInit
NEXT PersistenceNext
CHECK_DEADLOCK FALSE
INVARIANTS
    MemAccounting
    MemBounded
    DiskAccounting
    DiskBounded
    
    
PROPERTIES
    ImplementsRetryQueue
    RegistryFollowsRotation
