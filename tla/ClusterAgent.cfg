CONSTANTS
    r1 = r1
    c1 = c1
    i1 = i1
    Configs = {c1, e1}
    EndpointConfigs = {e1}
    EmptyConfig = EmptyConfig
    NoConfig = NoConfig
    Nodes = {n1, n2}
    NoNode = NoNode
    CheckIDs = {i1}
    InstanceIDs <- OneInstance
    NodeExpiration = 1
    MaxBusyness = 0
    AdvancedDispatching = FALSE
    ReliableNodes = {n1}
    MaxDispatches = 2
    SlowDispatch = FALSE
    Requests = {r1}
    SyncConfigs = {c1}
    Expiration = 1
    Grace = 2
    PollInterval = 1
    MaxTime = 5
    SameSecond = FALSE
SPECIFICATION AgentSpec
CHECK_DEADLOCK FALSE
INVARIANTS
    
    
    MatchedIsSynced
    SilentNodeStops
PROPERTIES
    EventuallyDispatched
    RequestsAnswered
    RoleSettles
    EventuallySynced
