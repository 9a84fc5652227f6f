CONSTANTS
    c1 = c1
    c2 = c2
    i1 = i1
    i2 = i2
    Configs = {c1, c2}
    EndpointConfigs = {}
    EmptyConfig = EmptyConfig
    NoConfig = NoConfig
    Nodes = {n1, n2}
    NoNode = NoNode
    CheckIDs = {i1, i2}
    InstanceIDs <- SharedInstances
    NodeExpiration = 1
    MaxBusyness = 0
    AdvancedDispatching = FALSE
    ReliableNodes = {}
SPECIFICATION Spec
SYMMETRY NodeSymmetry
INVARIANTS
    NoConfigLost
    IdIndexSound
