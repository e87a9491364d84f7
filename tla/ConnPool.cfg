SPECIFICATION Spec
CONSTANTS
    WorkerConnections = 2
    PoolFactor = 1
    Ports = 1
    WaitTime = 1
    MaxSeq = 5
    NoConn = NoConn
INVARIANTS
    PoolConsistent
    PoolBounded
    StampMeansSameUse
    NoSocketLost
PROPERTIES
    NotReusedEarly
    GivenUpIsFreed
CHECK_DEADLOCK FALSE
