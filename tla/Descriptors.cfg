SPECIFICATION Spec
CONSTANTS
    Clients = {k1, k2}
    Fds = {5, 6}
    MaxEvents = 3
    Nobody = Nobody
    Listen = Listen
INVARIANTS
    NoDescriptorLost
    OwnSocketOnly
PROPERTIES
    LeavingIsNoticed
CHECK_DEADLOCK FALSE
