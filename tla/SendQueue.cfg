SPECIFICATION Spec
CONSTANTS
    Conns = {c1}
    MsgLen = 2
    QMax = 2
    CMax = 1
    MaxMsgs = 4
    MaxUses = 2
    NoMsg = NoMsg
    NoConn = NoConn
INVARIANTS
    OneWriter
    WireOfWholeMessages
    NoneLost
    QueueConsistent
PROPERTIES
    AllLookedAt
    RestIsWritten
CHECK_DEADLOCK FALSE
