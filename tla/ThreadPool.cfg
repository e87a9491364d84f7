SPECIFICATION Spec
CONSTANTS
    Threads = {t1, t2, t3}
    Bufs = {b1, b2, n1}
    Nulls = {n1}
    NoBuf = NoBuf
    Free = Free
INVARIANTS
    TypeOK
    ListMatchesBranch
    EachMessageOnce
    WakeupPerMessage
PROPERTIES
    CreateCompletes
    MessagesConsumed
    ImplementsJobQueue
CHECK_DEADLOCK FALSE
