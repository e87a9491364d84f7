SPECIFICATION CycleSpec
CONSTANTS
    Workers = {w1, w2}
    Master = Master
    MaxSent = 3
PROPERTY SuspendReturns
CHECK_DEADLOCK FALSE
