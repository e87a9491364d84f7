SPECIFICATION CycleSpec
CONSTANTS
    Workers = {w1, w2}
    Master = Master
    MaxSent = 3
INVARIANTS
    ProcessesConsistent
PROPERTIES
    MasterNotices
    WorkerNotices
CHECK_DEADLOCK FALSE
