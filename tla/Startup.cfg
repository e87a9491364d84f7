SPECIFICATION Spec
CONSTANTS
    LinesSize = 9
    ItemNameSize = 4
    Files <- MCFiles
    NULL = NULL
    Arguments <- MCArguments
    Environments <- MCEnvironments
    ExecName = 2
    MasterTitle = 2
    WorkerTitle = 5
    TitleSize = 9
    LogName <- MCLogName
INVARIANTS
    ItemsOfFile
    TitleSparesMemory
PROPERTIES
    LoadReturns
CHECK_DEADLOCK FALSE
