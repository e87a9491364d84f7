SPECIFICATION Spec
CONSTANTS
    ZHY_MAX_ERROR_STR = 9
    ZHY_INT64_LEN = 4
    Prefix <- MCPrefix
    CorePrefix <- MCCorePrefix
    ErrText <- MCErrText
    Calls <- MCCalls
    Levels = {0, 6}
INVARIANTS
    PastLastByPoint
    FaultByArgument
    TextExact
PROPERTIES
    LineWhole
CHECK_DEADLOCK FALSE
