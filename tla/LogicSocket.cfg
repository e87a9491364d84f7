SPECIFICATION Spec
CONSTANTS
    Bodies <- MCBodies
    Errors <- MCErrors
    Codes = {0, 3, 7}
    MaxSeq = 2
    NULL = NULL
INVARIANTS
    CrcIsRemainder
    OnlyIntactHandled
    SoundHandledUnlessStale
CHECK_DEADLOCK FALSE
