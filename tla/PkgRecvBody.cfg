SPECIFICATION Spec
CONSTANTS
    LenPkgHeader = 8
    LenMsgHeader = 16
    DataBufSize = 20
    MaxLegal = 20
    Lens = {0, 8, 15, 16, 20, 21}
    NoMsg = NoMsg
    MaxSeq = 8
INVARIANT WholeBodyProcessed
CHECK_DEADLOCK FALSE
