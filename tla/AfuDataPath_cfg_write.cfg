\* Word config writes followed by word config reads.
CONSTANTS
    CfgRegs <- MC_CfgRegs
    CfgPl = {2}
    MemWords = {}
    MemPl = {2}
    CfgWrites = TRUE
    MaxOps = 2
SPECIFICATION Spec
CHECK_DEADLOCK FALSE
INVARIANT ReadReturnsWritten
