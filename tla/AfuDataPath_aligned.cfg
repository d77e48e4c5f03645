\* Word config reads and word and double-word partial memory accesses.
CONSTANTS
    CfgRegs <- MC_CfgRegs
    CfgPl = {2}
    MemWords <- MC_MemWords
    MemPl = {2, 3}
    CfgWrites = FALSE
    MaxOps = 3
SPECIFICATION Spec
\* The host makes a bounded number of accesses and then stops.
CHECK_DEADLOCK FALSE
INVARIANT TypeOK ReadReturnsWritten NoBusOverflow
