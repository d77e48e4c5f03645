\* Partial memory reads at an MMIO offset whose low byte is 0x48.
CONSTANTS
    CfgRegs = {}
    CfgPl = {2}
    MemWords <- MC_HighWords
    MemPl = {2, 3}
    CfgWrites = FALSE
    MaxOps = 1
SPECIFICATION Spec
CHECK_DEADLOCK FALSE
INVARIANT NoBusOverflow
