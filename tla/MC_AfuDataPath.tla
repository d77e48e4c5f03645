--------------------------- MODULE MC_AfuDataPath ---------------------------
(* Instances of the AFU data path for TLC.                                 *)
EXTENDS AfuDataPath

\* A plain VSEC register and one in the last word of a 64-byte window.
MC_CfgRegs == {\h500, \h43c}
\* Two words of the first context's MMIO area (get_machine_context).
MC_MemWords == {\h1000, \h1008}
\* A word whose offset within its 256-byte block is past the 64-byte bus.
MC_HighWords == {\h1048}
=============================================================================
