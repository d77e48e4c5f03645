--------------------------- MODULE MC_DpiBoundary ---------------------------
(***************************************************************************)
(* Model-checking instance of DpiBoundary: two-word cachelines, words 0,   *)
(* 0x12345678 and all ones, the setDpiSignal32 sizes of the response,      *)
(* command, credit and config data pins, and the byte-array lengths.       *)
(***************************************************************************)
EXTENDS DpiBoundary

MC_WordNats == {0, 305419896}
\* 597-606, 660-664, 679-688, 748-749
MC_PinSizes == {2, 3, 4, 6, 8, 16, 18, 24}
\* 647: the config write data bus
MC_CfgDataSize == {32}
\* 510: the config read data word
MC_WordArray == {4}
\* 413: the object handle of an AFU command
MC_ObjHandle == {9}
=============================================================================
