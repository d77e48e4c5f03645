\* setDpiSignal32 of the config write data bus with size 32 (afu_driver.c 647).
CONSTANTS
    LineWords = 2
    WordNats <- MC_WordNats
    DriveSizes <- MC_CfgDataSize
    ArrayLengths <- MC_WordArray
SPECIFICATION Spec
INVARIANT FieldsMaskedToWidth
