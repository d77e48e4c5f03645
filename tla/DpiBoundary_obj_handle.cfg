\* getMyByteArray of the 9-byte object handle of an AFU command (afu_driver.c 413).
CONSTANTS
    LineWords = 2
    WordNats <- MC_WordNats
    DriveSizes <- MC_PinSizes
    ArrayLengths <- MC_ObjHandle
SPECIFICATION Spec
INVARIANT ByteArraysFilled
