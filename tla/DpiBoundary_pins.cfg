\* The conversions at the pin sizes, 64-bit fields, cachelines and whole-word
\* byte arrays the bridge uses: word order, low word first, masking.
CONSTANTS
    LineWords = 2
    WordNats <- MC_WordNats
    DriveSizes <- MC_PinSizes
    ArrayLengths <- MC_WordArray
SPECIFICATION Spec
INVARIANT TypeOK
INVARIANT CacheLineWordOrder
INVARIANT Field64LowWordFirst
INVARIANT FieldsMaskedToWidth
