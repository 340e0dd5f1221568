\* Colour tables of up to 4 and of 5 to 8 entries: codes of 3 to 5 bits, and of
\* 4 to 5 bits.  Blocks of 3 bytes.
CONSTANTS
    MaxCodeLen = 5
    BlockSize = 3
    Images <- MCImages
    NumColors = {2, 8}
SPECIFICATION EncoderSpec
INVARIANTS
    RasterDecodes
    CodesFit
    SpaceNeeded
CHECK_DEADLOCK FALSE
