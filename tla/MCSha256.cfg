\* The sizes of the code: blocks of 64 bytes, the last eight of which hold the
\* length; chunks below, at and above the size of a block.
CONSTANTS
    Files <- MCFiles
    Known <- MCKnown
    Chunk = {1, 8, 55, 64, 65, 128}
    Block = 64
    LengthSize = 8
    Radix = 256
SPECIFICATION ShaSpec
CHECK_DEADLOCK FALSE
INVARIANTS TypeOK NothingLost HashesPadded StateIsStandard DigestAgrees
PROPERTIES HashingEnds
