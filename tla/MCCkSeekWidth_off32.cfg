\* A 32-bit off_t (32-bit target without _FILE_OFFSET_BITS=64), scaled: 8-bit
\* tint64 and 5-bit off_t; distances at and past 2^5 are truncated.
CONSTANTS
    DistBits = 8
    OffBits = 5
    FileSize = 10
    Distances <- MCDistances
SPECIFICATION Spec
INVARIANT SeekHonoursDistance
