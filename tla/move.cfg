SPECIFICATION LiveSpec
CONSTANTS
    KB = 2
    FourGB = 8
    ConvTop = 4
    MemTop = 26
    BlockSize = 4
    MaxChunk = 3
    Blocks <- MemoryBlocks
    InUse <- ClientHandles
    Offsets <- SomeOffsets
    Lengths <- SomeLengths
INVARIANTS TypeOK MoveCopies WithinBlocks GrowKeeps
PROPERTY CallsReturn
