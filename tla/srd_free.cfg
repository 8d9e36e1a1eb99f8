SPECIFICATION Spec
CONSTANTS
    Kind <- EmsXms
    MaxK <- McMaxK
    Page = 4
    Refusals = {}
    Buffer = 2
    Word = 64
    SectorBits = 48
    PerDir = 2
    Max12 = 3
    Min16 = 4
    Word16 = 16
    Disks <- McDisks
    Layouts <- McLayouts
    Splits <- EmsSplits
    FreeMem <- McFree
    Runs = 1
INVARIANT FreeingIsSafe
