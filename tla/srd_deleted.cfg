SPECIFICATION Spec
CONSTANTS
    Kind <- XmsEms
    MaxK <- McMaxK
    Page = 2
    Refusals = {}
    Buffer = 2
    Word = 64
    SectorBits = 48
    PerDir = 2
    Max12 = 3
    Min16 = 4
    Word16 = 16
    Disks <- McDisks
    Layouts <- DeletedFirst
    Splits <- McSplits
    FreeMem <- McFree
    Runs = 1
INVARIANT FilesKept
