SPECIFICATION FairSpec
CONSTANTS
    Kind <- XmsEms
    MaxK <- McMaxK
    Page = 2
    Refusals = {"grow"}
    Buffer = 2
    Word = 64
    SectorBits = 48
    PerDir = 2
    Max12 = 3
    Min16 = 4
    Word16 = 16
    Disks <- McDisks
    Layouts <- McLayouts
    Splits <- McSplits
    FreeMem <- McFree
    Runs = 2
INVARIANTS TypeOK FilesKept InReach SizeIsHeld
PROPERTIES SavedStays ResizeReturns
