SPECIFICATION FairSpec
CONSTANTS
    MaxIndex = 4
    MaxPair = 7
    BufNum = 2
    MaxDet = 3
    MaxFrame = 4
    Depth = 2
    Window = 3
    Happens = {"failure", "late", "shutdown"}
INVARIANTS
    TypeOK
    ReleasedOnce
    InferencesFinished
    FreshAndWhole
    ImagesKept
    NeverOlder
PROPERTIES
    NeverBack
    WaitsEnd
