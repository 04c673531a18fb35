SPECIFICATION FairSpec
CONSTANTS
    MaxFrames = 3
    PoolBlocks = 10
    Happens = {"failure", "client", "shutdown"}
INVARIANTS
    TypeOK
    FramesOwned
    InOrder
    HeapAccounted
PROPERTIES
    FramesReturn
    ShutdownReturns
