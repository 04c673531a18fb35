SPECIFICATION Spec
CONSTANTS
    MaxPair = 7
    BufNum = 2
    QueueDepth = 1
INVARIANT
    NoBufferRace
