SPECIFICATION FairSpec
CONSTANTS
    Items = {a, b, c}
    NULL = NULL
    Capacity = 2
    IdxMod = 8
    Timeout = 2
INVARIANTS
    TypeOK
    SlotExclusive
PROPERTIES
    ImplementsFifo
    WaiterReturns
