SPECIFICATION RelaxedSpec
CONSTANTS
    Items = {a, b}
    NULL = NULL
    Capacity = 1
    IdxMod = 4
    Timeout = 1
INVARIANT
    PopsWhatWasPushed
