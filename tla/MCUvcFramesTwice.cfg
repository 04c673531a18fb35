SPECIFICATION Spec
CONSTANTS
    Buffers <- MCBuffers
    Cache = 3
    Node = {n1, n2, n3, n4}
    None = None
    MaxStreams = 1
SYMMETRY NodeSymmetry
INVARIANT
    OnePlace
