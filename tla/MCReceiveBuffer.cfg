CONSTANTS
    b1 = b1
    b2 = b2
    v1 = v1
    v2 = v2
    Buffers = {b1, b2}
    Values = {v1, v2}
    Default = v1
    Capacity = 3
    NoValue = NoValue
SPECIFICATION Spec
INVARIANT TypeOK
PROPERTY ImplementsSequence
SYMMETRY Symmetry
