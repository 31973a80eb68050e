CONSTANTS
    o1 = o1
    o2 = o2
    o3 = o3
    w1 = w1
    w2 = w2
    h1 = h1
    h2 = h2
    h3 = h3
    Objects = {o1, o2, o3}
    Pipes = {o1, o2}
    Wrappers = {w1, w2}
    Handles = {h1, h2, h3}
    InvalidHandle = InvalidHandle
    Nullptr = Nullptr
    Gone = Gone
    NoWrapper = NoWrapper
    Client = Client
    Nobody = Nobody
SPECIFICATION Spec
INVARIANTS TypeOK OwnedOnce DeletesOpen
PROPERTY ImplementsOwnership
SYMMETRY Symmetry
