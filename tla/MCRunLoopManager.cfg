CONSTANTS
    c1 = c1
    c2 = c2
    c3 = c3
    Controllers = {c1, c2, c3}
    Loop = Loop
    NoThread = NoThread
SPECIFICATION Spec
SYMMETRY Symmetry
INVARIANTS TypeOK StateTracksLoop NoLostWakeup
PROPERTIES HandshakeSound ImplementsContract
