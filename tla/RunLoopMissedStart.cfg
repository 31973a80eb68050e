CONSTANTS
    c1 = c1
    c2 = c2
    c3 = c3
    Controllers = {c1, c2, c3}
    Loop = Loop
    NoThread = NoThread
    Owner = c1
    PreSignal = FALSE
SPECIFICATION LifeSpec
PROPERTY StartCompletes
