CONSTANTS
    i1 = i1
    i2 = i2
    i3 = i3
    Items = {i1, i2, i3}
    NoItem = NoItem
    Torn = Torn
    Ordered = FALSE
SPECIFICATION Spec
INVARIANT HandsOverItems
