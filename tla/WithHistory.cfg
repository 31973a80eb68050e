CONSTANTS
    o1 = o1
    o2 = o2
    v1 = v1
    v2 = v2
    Objects = {o1, o2}
    Values = {v1, v2}
    Gone = Gone
SPECIFICATION Spec
INVARIANT CopyKeepsHistory
