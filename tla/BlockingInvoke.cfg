CONSTANTS
    c1 = c1
    c2 = c2
    c3 = c3
    r1 = r1
    r2 = r2
    s1 = s1
    s2 = s2
    Callers = {c1, c2, c3}
    Receivers = {r1, r2}
    Syncs = {s1, s2}
    NULL = NULL
SPECIFICATION Spec
INVARIANTS TypeOK NoDanglingSync OneOwner ExecutedBeforeContinuing
PROPERTY ReleasedWhenDone
CHECK_DEADLOCK FALSE
