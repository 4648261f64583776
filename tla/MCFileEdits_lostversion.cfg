SPECIFICATION Spec
CONSTANTS
    Servers = {s1}
    Slots = {q1, q2}
    Objects = {o1, o2, o3}
    Tags = {t1}
    Drives <- StrictAtOnce
    MaxOverlay = 3
    MaxKey = 3
    MaxFaults = 1
SYMMETRY Symmetry
INVARIANTS NothingLost
CHECK_DEADLOCK FALSE
