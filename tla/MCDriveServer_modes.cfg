SPECIFICATION MCSpec
CONSTANTS
    s1 = s1
    s2 = s2
    f1 = f1
    Unused = Unused
    Servers = {s1, s2}
    Slots = {q1, q2}
    Objects = {o1, o2, o3}
    Tags = {t1}
    Drives <- AllDrives
    MaxOverlay = 3
    MaxKey = 3
    MaxFaults = 1
SYMMETRY Symmetry
INVARIANTS ReadsAreCurrent EditsInTurn WrittenOnce PublishedIsChained
CHECK_DEADLOCK FALSE
