SPECIFICATION Spec
CONSTANTS
    Writers = {w1}
    Readers = {r1}
    Segs = {s1, s2, s3}
    Grace = 2
    MaxPublish = 1
    MaxTime = 4
    MaxGen = 3
    MaxFaults = 1
SYMMETRY Symmetry
INVARIANTS TypeOK PointerComplete GraceKept LocalIndexWhole
PROPERTIES FollowerMovesForward
CHECK_DEADLOCK FALSE
