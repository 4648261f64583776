SPECIFICATION Spec
CONSTANTS
    Files = {f1, f2}
    MaxKey = 3
    TextFiles = {}
    MaxEventsPerRun = 2
    Snapshot = TRUE
    ReorderedLanding = FALSE
    Disturbances = {"crash", "failure", "rebuild"}
    MaxDisturbances = 3
SYMMETRY Symmetry
INVARIANTS IndexCoversCursor StatesCoverCursor ChainExact

CHECK_DEADLOCK FALSE
