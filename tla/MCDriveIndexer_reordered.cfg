SPECIFICATION Spec
CONSTANTS
    Files = {f1, f2}
    MaxKey = 2
    TextFiles = {f1}
    MaxEventsPerRun = 2
    Snapshot = TRUE
    ReorderedLanding = TRUE
    Disturbances = {}
    MaxDisturbances = 0
INVARIANTS ChainExact
CHECK_DEADLOCK FALSE
