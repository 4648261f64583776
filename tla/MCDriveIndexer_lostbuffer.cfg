SPECIFICATION AllInOneSpec
CONSTANTS
    Files = {f1, f2}
    MaxKey = 1
    TextFiles = {f1}
    MaxEventsPerRun = 2
    Snapshot = TRUE
    ReorderedLanding = FALSE
    Disturbances = {"death"}
    MaxDisturbances = 1
INVARIANTS IndexCoversCursor
CHECK_DEADLOCK FALSE
