SPECIFICATION FairSpec
CONSTANTS
    Files = {f1, f2}
    MaxKey = 2
    TextFiles = {f1}
    MaxEventsPerRun = 1
    Snapshot = TRUE
    ReorderedLanding = FALSE
    Disturbances = {"crash", "failure", "death", "upgrade"}
    MaxDisturbances = 2
INVARIANTS TextNotForgotten
PROPERTIES PublishesAFold PublishedConverges ChainConverges ChainGrows
CHECK_DEADLOCK FALSE
