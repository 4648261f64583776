SPECIFICATION FairSpec
CONSTANTS
    Files = {f1, f2}
    MaxBatch = 2
    MaxHistory = 2
    MaxIds = 2
    MaxKey = 3
    MaxErrors = 1
    MaxStops = 1
INVARIANTS CacheCoversPointer HistoryUnbroken
PROPERTIES CacheConverges
CHECK_DEADLOCK FALSE
