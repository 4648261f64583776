SPECIFICATION FairSpec
CONSTANTS
    Keys = {k1}
    Creators = {c1}
    r1 = r1
    r2 = r2
    Requests <- TwoRequests
    Contents <- ThreeContents
    None = None
    MaxKeys = 1
    Start = 0
    Finish = 1
    MaxFaults = 1
INVARIANTS TempAccounted UploadedIsRecorded
PROPERTIES UploadedStays KeysSettle MarkersVanish
