SPECIFICATION Spec
CONSTANTS
    Files <- SomeVideos
    MaxDepth = 3
INVARIANTS OffsetsHold
CHECK_DEADLOCK FALSE
