SPECIFICATION MCSpec
CONSTANTS
    None = None
    Setups <- AllSetups
    TextKinds = {"text_extraction", "metadata_extraction"}
    Sockets = {s1}
    Waiters = {w1}
    Capacity = 1
    MaxAsks = 2
    MaxFaults = 1
INVARIANTS ReadyMeansSettled
PROPERTIES TasksSettle SettledIsSeen
CHECK_DEADLOCK FALSE
