CONSTANTS
    MAX32 = 3
    MAX64 = 15
    BWMAX = 3
    MaxInterval = 2
    Modes <- AllModes
    StartCounters = {0, 2}
    Events = {"boot"}
    MaxTraffic = 4
SPECIFICATION Spec
INVARIANT SyncedAfterBoot
