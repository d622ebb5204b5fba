CONSTANTS
    MAX32 = 3
    MAX64 = 15
    BWMAX = 3
    MaxInterval = 2
    Modes <- AllModes
    StartCounters = {0, 2, 5}
    Events = {"unplug", "reset", "boot"}
    MaxTraffic = 7
SPECIFICATION Spec
INVARIANTS TypeOK NoPhantomTraffic NothingIsMissed
