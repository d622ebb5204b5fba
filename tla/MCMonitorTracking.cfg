CONSTANTS
    MAX32 = 3
    MAX64 = 15
    BWMAX = 3
    MaxInterval = 2
    Modes <- Forced
    StartCounters = {0}
    Events = {"unplug"}
    MaxTraffic = 1
SPECIFICATION FairSpec
PROPERTY AvailabilityIsTracked
