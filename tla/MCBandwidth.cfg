CONSTANTS
    Iface = {"eth0", "tun0"}
    Tun = {"tun0"}
    Spelling <- MCSpelling
    Meant <- MCMeant
    Speed = {0, 10, 1000}
    IntRange = 524288
    OverflowWraps = TRUE
    Files <- MCFiles
    Edits <- MCEdits
SPECIFICATION Spec
INVARIANTS TypeOK IntervalsFit ConfiguredIsUsed
PROPERTY LimitFollowsLink
