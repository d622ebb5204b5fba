CONSTANTS
    Proc = {p1, p2}
    Nobody = nobody
    Iface = {"eth0", "eth1"}
    Legacy = {"eth0"}
    Options <- MCOptions
    Path = {"vnstat.pid", "other.pid"}
    PidFile = "vnstat.pid"
    AlwaysAddNewInterfaces = FALSE
    CommandAdds = TRUE
    MaxStarts = 3
SYMMETRY MCSymmetry
SPECIFICATION Spec
INVARIANTS TypeOK OneDaemonUnlessUnlinked LegacyIsImported
PROPERTIES NothingIsTakenAway CountsOnlyItsTime
CHECK_DEADLOCK FALSE
