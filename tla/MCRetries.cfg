CONSTANTS
    e0 = e0
    Iface = {e0}
    Faults = {"FULL", "IOERR", "BUSY"}
    DBRETRYLIMIT = 2
    LostReads = TRUE
    MaxCounter = 1
    MaxChange = 2
    MaxCounted = 2
SPECIFICATION RetriesSpec
INVARIANTS NeverTwice TransactionClosed
PROPERTY ExitsAfterTries
