CONSTANTS
    e0 = e0
    e1 = e1
    Iface = {e0, e1}
    Faults = {"FULL", "BUSY"}
    DBRETRYLIMIT = 0
    LostReads = FALSE
    MaxCounter = 1
    MaxChange = 1
    MaxCounted = 1
SPECIFICATION Spec
SYMMETRY Symmetry
INVARIANTS TypeOK NeverTwice TransactionClosed
PROPERTIES TotalsWithCounters ClearedMeansStoredIfNoremove LedgerSpec
