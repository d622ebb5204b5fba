SPECIFICATION FairSpec
CONSTANTS
    Poll = 2
    Update = 3
    Save = 3
    OffSave = 4
    EmptyUpdate = 4
    TimeSyncWait = 2
    SyncPoll = 1
    SaveOnStatusChange = TRUE
    DBRETRYLIMIT = 1
    MaxWork = 1
    Boot = 4
    MaxNow = 15
    MaxJumps = 1
    SetTo = {4}
INVARIANTS
    TypeOK
    UpdatedInTime
    SavedInTime
    IntervalNotZero
    WaitIsBounded
PROPERTIES
    Heeded
