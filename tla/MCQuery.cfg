CONSTANTS
    Names <- MCNames
    CommandLines <- MCCommandLines
    Databases <- MCDatabases
    Changes <- MCChanges
    cfgiface <- NoIface
    QueryMode = "all"
    ListLimits <- MCListLimits
    EstimateVisible = TRUE
    MatchMethod = 3
    Matches <- MCMatches
    Available = {"eth0"}
    Garbage <- MCGarbage
    MaxSamples = 50
SPECIFICATION Spec
CHECK_DEADLOCK FALSE
INVARIANTS
    TypeOK
    RangeShown
    
    PercentileIs95th
