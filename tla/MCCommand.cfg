CONSTANTS
    Proc = {p1, p2}
    Name = {"eth0", "eth1"}
    Alias = {"none", "wan"}
    NoAlias = "none"
    Unset = "unset"
    Tables <- MCTables
    Source <- MCSource
    Garbage <- MCGarbage
    Nobody = nobody
    Times <- MCTimes
    MaxCommands = 2
    MaxSaves = 2
SYMMETRY MCSymmetry
SPECIFICATION Spec
INVARIANTS TypeOK TotalIsSumOfData CounterIsOfUpdate
PROPERTY TableSpec
CHECK_DEADLOCK FALSE
