SPECIFICATION Spec
CONSTANTS
    a = a
    Iface = {a}
    FivesPerHour = 1
    HoursPerDay = 2
    DaysPerMonth = 2
    MonthsPerYear = 2
    Settings <- Both
    Amount = {0, 1}
    MaxTime = 5
INVARIANTS
    TypeOK
    RowsAreComplete
    NewestAreKept
    TopKeepsLargest
    DisabledIsEmpty
