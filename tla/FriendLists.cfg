SPECIFICATION ListsSpec
CONSTANTS
    A = A
    B = B
    q1 = q1
    q2 = q2
    q3 = q3
    Users = {A, B}
    Requests = {q1, q2, q3}
    Fetches = {f1, f2}
    f1 = f1
    f2 = f2
    MaxFails = 1
    Tables <- OneWayTables
    Jobs <- Job
SYMMETRY Alike
INVARIANTS
    BothWaysOnlyWhenCrossed
    DeletedBothWays
    ListsRight
PROPERTIES
    AckedChange
    Lifecycle
CHECK_DEADLOCK FALSE
