SPECIFICATION Spec
CONSTANTS
    A = A
    B = B
    C = C
    g = g
    d = d
    q1 = q1
    q2 = q2
    q3 = q3
    Users = {A, B, C}
    Groups = {g}
    Dms = {d}
    Requests = {q1, q2, q3}
    Tables <- LeftTables
    Jobs <- CrossedJobs
SYMMETRY AnyRequest
INVARIANTS
    WholeDm
    AckedHolds
    ErrorOnlyWhenCrossed
    SecondDmOnlyWhenCrossed
    NotStuck
PROPERTIES
    LeaveAckedOnce
    JoinerTold
CHECK_DEADLOCK FALSE
