SPECIFICATION Spec
CONSTANTS
    g1 = g1
    d = d
    j1 = j1
    j2 = j2
    q1 = q1
    q2 = q2
    None = None
    Me = Me
    Other = Other
    Rooms = {g1, d}
    Dms = {d}
    Jobs = {j1, j2}
    Gets = {q1, q2}
    MaxActs = 2
    MaxOthers = 1
    MaxDrops = 1
SYMMETRY Symmetry
INVARIANTS
    ListRight
    ActiveListed
    InvitedIsMember
CHECK_DEADLOCK FALSE
