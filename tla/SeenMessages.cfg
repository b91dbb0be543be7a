SPECIFICATION SeenSpec
CONSTANTS
    x = x
    y = y
    q1 = q1
    f1 = f1
    NoRoom = NoRoom
    Me = Me
    Other = Other
    Rooms = {x, y}
    Gets = {q1}
    Fetches = {f1}
    PageSize = 1
    MaxMsgs = 2
    MaxMoves = 2
    MaxEvents = 1
SYMMETRY Symmetry
INVARIANTS
    BadgeRight
    ReadWasSeen
CHECK_DEADLOCK FALSE
