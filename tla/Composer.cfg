SPECIFICATION LineFairSpec
CONSTANTS
    r1 = r1
    r2 = r2
    NoRoom = NoRoom
    Rooms = {r1, r2}
    Limit = 1
    MaxKeys = 3
    MaxSends = 2
    MaxMoves = 2
    MaxDrops = 1
INVARIANTS
    IndicatorRight
    LossIsTold
PROPERTIES
    IndicatorEnds
CHECK_DEADLOCK FALSE
