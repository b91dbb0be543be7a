SPECIFICATION Spec
CONSTANTS
    A = A
    t1 = t1
    t2 = t2
    g1 = g1
    Users = {A}
    Olds = 2
    News = 1
    Toggles = {t1, t2}
    By <- OneBy
    Target = 1
    PageSize = 1
    Gets = {g1}
    MaxDrops = 1
SYMMETRY AnyToggle
INVARIANTS
    NothingMissing
    NothingTwice
    EndReached
    ReactionsRight
    LoadingEnds
CHECK_DEADLOCK FALSE
