SPECIFICATION FairSpec
CONSTANTS
    A = A
    B = B
    a1 = a1
    a2 = a2
    b1 = b1
    b2 = b2
    s1 = s1
    s2 = s2
    t1 = t1
    t2 = t2
    t3 = t3
    Users = {A, B}
    Servers = {s1, s2}
    Tabs = {t1, t2, t3}
    Sockets <- PairSockets
    Owner <- PairOwner
    Host <- PairHost
    Tab <- PairTab
    Fragile = {a1}
    TTL = 2
    MaxFaults = 1
INVARIANTS MutuallyVisible
PROPERTIES ExpiresOnlyUnattended Relisted Forgotten
