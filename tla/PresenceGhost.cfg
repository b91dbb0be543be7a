SPECIFICATION Spec
CONSTANTS
    A = A
    B = B
    a1 = a1
    a2 = a2
    b1 = b1
    b2 = b2
    s1 = s1
    s2 = s2
    t1 = t1
    t2 = t2
    t3 = t3
    Users = {A, B}
    Servers = {s1}
    Tabs = {t1, t2, t3}
    Sockets <- BackSockets
    Owner <- BackOwner
    Host <- BackHost
    Tab <- BackTab
    Fragile = {a1, b1}
    TTL = 2
    MaxFaults = 0
INVARIANT OnlyOnlineShown
