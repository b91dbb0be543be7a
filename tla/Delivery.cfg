SPECIFICATION FairSpec
CONSTANTS
    A = A
    w1 = w1
    w2 = w2
    s1 = s1
    NoFrame = NoFrame
    Sockets = {w1, w2}
    Servers = {s1}
    Users <- TabsUsers
    Owner <- TabsOwner
    Host <- TabsHost
    MaxPublish = 2
    Chatty = {w1}
INVARIANTS
    Complete
    RegistryExact
PROPERTIES
    EventuallyBroadcast
    ImplementsBroadcast
CHECK_DEADLOCK FALSE
