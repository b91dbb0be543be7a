SPECIFICATION Spec
CONSTANTS
    A = A
    w1 = w1
    w2 = w2
    s1 = s1
    NoFrame = NoFrame
    Sockets = {w1, w2}
    Servers = {s1}
    Users <- TabsUsers
    Owner <- TabsOwner
    Host <- TabsHost
    MaxPublish = 1
    Chatty = {}
INVARIANT SetStableWhileIterated
CHECK_DEADLOCK FALSE
