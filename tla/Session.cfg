SPECIFICATION Spec
CONSTANTS
    p = p
    q = q
    A = A
    B = B
    a1 = a1
    b1 = b1
    c1 = c1
    c2 = c2
    None = None
    Tabs = {p, q}
    Users = {A, B}
    Tokens = {a1, b1}
    Owner <- MCOwner
    Calls = {c1, c2}
    MaxLoads = 2
SYMMETRY Symmetry
INVARIANTS
    Coherent
    DoneMeansCreated
CHECK_DEADLOCK FALSE
