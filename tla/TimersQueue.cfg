SPECIFICATION Spec
CONSTANTS
    n1 = n1
    n2 = n2
    c1 = c1
    c2 = c2
    None = None
    Node = {n1, n2}
    Client = {c1, c2}
    Interval = {1, 2}
    MaxTime = 2
    MaxDepth = 2
SYMMETRY Symmetry

INVARIANTS
    TypeOK
    ListSound
    AlarmArmed

PROPERTIES
    IsQueue
