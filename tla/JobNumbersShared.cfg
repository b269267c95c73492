CONSTANTS
    j1 = j1
    j2 = j2
    j3 = j3
    j4 = j4
    j5 = j5
    j6 = j6
    None = None
    Job = {j1, j2, j3, j4, j5, j6}
    CharBit = 2
    Limits = {3}

SYMMETRY Symmetry

SPECIFICATION Spec

INVARIANTS
    UnusedNumber
