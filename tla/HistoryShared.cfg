SPECIFICATION Spec
CONSTANTS
    Shell = {s1, s2}
    None = None
    HistSize = 2
    MarkAfter = 3
    TrimAfter = 5
    Together = FALSE
    Number <- MCNumber
    MaxCommand = 4
    MaxFile = 2
SYMMETRY Symmetry
INVARIANTS
    TypeOK
    InStep
    MarkersTrue
    Attached
CHECK_DEADLOCK FALSE
