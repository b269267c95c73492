SPECIFICATION Spec
CONSTANTS
    Shell = {s1, s2}
    None = None
    HistSize = 2
    MarkAfter = 99
    TrimAfter = 5
    Together = TRUE
    Number <- MCNumber
    MaxCommand = 4
    MaxFile = 3
SYMMETRY Symmetry
INVARIANTS
    Attached
CHECK_DEADLOCK FALSE
