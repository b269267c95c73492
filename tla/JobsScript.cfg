CONSTANTS
    c1 = c1
    c2 = c2
    c3 = c3
    None = None
    Child = {c1, c2, c3}
    Pid = {101, 102, 103}
    Reuse = FALSE
    Ending <- MCEnding
    ChildMax = 1
    MaxEnv = 0
    MaxFails = 1
    MaxStops = 0
    MaxSignals = 0
    ChldTrap = TRUE
SYMMETRY Symmetry

SPECIFICATION Spec

INVARIANTS
    TypeOK
    StatusKept
    NoSecondReport
    TableMatchesKernel
    NoStrandedZombie

PROPERTIES
    TrueReport
    IsReports
