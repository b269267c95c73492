CONSTANTS
    c1 = c1
    c2 = c2
    c3 = c3
    None = None
    Child = {c1, c2}
    Pid = {101, 102}
    Reuse = TRUE
    Ending <- MCEnding
    ChildMax = 0
    MaxEnv = 1
    MaxFails = 0
    MaxStops = 1
    MaxSignals = 0
    ChldTrap = FALSE

SPECIFICATION Spec

INVARIANTS
    TableMatchesKernel
    NoSecondReport

PROPERTIES
    TrueReport
