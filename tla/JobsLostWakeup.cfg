CONSTANTS
    c1 = c1
    c2 = c2
    c3 = c3
    None = None
    Child = {c1, c2}
    Pid = {101, 102}
    Reuse = FALSE
    Ending <- MCEnding
    ChildMax = 1
    MaxEnv = 0
    MaxFails = 0
    MaxStops = 0
    MaxSignals = 0
    ChldTrap = FALSE

SPECIFICATION Spec

INVARIANTS
    ForegroundStatus
