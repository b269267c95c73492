SPECIFICATION Spec
CONSTANTS
    MaxSig = 2
    Ignored <- NoSignal
    KilledBy <- NoSignal
    MaxArrival = 2
    MaxCall = 1
    MaxFrame = 3
PROPERTIES
    NotedKept
CHECK_DEADLOCK FALSE
