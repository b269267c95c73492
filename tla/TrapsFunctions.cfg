SPECIFICATION Spec
CONSTANTS
    MaxSig = 2
    Ignored <- Last
    KilledBy <- First
    MaxArrival = 2
    MaxCall = 1
    MaxFrame = 2
INVARIANTS
    TypeOK
    StartsNoted
    TrapsKept
    TrapsCaught
CHECK_DEADLOCK FALSE
