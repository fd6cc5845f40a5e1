CONSTANTS
    ClockMod = 8
    MaxTick = 2
    Errors <- MCErrors
    Speeds <- MCSpeeds
    IntegralBound = 6
    StallTime = 3
    StallSpeed = 1

SPECIFICATION Spec

INVARIANT StallNeedsDuration
PROPERTY IntegralRefined
