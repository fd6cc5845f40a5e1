CONSTANTS
    ClockMod = 8
    MaxTick = 2
    Errors <- MCErrors
    Remainings <- MCRemainings
    Speeds <- MCSpeeds
    IntegralRange = 1
    IntegralMax = 6
    IntegralChangeMax = 2
    StallTime = 3
    StallSpeed = 1
    LoopTime = 2

SPECIFICATION Spec

INVARIANT IntegralBounded
PROPERTY NoWindupFarFromTarget
PROPERTY RefClockRefined
