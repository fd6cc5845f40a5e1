CONSTANTS
    ClockMod = 8
    MaxTick = 3

SPECIFICATION Spec

PROPERTY ElapsedRefined
