CONSTANTS
    Left = Left
    Right = Right
    CanFail = TRUE
    CanUnplug = TRUE

SPECIFICATION Spec
INVARIANT RunawayFree
