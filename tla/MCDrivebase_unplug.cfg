CONSTANTS
    Left = Left
    Right = Right
    CanFail = FALSE
    CanUnplug = TRUE

SPECIFICATION Spec

INVARIANT StartedFromSample
