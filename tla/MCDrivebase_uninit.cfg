CONSTANTS
    Left = Left
    Right = Right
    CanFail = TRUE
    CanUnplug = FALSE

SPECIFICATION Spec
INVARIANT StartedFromSample
