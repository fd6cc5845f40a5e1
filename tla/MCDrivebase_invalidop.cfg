CONSTANTS
    Left = Left
    Right = Right
    CanFail = FALSE
    CanUnplug = FALSE

SPECIFICATION Spec
INVARIANT NoInvalidOp
