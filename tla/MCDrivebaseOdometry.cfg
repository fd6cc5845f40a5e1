CONSTANTS
    Left = Left
    Right = Right
    IntMod = 8
    MaxStep = 2

SPECIFICATION Spec

PROPERTY OdometerRefined
