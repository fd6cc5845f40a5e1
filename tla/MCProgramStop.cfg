CONSTANTS
    MaxEvents = 3

SPECIFICATION Spec

PROPERTY InterruptOnlyWhileExecuting
PROPERTY StopHonoured
