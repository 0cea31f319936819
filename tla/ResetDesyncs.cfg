SPECIFICATION Spec
CONSTANTS
    ByteMod = 5
    Frames <- AnyFrames
    InFlight = 3
    MaxFragment = 20
    MaxFrames = 3
INVARIANT CannotDesync
CHECK_DEADLOCK FALSE
