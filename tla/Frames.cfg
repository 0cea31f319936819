SPECIFICATION FairSpec
CONSTANTS
    ByteMod = 5
    Frames <- AnyFrames
    InFlight = 3
    MaxFragment = 20
    MaxFrames = 3
INVARIANTS InStep
PROPERTIES ChannelSpec ResetRecovers ReadsWhatArrives
CHECK_DEADLOCK FALSE
