SPECIFICATION Spec
CONSTANTS
    SeqMod = 256
    MaxBurst = 1
    Total = 6
    FirstOverhead = 1
    Mtus = {2}
    Leftovers = {2}
    Slots <- ClearSlot
    MinChunk = 1
    FaultKinds = {}
    MaxFaults = 0
    UsizeMod = 1000
    Chunks = {2}
    Windows = {2}
INVARIANT UploadedIsComplete
CHECK_DEADLOCK FALSE
