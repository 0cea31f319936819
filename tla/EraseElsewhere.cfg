SPECIFICATION Spec
CONSTANTS
    d1 = d1
    d2 = d2
    old = old
    new = new
    NoImage = NoImage
    Default = Default
    BadHash = BadHash
    SeqMod = 256
    MaxBurst = 1
    Device = {d1, d2}
    Candidates = {d1, d2}
    Image = {old, new}
    Installed = {old}
    AttemptTime = 2
    Budget = 4
    SleepTime = 1
    Commands <- EraseSlot1
    MaxCommands = 1
    FaultKinds <- Drops
    MaxFaults = 1
INVARIANT ErasedTheDevice
CHECK_DEADLOCK FALSE
