SPECIFICATION Spec
CONSTANTS
    d1 = d1
    d2 = d2
    old = old
    new = new
    NoImage = NoImage
    Default = Default
    BadHash = BadHash
    SeqMod = 256
    MaxBurst = 1
    Device = {d1}
    Candidates = {d1}
    Image = {old, new}
    Installed = {old}
    AttemptTime = 2
    Budget = 4
    SleepTime = 1
    Commands <- ConfirmOrReset
    MaxCommands = 3
    FaultKinds = {}
    MaxFaults = 0
INVARIANT ConfirmedStays
CHECK_DEADLOCK FALSE
