SPECIFICATION FairSpec
CONSTANTS
    d1 = d1
    d2 = d2
    old = old
    new = new
    NoImage = NoImage
    Default = Default
    BadHash = BadHash
    SeqMod = 256
    MaxBurst = 1
    Device = {d1, d2}
    Candidates = {d1, d2}
    Image = {old, new}
    Installed = {old}
    AttemptTime = 2
    Budget = 4
    SleepTime = 1
    Commands <- AnyCommand
    MaxCommands = 2
    FaultKinds <- AnyFault
    MaxFaults = 2
INVARIANTS TypeOK EraseIsDone OkMeansMarked WritesWhatFits WithinBudget
PROPERTIES CommandsEnd RecoversWhenBack
CHECK_DEADLOCK FALSE
