SPECIFICATION FairSpec
CONSTANTS
    SeqMod = 3
    MaxBurst = 2
    MaxOutstanding = 3
    MaxRequests = 7
    MaxFaults = 2
INVARIANTS TypeOK Correlated
PROPERTIES WatchReturnsOnDrop
CHECK_DEADLOCK FALSE
