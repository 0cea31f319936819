SPECIFICATION FairSpec
CONSTANTS
    SeqMod = 16
    MaxBurst = 2
    Total = 5
    FirstOverhead = 1
    Mtus = {0, 2, 9}
    Leftovers = {0}
    Slots <- AnySlot
    MinChunk = 1
    FaultKinds <- AnyFault
    MaxFaults = 2
    UsizeMod = 1000
    Chunks = {1, 3}
    Windows = {1, 2, 3}
INVARIANTS TypeOK AckedBytesAreStored StallsFitWindow DeviceInWindow
PROPERTIES TransferSpec AckAnswersItsChunk NeverRewinds EachArmDowngrades Termination UndisturbedSucceeds
CHECK_DEADLOCK FALSE
