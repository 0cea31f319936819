SPECIFICATION FileSpec
CONSTANTS
    none = none
    h = h
    ByteMod = 16
    IMAGE_MAGIC = 15293
    TLV_INFO_MAGIC = 151
    TLV_PROT_INFO_MAGIC = 152
    TLV_SHA256 = 16
    HashLen = 2
    Sha256 <- Checksum
    Layouts <- SomeLayouts
    Hash = h
    NoBlock = none
INVARIANTS InBounds ValidIsBacked ReadsWhatWasBuilt ValidMeansIntact ChangeIsSeen CutIsRejected
PROPERTIES Terminates
CHECK_DEADLOCK FALSE
