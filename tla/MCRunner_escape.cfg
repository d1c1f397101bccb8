SPECIFICATION FairSpec
CONSTANTS
    k1 = k1
    k2 = k2
    Kin <- TwoKin
    Bytes <- OutputBytes
    Limits <- OneByte
    MaxWrite = 1
    MaxOutput = 1
    Escapes = TRUE
    UserChanges = FALSE
CHECK_DEADLOCK FALSE
PROPERTIES
    TimeoutBoundsRun
