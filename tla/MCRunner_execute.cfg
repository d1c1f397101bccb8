SPECIFICATION FairSpec
CONSTANTS
    k1 = k1
    k2 = k2
    Kin <- TwoKin
    Bytes <- OutputBytes
    Limits <- NoneOrThree
    MaxWrite = 4
    MaxOutput = 4
    Escapes = TRUE
    UserChanges = TRUE
CHECK_DEADLOCK FALSE
INVARIANTS
    TypeOK
    OutcomeSound
    NoGroupSurvivor
    TailsComplete
    TailIsSuffix
PROPERTIES
    ImplementsExecution
    TimeoutBoundsGroup
