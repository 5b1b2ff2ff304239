CONSTANTS
    NKiss <- MC_NKiss
    Chans <- MC_Chans
    MaxFd <- MC_MaxFd
    InitOther <- MC_InitOther
    MaxEvents <- MC_MaxEvents
    KeptOpen <- MC_KeptOpen
    SpawnFails = TRUE
    MaxChurn <- MC_MaxChurn
SPECIFICATION FairSpec
INVARIANTS
    TypeOK
    FdAccounting
PROPERTIES
    StopHonoured
    ForeignFdsKept
    ImplementsLifecycle
CHECK_DEADLOCK FALSE
