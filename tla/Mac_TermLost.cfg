CONSTANTS
    NKiss <- MC_NKiss
    Chans <- MC_Chans
    MaxFd <- MC_MaxFd
    InitOther <- MC_InitOther
    MaxEvents <- MC_MaxEvents
    KeptOpen <- MC_KeptOpen
    SpawnFails = FALSE
    MaxChurn <- MC_NoChurn
SPECIFICATION FairSpec
PROPERTIES
    TermStopsThread
CHECK_DEADLOCK FALSE
