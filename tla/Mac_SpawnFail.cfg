CONSTANTS
    NKiss <- MC_NKiss
    Chans <- MC_Chans
    MaxFd <- MC_SmallMaxFd
    InitOther <- MC_InitOther
    MaxEvents <- MC_MaxEvents
    KeptOpen <- MC_KeptOpen
    SpawnFails = TRUE
    MaxChurn <- MC_NoChurn
SPECIFICATION FairSpec
PROPERTIES
    WorkerStarted
CHECK_DEADLOCK FALSE
