CONSTANTS
    NKiss <- MC_NKiss
    Chans <- MC_Chans
    MaxFd <- MC_MaxFd
    InitOther <- MC_BusyOther
    MaxEvents <- MC_MaxEvents
    KeptOpen <- MC_KeptOpen
    SpawnFails = FALSE
    MaxChurn <- MC_ChurnTwo
SPECIFICATION FairSpec
PROPERTIES
    ReplyProcessed
CHECK_DEADLOCK FALSE
