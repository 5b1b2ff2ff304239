CONSTANTS
    NKiss <- MC_NKiss
    Chans <- MC_Chans
    Others <- MC_Others
    MaxDisrupt <- MC_MaxDisrupt
    SpawnFails = TRUE
SPECIFICATION FairSpec

    
PROPERTIES
    ImplementsLifecycleSafety
CHECK_DEADLOCK FALSE
